------------------------ MODULE AccountSessions_proofs ------------------------
(***************************************************************************)
(* Proofs about AccountSessions, for any accounts, browsers and threads    *)
(* and any number of tokens and requests.                                  *)
(***************************************************************************)
EXTENDS AccountSessions, TLAPS

\* The accounts there are.
Known == {e \in Emails : accounts[e] # None}

\* A request at place pc knows its account and its token, where it uses them.
RequestOK(r, ids, known) ==
  /\ r \in Requests
  /\ {r.token, r.made} \subseteq ids \cup {0}
  /\ r.seen \cup r.before \subseteq ids
  /\ r.pc \in {"first", "create", "googleEmail", "googleUpdate", "googleGate", "issue",
               "gate", "sweep", "editWrite"} => r.account \in Emails
  /\ r.pc \in {"googleUpdate", "editWrite"} => r.account \in known
  /\ r.pc \in {"read", "write", "gate"} \/ r.kind = "refresh" => r.token # 0

\* The part of the inductive invariant that is about types and places.
TypeInv == TypeOK /\ \A w \in Threads : RequestOK(req[w], TokenIds, Known)

----------------------------------------------------------------------------
(* The statements on the table refresh_tokens.                             *)

\* What a step may do to the tokens, whichever request takes it.
TokenStep ==
  \/ \E e \in Emails : IssuePair(e)
  \/ \E t \in TokenIds : Rotate(t)
  \/ \E S \in SUBSET TokenIds : Revoke(S)
  \/ \E t \in TokenIds : Expire(t)
  \/ UNCHANGED <<tokens, parent, ended>> /\ raced \subseteq raced' /\ raced' \subseteq TokenIds

LEMMA NewRowType ==
  ASSUME NEW e \in Emails
  PROVE  NewRow(e) \in TokenRows /\ NewRow(e).account = e /\ NewRow(e).replacedBy = 0
  BY DEF NewRow, TokenRows

\* A new row at the end leaves the old rows where they are.
LEMMA AppendRow ==
  ASSUME NEW rows \in Seq(TokenRows), NEW r \in TokenRows
  PROVE  /\ Append(rows, r) \in Seq(TokenRows)
         /\ Len(Append(rows, r)) = Len(rows) + 1
         /\ \A t \in 1..Len(rows) : Append(rows, r)[t] = rows[t]
         /\ Append(rows, r)[Len(rows) + 1] = r
  OBVIOUS

LEMMA AppendParent ==
  ASSUME NEW rows \in Seq(Nat), NEW r \in Nat
  PROVE  /\ Append(rows, r) \in Seq(Nat)
         /\ Len(Append(rows, r)) = Len(rows) + 1
         /\ \A t \in 1..Len(rows) : Append(rows, r)[t] = rows[t]
         /\ Append(rows, r)[Len(rows) + 1] = r
  OBVIOUS

LEMMA UpdateRow ==
  ASSUME NEW rows \in Seq(TokenRows), NEW t \in 1..Len(rows), NEW r \in TokenRows
  PROVE  /\ [rows EXCEPT ![t] = r] \in Seq(TokenRows)
         /\ Len([rows EXCEPT ![t] = r]) = Len(rows)
         /\ \A u \in 1..Len(rows) : [rows EXCEPT ![t] = r][u] = IF u = t THEN r ELSE rows[u]
  OBVIOUS

LEMMA RevokedRow ==
  ASSUME NEW r \in TokenRows
  PROVE  /\ [r EXCEPT !.revoked = TRUE] \in TokenRows
         /\ [r EXCEPT !.revoked = TRUE].account = r.account
         /\ [r EXCEPT !.revoked = TRUE].revoked
         /\ [r EXCEPT !.revoked = TRUE].replacedBy = r.replacedBy
  BY DEF TokenRows

LEMMA ReplacedRow ==
  ASSUME NEW r \in TokenRows, NEW n \in Nat
  PROVE  /\ [r EXCEPT !.revoked = TRUE, !.replacedBy = n] \in TokenRows
         /\ [r EXCEPT !.revoked = TRUE, !.replacedBy = n].account = r.account
         /\ [r EXCEPT !.revoked = TRUE, !.replacedBy = n].revoked
         /\ [r EXCEPT !.revoked = TRUE, !.replacedBy = n].replacedBy = n
  BY DEF TokenRows

LEMMA ExpiredRow ==
  ASSUME NEW r \in TokenRows
  PROVE  /\ [r EXCEPT !.expired = TRUE] \in TokenRows
         /\ [r EXCEPT !.expired = TRUE].account = r.account
         /\ [r EXCEPT !.expired = TRUE].revoked = r.revoked
         /\ [r EXCEPT !.expired = TRUE].replacedBy = r.replacedBy
  BY DEF TokenRows

LEMMA IssueShape ==
  ASSUME TokensTypeOK, NEW e \in Emails, IssuePair(e)
  PROVE  /\ TokensTypeOK'
         /\ TokenIds' = TokenIds \cup {NextToken} /\ NextToken \in Nat /\ NextToken \notin TokenIds
         /\ \A t \in TokenIds : tokens'[t] = tokens[t] /\ parent'[t] = parent[t]
         /\ tokens'[NextToken] = NewRow(e) /\ parent'[NextToken] = 0
<1>1. NewRow(e) \in TokenRows /\ tokens \in Seq(TokenRows) /\ parent \in Seq(Nat)
  BY NewRowType DEF TokensTypeOK
<1>2. tokens' = Append(tokens, NewRow(e)) /\ parent' = Append(parent, 0)
  BY DEF IssuePair
<1>3. Len(tokens) \in Nat /\ Len(parent) = Len(tokens)
  BY DEF TokensTypeOK
<1>4. Len(tokens') = Len(tokens) + 1 /\ Len(parent') = Len(tokens) + 1
  BY <1>1, <1>2, <1>3, AppendRow, AppendParent
<1>5. TokensTypeOK'
  BY <1>1, <1>2, <1>3, <1>4, AppendRow, AppendParent DEF TokensTypeOK, IssuePair, NextToken, TokenIds
<1>6. TokenIds' = TokenIds \cup {NextToken} /\ NextToken \in Nat /\ NextToken \notin TokenIds
  BY <1>3, <1>4 DEF TokenIds, NextToken
<1>7. QED
  BY <1>1, <1>2, <1>3, <1>5, <1>6, AppendRow, AppendParent DEF TokenIds, NextToken

LEMMA RotateShape ==
  ASSUME TokensTypeOK, NEW t \in TokenIds, Rotate(t)
  PROVE  /\ TokensTypeOK'
         /\ TokenIds' = TokenIds \cup {NextToken} /\ NextToken \in Nat /\ NextToken \notin TokenIds
         /\ \A u \in TokenIds : /\ tokens'[u] = IF u = t THEN [tokens[t] EXCEPT !.revoked = TRUE,
                                                                               !.replacedBy = NextToken]
                                                         ELSE tokens[u]
                                /\ parent'[u] = parent[u]
         /\ tokens'[NextToken] = NewRow(tokens[t].account) /\ parent'[NextToken] = t
<1> DEFINE new == [tokens[t] EXCEPT !.revoked = TRUE, !.replacedBy = NextToken]
<1> DEFINE mid == [tokens EXCEPT ![t] = new]
<1>1. tokens \in Seq(TokenRows) /\ parent \in Seq(Nat) /\ Len(tokens) \in Nat /\ Len(parent) = Len(tokens)
  BY DEF TokensTypeOK
<1>2. tokens[t] \in TokenRows /\ t \in Nat /\ NextToken \in Nat /\ t \in 1..Len(tokens)
  BY <1>1 DEF TokenIds, NextToken
<1>3. NewRow(tokens[t].account) \in TokenRows /\ new \in TokenRows
  BY <1>2, NewRowType, ReplacedRow DEF TokenRows
<1> HIDE DEF new
<1>4. mid \in Seq(TokenRows) /\ Len(mid) = Len(tokens)
  BY <1>1, <1>2, <1>3, UpdateRow
<1>5. \A u \in TokenIds : mid[u] = IF u = t THEN new ELSE tokens[u]
  BY <1>1, <1>2, <1>3, UpdateRow DEF TokenIds
<1>6. tokens' = Append(mid, NewRow(tokens[t].account)) /\ parent' = Append(parent, t)
  BY DEF Rotate, new
<1>7. Len(tokens') = Len(tokens) + 1 /\ Len(parent') = Len(tokens) + 1
  BY <1>1, <1>2, <1>3, <1>4, <1>6, AppendRow, AppendParent
<1>8. tokens' \in Seq(TokenRows) /\ parent' \in Seq(Nat)
  BY <1>1, <1>2, <1>3, <1>4, <1>6, AppendRow, AppendParent
<1>9. TokenIds' = TokenIds \cup {NextToken} /\ NextToken \notin TokenIds
  BY <1>1, <1>7 DEF TokenIds, NextToken
<1>10. TokensTypeOK'
  BY <1>1, <1>7, <1>8, <1>9 DEF TokensTypeOK, Rotate, NextToken
<1>11. \A u \in TokenIds : tokens'[u] = mid[u] /\ parent'[u] = parent[u]
  BY <1>1, <1>2, <1>3, <1>4, <1>6, AppendRow, AppendParent DEF TokenIds
<1>12. tokens'[NextToken] = NewRow(tokens[t].account) /\ parent'[NextToken] = t
  BY <1>1, <1>2, <1>3, <1>4, <1>6, AppendRow, AppendParent DEF NextToken
<1>13. QED
  BY <1>2, <1>5, <1>9, <1>10, <1>11, <1>12 DEF new

LEMMA RevokeShape ==
  ASSUME TokensTypeOK, NEW S \in SUBSET TokenIds, Revoke(S)
  PROVE  /\ TokensTypeOK'
         /\ TokenIds' = TokenIds
         /\ \A u \in TokenIds : tokens'[u] = IF u \in S THEN [tokens[u] EXCEPT !.revoked = TRUE] ELSE tokens[u]
<1>1. tokens \in Seq(TokenRows) /\ Len(tokens) \in Nat /\ TokenIds = 1..Len(tokens)
  BY DEF TokensTypeOK, TokenIds
<1>2. \A u \in TokenIds : tokens[u] \in TokenRows
  BY <1>1
<1>3. tokens' = [u \in TokenIds |-> IF u \in S THEN [tokens[u] EXCEPT !.revoked = TRUE] ELSE tokens[u]]
  BY DEF Revoke
<1>4. \A u \in TokenIds : tokens'[u] \in TokenRows
<2> TAKE u \in TokenIds
<2>1. CASE u \in S
  BY <1>2, <1>3, <2>1, RevokedRow
<2>2. CASE u \notin S
  BY <1>2, <1>3, <2>2
<2>3. QED BY <2>1, <2>2
<1>5. tokens' \in Seq(TokenRows) /\ Len(tokens') = Len(tokens)
  BY <1>1, <1>3, <1>4
<1>6. TokensTypeOK' /\ TokenIds' = TokenIds
  BY <1>1, <1>5 DEF TokensTypeOK, TokenIds, Revoke
<1>7. QED
  BY <1>3, <1>6

LEMMA ExpireShape ==
  ASSUME TokensTypeOK, NEW t \in TokenIds, Expire(t)
  PROVE  /\ TokensTypeOK'
         /\ TokenIds' = TokenIds
         /\ \A u \in TokenIds : tokens'[u] = IF u = t THEN [tokens[u] EXCEPT !.expired = TRUE] ELSE tokens[u]
<1>1. tokens \in Seq(TokenRows) /\ Len(tokens) \in Nat /\ TokenIds = 1..Len(tokens)
  BY DEF TokensTypeOK, TokenIds
<1>2. \A u \in TokenIds : tokens[u] \in TokenRows
  BY <1>1
<1> DEFINE new == [tokens[t] EXCEPT !.expired = TRUE]
<1>3. tokens' = [tokens EXCEPT ![t] = new]
  BY DEF Expire
<1>4. new \in TokenRows /\ t \in 1..Len(tokens)
  BY <1>1, <1>2, ExpiredRow
<1> HIDE DEF new
<1>5. /\ tokens' \in Seq(TokenRows) /\ Len(tokens') = Len(tokens)
      /\ \A u \in TokenIds : tokens'[u] = IF u = t THEN new ELSE tokens[u]
  BY <1>1, <1>3, <1>4, UpdateRow
<1>6. TokensTypeOK' /\ TokenIds' = TokenIds
  BY <1>1, <1>5 DEF TokensTypeOK, TokenIds, Expire
<1>7. QED
  BY <1>5, <1>6 DEF new

\* Whatever happens to them, rows are only added, and revoked for good.
LEMMA TokensOnlyGrow ==
  ASSUME TokensTypeOK, TokenStep
  PROVE  /\ TokensTypeOK'
         /\ TokenIds \subseteq TokenIds'
         /\ raced \subseteq raced' /\ ended \subseteq ended'
         /\ \A t \in TokenIds : /\ tokens'[t].account = tokens[t].account
                                /\ tokens[t].revoked => tokens'[t].revoked
                                /\ parent'[t] = parent[t]
<1> DEFINE Grown == /\ TokensTypeOK'
                    /\ TokenIds \subseteq TokenIds'
                    /\ raced \subseteq raced' /\ ended \subseteq ended'
                    /\ \A t \in TokenIds : /\ tokens'[t].account = tokens[t].account
                                           /\ tokens[t].revoked => tokens'[t].revoked
                                           /\ parent'[t] = parent[t]
<1>0. \A t \in TokenIds : tokens[t] \in TokenRows
  BY DEF TokensTypeOK, TokenIds
<1>1. ASSUME NEW e \in Emails, IssuePair(e) PROVE Grown
  BY <1>1, IssueShape DEF IssuePair
<1>2. ASSUME NEW t \in TokenIds, Rotate(t) PROVE Grown
<2>1. TokensTypeOK' /\ TokenIds \subseteq TokenIds' /\ raced \subseteq raced' /\ ended \subseteq ended'
  BY <1>2, RotateShape DEF Rotate
<2>2. ASSUME NEW u \in TokenIds
      PROVE  /\ tokens'[u].account = tokens[u].account
             /\ tokens[u].revoked => tokens'[u].revoked
             /\ parent'[u] = parent[u]
  <3>1. CASE u = t
    <4>1. NextToken \in Nat /\ tokens[t] \in TokenRows
      BY <1>0, <1>2, RotateShape
    <4>2. /\ tokens'[u] = [tokens[t] EXCEPT !.revoked = TRUE, !.replacedBy = NextToken]
          /\ parent'[u] = parent[u]
      BY <1>2, <3>1, RotateShape
    <4> DEFINE new == [tokens[t] EXCEPT !.revoked = TRUE, !.replacedBy = NextToken]
    <4>3. new.account = tokens[t].account /\ new.revoked
      BY <4>1, ReplacedRow
    <4> HIDE DEF new
    <4>4. tokens'[u] = new
      BY <4>2 DEF new
    <4>5. QED BY <3>1, <4>2, <4>3, <4>4
  <3>2. CASE u # t
    BY <1>2, <3>2, RotateShape
  <3>3. QED BY <3>1, <3>2
<2>3. QED BY <2>1, <2>2
<1>3. ASSUME NEW S \in SUBSET TokenIds, Revoke(S) PROVE Grown
<2>1. TokensTypeOK' /\ TokenIds \subseteq TokenIds' /\ raced \subseteq raced' /\ ended \subseteq ended'
  BY <1>3, RevokeShape DEF Revoke
<2>2. ASSUME NEW u \in TokenIds
      PROVE  /\ tokens'[u].account = tokens[u].account
             /\ tokens[u].revoked => tokens'[u].revoked
             /\ parent'[u] = parent[u]
  <3>1. CASE u \in S
    BY <1>0, <1>3, <3>1, RevokeShape, RevokedRow DEF Revoke
  <3>2. CASE u \notin S
    BY <1>3, <3>2, RevokeShape DEF Revoke
  <3>3. QED BY <3>1, <3>2
<2>3. QED BY <2>1, <2>2
<1>4. ASSUME NEW t \in TokenIds, Expire(t) PROVE Grown
<2>1. TokensTypeOK' /\ TokenIds \subseteq TokenIds' /\ raced \subseteq raced' /\ ended \subseteq ended'
  BY <1>4, ExpireShape DEF Expire
<2>2. ASSUME NEW u \in TokenIds
      PROVE  /\ tokens'[u].account = tokens[u].account
             /\ tokens[u].revoked => tokens'[u].revoked
             /\ parent'[u] = parent[u]
  <3>1. CASE u = t
    BY <1>0, <1>4, <3>1, ExpireShape, ExpiredRow DEF Expire
  <3>2. CASE u # t
    BY <1>4, <3>2, ExpireShape DEF Expire
  <3>3. QED BY <3>1, <3>2
<2>3. QED BY <2>1, <2>2
<1>5. ASSUME UNCHANGED <<tokens, parent, ended>> /\ raced \subseteq raced' /\ raced' \subseteq TokenIds
      PROVE  Grown
  BY <1>5 DEF TokensTypeOK, TokenIds
<1>6. QED
  BY <1>1, <1>2, <1>3, <1>4, <1>5 DEF TokenStep

\* Every step of the system is one of these statements, or none.
LEMMA NextIsTokenStep ==
  ASSUME TypeInv, [Next]_vars
  PROVE  TokenStep
<1> USE DEF TypeInv
<1>0. /\ raced \subseteq TokenIds
      /\ \A w \in Threads : RequestOK(req[w], TokenIds, Known)
  BY DEF TypeOK, TokensTypeOK
<1>1. ASSUME UNCHANGED tokenVars PROVE TokenStep
  BY <1>0, <1>1 DEF tokenVars, TokenStep
<1>2. CASE TokenExpires
  BY <1>2 DEF TokenExpires, TokenStep
<1>3. ASSUME NEW w \in Threads, SignIn(w) PROVE TokenStep
  <2>1. CASE IssueTokens(w)
    <3>1. req[w].account \in Emails
      BY <1>0, <2>1 DEF IssueTokens, At, RequestOK
    <3>2. QED BY <2>1, <3>1 DEF IssueTokens, TokenStep
  <2>2. CASE ~IssueTokens(w)
    <3>1. UNCHANGED tokenVars
      BY <1>3, <2>2 DEF SignIn, Register, CountAccounts, CreateAccount, Login, VerifyMfa, GoogleLogin,
                        GoogleByEmail, GoogleUpdate, GoogleGate
    <3>2. QED BY <1>1, <3>1
  <2>3. QED BY <2>1, <2>2
<1>4. ASSUME NEW w \in Threads, Session(w) PROVE TokenStep
  <2>1. CASE RotateRead(w)
    BY <1>0, <2>1 DEF RotateRead, TokenStep, Active
  <2>2. CASE RotateCommit(w)
    <3>1. req[w].token \in TokenIds
      BY <1>0, <2>2 DEF RotateCommit, At, RequestOK
    <3>2. QED BY <2>2, <3>1 DEF RotateCommit, TokenStep
  <2>3. CASE RevokeCommit(w)
    <3>1. {req[w].token} \in SUBSET TokenIds
      BY <1>0, <2>3 DEF RevokeCommit, At, RequestOK
    <3>2. QED BY <2>3, <3>1 DEF RevokeCommit, TokenStep
  <2>4. CASE RevokeAllCommit(w)
    <3>1. req[w].seen \in SUBSET TokenIds
      BY <1>0, <2>4 DEF RevokeAllCommit, RequestOK
    <3>2. QED BY <2>4, <3>1 DEF RevokeAllCommit, TokenStep
  <2>5. CASE ~(RotateRead(w) \/ RotateCommit(w) \/ RevokeCommit(w) \/ RevokeAllCommit(w))
    <3>1. UNCHANGED tokenVars
      BY <1>4, <2>5 DEF Session, Refresh, RefreshGate, Logout, RevokeRead, RevokeAllRead, Respond,
                        LoseResponse
    <3>2. QED BY <1>1, <3>1
  <2>6. QED BY <2>1, <2>2, <2>3, <2>4, <2>5
<1>5. ASSUME NEW w \in Threads, Edit(w) PROVE TokenStep
  <2>1. UNCHANGED tokenVars
    BY <1>5 DEF Edit, SetupTotp, EnableTotp, DisableTotp, LinkPassword, SetActive, SetRoles, WriteEdit,
                BeginEdit
  <2>2. QED BY <1>1, <2>1
<1>6. CASE UNCHANGED vars
  BY <1>1, <1>6 DEF vars
<1>7. QED
  BY <1>2, <1>3, <1>4, <1>5, <1>6 DEF Next

----------------------------------------------------------------------------
(* The chain of replacements.                                              *)

\* What TokenLineage says of a replaced token.
Replaced(t) == LET r == tokens[t].replacedBy IN
               /\ tokens[t].revoked /\ r \in TokenIds /\ r > t /\ parent[r] = t
               /\ tokens[r].account = tokens[t].account
               /\ \A u \in TokenIds : parent[u] = t => u <= r

\* It is sound as long as no row gets another replacement.
LEMMA LineageKept ==
  ASSUME TokensTypeOK, TokenLineage, TokenIds' = TokenIds, parent' = parent,
         \A t \in TokenIds : tokens'[t].account = tokens[t].account,
         \A t \in TokenIds : tokens'[t].replacedBy = tokens[t].replacedBy,
         \A t \in TokenIds : tokens[t].revoked => tokens'[t].revoked
  PROVE  TokenLineage'
<1>1. ASSUME NEW u \in TokenIds, tokens'[u].replacedBy # 0
      PROVE  Replaced(u)'
  <2>1. Replaced(u)
    BY <1>1 DEF TokenLineage, Replaced
  <2>2. QED
    BY <2>1 DEF Replaced
<1>2. ASSUME NEW u \in TokenIds, parent[u] # 0
      PROVE  parent[u] < u /\ tokens'[parent[u]].replacedBy # 0
  <2>1. parent[u] < u /\ tokens[parent[u]].replacedBy # 0
    BY <1>2 DEF TokenLineage
  <2>2. u \in Nat /\ u \in 1..Len(parent) /\ parent \in Seq(Nat) /\ Len(tokens) \in Nat /\ u <= Len(tokens)
    BY DEF TokensTypeOK, TokenIds
  <2>3. parent[u] \in TokenIds
    BY <1>2, <2>1, <2>2 DEF TokenIds
  <2>4. QED BY <2>1, <2>3
<1>3. QED BY <1>1, <1>2 DEF TokenLineage, Replaced

\* Each statement keeps the chain sound.
LEMMA LineageStep ==
  ASSUME TokensTypeOK, TokenLineage, TokenStep
  PROVE  TokenLineage'
<1>0. /\ TokensTypeOK' /\ TokenIds \subseteq TokenIds'
      /\ \A t \in TokenIds : tokens[t] \in TokenRows /\ t \in Nat /\ t # 0 /\ parent[t] \in Nat
  BY TokensOnlyGrow DEF TokensTypeOK, TokenIds
<1>1. ASSUME NEW e \in Emails, IssuePair(e) PROVE TokenLineage'
  <2>1. /\ TokenIds' = TokenIds \cup {NextToken} /\ NextToken \in Nat /\ NextToken \notin TokenIds
        /\ \A t \in TokenIds : tokens'[t] = tokens[t] /\ parent'[t] = parent[t]
        /\ tokens'[NextToken].replacedBy = 0 /\ parent'[NextToken] = 0
    BY <1>1, IssueShape, NewRowType
  <2>2. ASSUME NEW u \in TokenIds', tokens'[u].replacedBy # 0
        PROVE  Replaced(u)'
    <3>1. u \in TokenIds /\ tokens'[u] = tokens[u] /\ Replaced(u)
      BY <2>1, <2>2 DEF TokenLineage, Replaced
    <3>2. \A x \in TokenIds' : parent'[x] = u => x \in TokenIds /\ parent[x] = u
      BY <1>0, <2>1, <3>1
    <3>3. QED
      BY <2>1, <3>1, <3>2 DEF Replaced
  <2>3. ASSUME NEW u \in TokenIds', parent'[u] # 0
        PROVE  parent'[u] < u /\ tokens'[parent'[u]].replacedBy # 0
    <3>1. u \in TokenIds /\ parent'[u] = parent[u] /\ parent[u] < u /\ tokens[parent[u]].replacedBy # 0
      BY <2>1, <2>3 DEF TokenLineage
    <3>2. parent[u] \in TokenIds
      BY <1>0, <2>3, <3>1 DEF TokenIds, TokensTypeOK
    <3>3. QED
      BY <2>1, <3>1, <3>2
  <2>4. QED BY <2>2, <2>3 DEF TokenLineage, Replaced
<1>2. ASSUME NEW t \in TokenIds, Rotate(t) PROVE TokenLineage'
  <2> DEFINE n == NextToken
  <2>1. /\ TokenIds' = TokenIds \cup {n} /\ n \in Nat /\ n \notin TokenIds
        /\ \A u \in TokenIds : u < n
    <3>1. Len(tokens) \in Nat
      BY DEF TokensTypeOK
    <3>2. \A u \in TokenIds : u < n
      BY <3>1 DEF TokenIds, NextToken
    <3>3. QED BY <1>2, <3>2, RotateShape
  <2>2. tokens[t] \in TokenRows
    BY <1>0
  <2>3. /\ \A u \in TokenIds : u # t => tokens'[u] = tokens[u]
        /\ \A u \in TokenIds : parent'[u] = parent[u]
        /\ parent'[n] = t
    BY <1>2, RotateShape
  <2>4. tokens'[n].replacedBy = 0 /\ tokens'[n].account = tokens[t].account
    <3>1. tokens[t].account \in Emails
      BY <2>2 DEF TokenRows
    <3>2. tokens'[n] = NewRow(tokens[t].account)
      BY <1>2, RotateShape
    <3>3. QED BY <3>1, <3>2, NewRowType
  <2>5. tokens'[t].replacedBy = n /\ tokens'[t].revoked /\ tokens'[t].account = tokens[t].account
    <3> DEFINE new == [tokens[t] EXCEPT !.revoked = TRUE, !.replacedBy = n]
    <3>1. new.account = tokens[t].account /\ new.revoked /\ new.replacedBy = n
      BY <2>1, <2>2, ReplacedRow
    <3> HIDE DEF new
    <3>2. tokens'[t] = new
      BY <1>2, RotateShape DEF new
    <3>3. QED BY <3>1, <3>2
  <2> HIDE DEF n
  <2>6. ASSUME NEW u \in TokenIds', tokens'[u].replacedBy # 0
        PROVE  Replaced(u)'
    <3>1. u \in TokenIds
      BY <2>1, <2>4, <2>6
    <3>2. CASE u = t
      BY <1>0, <2>1, <2>3, <2>4, <2>5, <3>2 DEF Replaced
    <3>3. CASE u # t
      <4>1. tokens'[u] = tokens[u]
        BY <2>3, <3>1, <3>3
      <4> DEFINE r == tokens[u].replacedBy
      <4>2. /\ tokens[u].revoked /\ r \in TokenIds /\ r > u /\ parent[r] = u
            /\ tokens[r].account = tokens[u].account
            /\ \A x \in TokenIds : parent[x] = u => x <= r
        BY <2>6, <3>1, <4>1 DEF TokenLineage
      <4>3. tokens'[r].account = tokens[r].account
        BY <2>3, <2>5, <4>2
      <4>4. \A x \in TokenIds' : parent'[x] = u => x \in TokenIds /\ parent[x] = u
        BY <2>1, <2>3, <3>3
      <4>5. QED
        BY <1>0, <2>3, <4>1, <4>2, <4>3, <4>4 DEF Replaced
    <3>4. QED BY <3>2, <3>3
  <2>7. ASSUME NEW u \in TokenIds', parent'[u] # 0
        PROVE  parent'[u] < u /\ tokens'[parent'[u]].replacedBy # 0
    <3>1. CASE u = n
      BY <1>0, <2>1, <2>3, <2>5, <3>1
    <3>2. CASE u \in TokenIds
      <4>1. parent'[u] = parent[u] /\ parent[u] < u /\ tokens[parent[u]].replacedBy # 0
        BY <2>3, <2>7, <3>2 DEF TokenLineage
      <4>2. parent[u] \in TokenIds
        BY <1>0, <2>7, <3>2, <4>1 DEF TokenIds, TokensTypeOK
      <4>3. CASE parent[u] = t
        BY <1>0, <2>1, <2>5, <4>1, <4>3
      <4>4. CASE parent[u] # t
        BY <2>3, <4>1, <4>2, <4>4
      <4>5. QED BY <4>3, <4>4
    <3>3. QED BY <2>1, <3>1, <3>2
  <2>8. QED BY <2>6, <2>7 DEF TokenLineage, Replaced
<1>4. ASSUME NEW S \in SUBSET TokenIds, Revoke(S) PROVE TokenLineage'
  <2>1. TokenIds' = TokenIds /\ parent' = parent
    BY <1>4, RevokeShape DEF Revoke
  <2>2. ASSUME NEW t \in TokenIds
        PROVE  /\ tokens'[t].account = tokens[t].account
               /\ tokens'[t].replacedBy = tokens[t].replacedBy
               /\ tokens[t].revoked => tokens'[t].revoked
    <3>1. CASE t \in S
      <4> DEFINE new == [tokens[t] EXCEPT !.revoked = TRUE]
      <4>1. new.account = tokens[t].account /\ new.revoked /\ new.replacedBy = tokens[t].replacedBy
        BY <1>0, RevokedRow
      <4> HIDE DEF new
      <4>2. tokens'[t] = new
        BY <1>4, <3>1, RevokeShape DEF new
      <4>3. QED BY <4>1, <4>2
    <3>2. CASE t \notin S
      BY <1>4, <3>2, RevokeShape
    <3>3. QED BY <3>1, <3>2
  <2>3. QED BY <2>1, <2>2, LineageKept
<1>5. ASSUME NEW x \in TokenIds, Expire(x) PROVE TokenLineage'
  <2>1. TokenIds' = TokenIds /\ parent' = parent
    BY <1>5, ExpireShape DEF Expire
  <2>2. ASSUME NEW t \in TokenIds
        PROVE  /\ tokens'[t].account = tokens[t].account
               /\ tokens'[t].replacedBy = tokens[t].replacedBy
               /\ tokens[t].revoked => tokens'[t].revoked
    <3>1. CASE t = x
      <4> DEFINE new == [tokens[t] EXCEPT !.expired = TRUE]
      <4>1. /\ new.account = tokens[t].account /\ new.replacedBy = tokens[t].replacedBy
            /\ new.revoked = tokens[t].revoked
        BY <1>0, ExpiredRow
      <4> HIDE DEF new
      <4>2. tokens'[t] = new
        BY <1>5, <3>1, ExpireShape DEF new
      <4>3. QED BY <4>1, <4>2
    <3>2. CASE t # x
      BY <1>5, <3>2, ExpireShape
    <3>3. QED BY <3>1, <3>2
  <2>3. QED BY <2>1, <2>2, LineageKept
<1>6. ASSUME UNCHANGED <<tokens, parent, ended>> PROVE TokenLineage'
  <2>1. TokenIds' = TokenIds /\ parent' = parent /\ tokens' = tokens
    BY <1>6 DEF TokenIds
  <2>2. QED BY <2>1, LineageKept
<1>7. QED
  BY <1>1, <1>2, <1>4, <1>5, <1>6 DEF TokenStep

----------------------------------------------------------------------------
(* The types of rows and requests.                                         *)

LEMMA RowTypes ==
  /\ Founded \in Rows
  /\ \A row \in Rows : \A sub \in Subs : Linked(sub, row) \in Rows
<1>1. MaxSecrets \in Nat /\ 0 \in 0..MaxSecrets
  BY BoundsAssumption
<1>2. QED
  BY <1>1 DEF Founded, Rows, Roles, Linked

LEMMA MergeType ==
  ASSUME NEW cur \in Rows, NEW old \in Rows, NEW new \in Rows
  PROVE  Merge(cur, old, new) \in Rows
  BY DEF Merge, Rows, Column

LEMMA NewAccountType ==
  ASSUME NEW w \in Threads, req[w] \in Requests
  PROVE  NewAccount(w) \in Rows
<1>1. MaxSecrets \in Nat /\ 0 \in 0..MaxSecrets
  BY BoundsAssumption
<1>2. RoleFor(req[w].first) \in Roles /\ req[w].sub \in Subs \cup {None}
  BY DEF RoleFor, Roles, Requests
<1>3. (req[w].kind = "register") \in BOOLEAN /\ (req[w].kind = "google" \/ ~RequireEmailVerification) \in BOOLEAN
  OBVIOUS
<1>4. QED
  BY <1>1, <1>2, <1>3 DEF NewAccount, Rows

LEMMA NoRequestOK ==
  ASSUME NEW ids \in SUBSET Nat, NEW known
  PROVE  RequestOK(NoRequest, ids, known)
<1>1. NoRequest \in Requests
  BY RowTypes DEF NoRequest, Requests, Kinds, Places
<1>2. QED
  BY <1>1 DEF NoRequest, RequestOK

\* A request stays sound while the tables grow ...
LEMMA RequestGrows ==
  ASSUME NEW r, NEW ids, NEW known, NEW ids2, NEW known2,
         RequestOK(r, ids, known), ids \subseteq ids2, known \subseteq known2
  PROVE  RequestOK(r, ids2, known2)
  BY DEF RequestOK

\* ... and when it moves to a place whose needs it meets.
LEMMA RequestMoves ==
  ASSUME NEW r, NEW ids, NEW known, RequestOK(r, ids, known), NEW place \in Places,
         place \in {"first", "create", "googleEmail", "googleUpdate", "googleGate", "issue",
                    "gate", "sweep", "editWrite"} => r.account \in Emails,
         place \in {"googleUpdate", "editWrite"} => r.account \in known,
         place \in {"read", "write", "gate"} => r.token # 0
  PROVE  RequestOK([r EXCEPT !.pc = place], ids, known)
<1> DEFINE r2 == [r EXCEPT !.pc = place]
<1>1. r2 \in Requests
  BY DEF RequestOK, Requests
<1>2. /\ r2.pc = place /\ r2.kind = r.kind /\ r2.account = r.account /\ r2.token = r.token /\ r2.made = r.made
      /\ r2.seen = r.seen /\ r2.before = r.before
  BY DEF RequestOK, Requests
<1> HIDE DEF r2
<1>3. RequestOK(r2, ids, known)
  BY <1>1, <1>2 DEF RequestOK
<1>4. QED BY <1>3 DEF r2

----------------------------------------------------------------------------
(* Each variable keeps its type.                                           *)

\* Accounts are created and edited, never deleted.
LEMMA AccountsStep ==
  ASSUME TypeInv, [Next]_vars
  PROVE  accounts' \in [Emails -> Rows \cup {None}] /\ Known \subseteq Known'
<1> DEFINE Goal == accounts' \in [Emails -> Rows \cup {None}] /\ Known \subseteq Known'
<1>0. /\ accounts \in [Emails -> Rows \cup {None}]
      /\ \A w \in Threads : RequestOK(req[w], TokenIds, Known) /\ req[w] \in Requests
  BY DEF TypeInv, TypeOK
<1>1. ASSUME UNCHANGED accounts PROVE Goal
  BY <1>0, <1>1 DEF Known
<1>2. ASSUME NEW e \in Emails, NEW row \in Rows, accounts' = [accounts EXCEPT ![e] = row] PROVE Goal
  BY <1>0, <1>2, NoneAssumption DEF Known
<1>3. ASSUME NEW w \in Threads, CreateAccount(w) PROVE Goal
  <2>1. CASE UNCHANGED accounts
    BY <2>1, <1>1
  <2>2. CASE accounts' = [accounts EXCEPT ![req[w].account] = NewAccount(w)]
    <3>1. req[w].account \in Emails
      BY <1>0, <1>3 DEF CreateAccount, At, RequestOK
    <3>2. NewAccount(w) \in Rows
      BY <1>0, NewAccountType
    <3>3. QED BY <1>2, <2>2, <3>1, <3>2
  <2>3. QED BY <1>3, <2>1, <2>2 DEF CreateAccount, accountVars
<1>4. ASSUME NEW w \in Threads, req[w].pc \in {"googleUpdate", "editWrite"},
             accounts' = [accounts EXCEPT ![req[w].account] = Merge(@, req[w].old, req[w].new)]
      PROVE  Goal
  <2>1. req[w].account \in Emails /\ req[w].account \in Known
    BY <1>0, <1>4 DEF RequestOK
  <2>2. accounts[req[w].account] \in Rows /\ req[w].old \in Rows /\ req[w].new \in Rows
    BY <1>0, <2>1 DEF Known, Requests
  <2>3. Merge(accounts[req[w].account], req[w].old, req[w].new) \in Rows
    BY <2>2, MergeType
  <2>4. QED BY <1>2, <1>4, <2>1, <2>3
<1>5. ASSUME NEW w \in Threads, SignIn(w), ~CreateAccount(w) PROVE Goal
  <2>1. CASE GoogleUpdate(w)
    BY <1>1, <1>4, <2>1 DEF GoogleUpdate, At
  <2>2. CASE ~GoogleUpdate(w)
    <3>1. UNCHANGED accounts
      BY <1>5, <2>2 DEF SignIn, Register, CountAccounts, Login, VerifyMfa, GoogleLogin, GoogleByEmail,
                        GoogleGate, IssueTokens, accountVars
    <3>2. QED BY <1>1, <3>1
  <2>3. QED BY <2>1, <2>2
<1>6. ASSUME NEW w \in Threads, Session(w) PROVE Goal
  <2>1. UNCHANGED accounts
    BY <1>6 DEF Session, Refresh, RotateRead, RotateCommit, RefreshGate, Logout, RevokeRead, RevokeCommit,
                RevokeAllRead, RevokeAllCommit, Respond, LoseResponse, accountVars
  <2>2. QED BY <1>1, <2>1
<1>7. ASSUME NEW w \in Threads, Edit(w) PROVE Goal
  <2>1. CASE WriteEdit(w)
    BY <1>1, <1>4, <2>1 DEF WriteEdit, At
  <2>2. CASE ~WriteEdit(w)
    <3>1. UNCHANGED accounts
      BY <1>7, <2>2 DEF Edit, SetupTotp, EnableTotp, DisableTotp, LinkPassword, SetActive, SetRoles, BeginEdit
    <3>2. QED BY <1>1, <3>1
  <2>3. QED BY <2>1, <2>2
<1>8. CASE TokenExpires \/ UNCHANGED vars
  BY <1>1, <1>8 DEF TokenExpires, vars, accountVars
<1>9. QED
  BY <1>3, <1>5, <1>6, <1>7, <1>8 DEF Next

\* Only an answer that arrives changes a browser's cookies.
LEMMA CookiesStep ==
  ASSUME TypeInv, [Next]_vars, TokenIds \subseteq TokenIds'
  PROVE  cookies' \in [Browsers -> [refresh : TokenIds' \cup {0}, access : Emails \cup {None},
                                    mfa : Emails \cup {None}]]
<1> DEFINE Jars(ids) == [refresh : ids \cup {0}, access : Emails \cup {None}, mfa : Emails \cup {None}]
<1>0. /\ cookies \in [Browsers -> Jars(TokenIds)]
      /\ \A w \in Threads : RequestOK(req[w], TokenIds, Known)
  BY DEF TypeInv, TypeOK
<1>1. cookies \in [Browsers -> Jars(TokenIds')]
  <2>1. Jars(TokenIds) \subseteq Jars(TokenIds')
    OBVIOUS
  <2> HIDE DEF Jars
  <2>2. QED BY <1>0, <2>1
<1>2. ASSUME NEW w \in Threads, Respond(w) PROVE cookies' \in [Browsers -> Jars(TokenIds')]
  <2> DEFINE r == req[w]
             jar == IF r.kind = "logout" THEN NoCookies
                    ELSE IF r.made = 0 THEN [cookies[r.browser] EXCEPT !.mfa = r.account]
                    ELSE [cookies[r.browser] EXCEPT !.refresh = r.made, !.access = r.account]
  <2>1. cookies' = [cookies EXCEPT ![r.browser] = jar]
    BY <1>2 DEF Respond
  <2>2. r.made \in TokenIds' \cup {0} /\ r.account \in Emails \cup {None}
    BY <1>0 DEF RequestOK, Requests
  <2>3. ASSUME r.browser \in Browsers PROVE jar \in Jars(TokenIds')
    <3>1. cookies[r.browser] \in Jars(TokenIds')
      BY <1>1, <2>3
    <3>2. NoCookies \in Jars(TokenIds')
      BY DEF NoCookies
    <3>3. QED BY <2>2, <3>1, <3>2
  <2> HIDE DEF r, jar, Jars
  <2>4. QED BY <1>1, <2>1, <2>3
<1>3. CASE UNCHANGED cookies
  BY <1>1, <1>3
<1>4. ASSUME NEW w \in Threads, SignIn(w) \/ Session(w) \/ Edit(w), ~Respond(w) PROVE UNCHANGED cookies
  <2>1. CASE SignIn(w)
    BY <2>1 DEF SignIn, Register, CountAccounts, CreateAccount, Login, VerifyMfa, GoogleLogin, GoogleByEmail,
                GoogleUpdate, GoogleGate, IssueTokens, clientVars
  <2>2. CASE Session(w)
    BY <1>4, <2>2 DEF Session, Refresh, RotateRead, RotateCommit, RefreshGate, Logout, RevokeRead,
                RevokeCommit, RevokeAllRead, RevokeAllCommit, LoseResponse, clientVars
  <2>3. CASE Edit(w)
    BY <2>3 DEF Edit, SetupTotp, EnableTotp, DisableTotp, LinkPassword, SetActive, SetRoles, WriteEdit,
                BeginEdit, clientVars
  <2>4. QED BY <1>4, <2>1, <2>2, <2>3
<1>5. CASE TokenExpires \/ UNCHANGED vars
  BY <1>3, <1>5 DEF TokenExpires, vars, clientVars
<1>6. QED
  BY <1>2, <1>3, <1>4, <1>5 DEF Next

\* The counters and the histories.
HistoriesOK ==
  /\ secrets \in 0..MaxSecrets /\ events \in 0..MaxEvents
  /\ founders \subseteq Emails /\ mixed \subseteq Emails /\ confirmed \subseteq 1..MaxSecrets
  /\ stranded \cup signedOut \subseteq TokenIds

LEMMA HistoriesStep ==
  ASSUME TypeInv, [Next]_vars, TokenIds \subseteq TokenIds'
  PROVE  HistoriesOK'
<1>0. /\ HistoriesOK /\ MaxEvents \in Nat /\ MaxSecrets \in Nat
      /\ accounts \in [Emails -> Rows \cup {None}]
      /\ \A w \in Threads : RequestOK(req[w], TokenIds, Known)
  BY BoundsAssumption DEF TypeInv, TypeOK, HistoriesOK
<1>1. ASSUME UNCHANGED <<secrets, events, founders, mixed, confirmed, stranded, signedOut>>
      PROVE  HistoriesOK'
  BY <1>0, <1>1 DEF HistoriesOK
<1>2. ASSUME events < MaxEvents, events' = events + 1,
             UNCHANGED <<secrets, founders, mixed, confirmed, stranded, signedOut>>
      PROVE  HistoriesOK'
  BY <1>0, <1>2 DEF HistoriesOK
<1>3. ASSUME NEW w \in Threads, NEW e \in Emails, mixed' = Mixed(w, e) PROVE mixed' \subseteq Emails
  BY <1>0, <1>3 DEF Mixed, HistoriesOK
<1>4. ASSUME NEW w \in Threads, SignIn(w) PROVE HistoriesOK'
  <2> USE DEF accountVars, clientVars
  <2>1. CASE Register(w)
    BY <1>2, <2>1 DEF Register, Begin
  <2>2. CASE CountAccounts(w)
    BY <1>1, <2>2 DEF CountAccounts, Refuse
  <2>3. CASE CreateAccount(w)
    <3>1. req[w].account \in Emails
      BY <1>0, <2>3 DEF CreateAccount, At, RequestOK
    <3>2. /\ founders' = founders \/ founders' = founders \cup {req[w].account}
          /\ UNCHANGED <<secrets, events, mixed, confirmed, stranded, signedOut>>
      BY <2>3 DEF CreateAccount, Refuse, Goto
    <3>3. QED BY <1>0, <3>1, <3>2 DEF HistoriesOK
  <2>4. CASE Login(w)
    BY <1>2, <2>4 DEF Login
  <2>5. CASE VerifyMfa(w)
    BY <1>2, <2>5 DEF VerifyMfa, Begin
  <2>6. CASE GoogleLogin(w)
    <3>1. mixed' \subseteq Emails
      BY <1>0, <1>3, <2>6 DEF GoogleLogin, HistoriesOK
    <3>2. events < MaxEvents /\ events' = events + 1
          /\ UNCHANGED <<secrets, founders, confirmed, stranded, signedOut>>
      BY <2>6 DEF GoogleLogin, Begin
    <3>3. QED BY <1>0, <3>1, <3>2 DEF HistoriesOK
  <2>7. CASE GoogleByEmail(w)
    <3>1. req[w].account \in Emails
      BY <1>0, <2>7 DEF GoogleByEmail, At, RequestOK
    <3>2. mixed' \subseteq Emails
      BY <1>0, <1>3, <2>7, <3>1 DEF GoogleByEmail, HistoriesOK
    <3>3. UNCHANGED <<secrets, events, founders, confirmed, stranded, signedOut>>
      BY <2>7 DEF GoogleByEmail, Goto
    <3>4. QED BY <1>0, <3>2, <3>3 DEF HistoriesOK
  <2>8. CASE GoogleUpdate(w) \/ GoogleGate(w) \/ IssueTokens(w)
    BY <1>1, <2>8 DEF GoogleUpdate, GoogleGate, IssueTokens, Refuse, Goto
  <2>9. QED BY <1>4, <2>1, <2>2, <2>3, <2>4, <2>5, <2>6, <2>7, <2>8 DEF SignIn
<1>5. ASSUME NEW w \in Threads, Session(w) PROVE HistoriesOK'
  <2> USE DEF accountVars, clientVars
  <2>1. CASE Refresh(w) \/ Logout(w)
    BY <1>2, <2>1 DEF Refresh, Logout, Begin
  <2>2. CASE RotateRead(w) \/ RotateCommit(w) \/ RevokeRead(w) \/ RevokeCommit(w) \/ RevokeAllRead(w)
             \/ Respond(w)
    BY <1>1, <2>2 DEF RotateRead, RotateCommit, RevokeRead, RevokeCommit, RevokeAllRead, Respond, Refuse, Goto
  <2>3. CASE RefreshGate(w)
    <3>1. req[w].token \in TokenIds
      BY <1>0, <2>3 DEF RefreshGate, At, RequestOK
    <3>2. /\ stranded' \subseteq stranded \cup {req[w].token}
          /\ UNCHANGED <<secrets, events, founders, mixed, confirmed, signedOut>>
      BY <2>3 DEF RefreshGate, Refuse, Goto
    <3>3. QED BY <1>0, <3>1, <3>2 DEF HistoriesOK
  <2>4. CASE LoseResponse(w)
    <3>1. req[w].kind = "refresh" => req[w].token \in TokenIds
      BY <1>0 DEF RequestOK
    <3>2. stranded' \subseteq TokenIds
      BY <1>0, <2>4, <3>1 DEF LoseResponse, HistoriesOK
    <3>3. /\ events < MaxEvents /\ events' = events + 1
          /\ UNCHANGED <<secrets, founders, mixed, confirmed, signedOut>>
      BY <2>4 DEF LoseResponse
    <3>4. QED BY <1>0, <3>2, <3>3 DEF HistoriesOK
  <2>5. CASE RevokeAllCommit(w)
    <3>1. req[w].before \subseteq TokenIds
      BY <1>0 DEF RequestOK
    <3>2. /\ signedOut' \subseteq signedOut \cup req[w].before
          /\ UNCHANGED <<secrets, events, founders, mixed, confirmed, stranded>>
      BY <2>5 DEF RevokeAllCommit, Goto
    <3>3. QED BY <1>0, <3>1, <3>2 DEF HistoriesOK
  <2>6. QED BY <1>5, <2>1, <2>2, <2>3, <2>4, <2>5 DEF Session
<1>6. ASSUME NEW w \in Threads, Edit(w) PROVE HistoriesOK'
  <2> USE DEF accountVars, clientVars
  <2>1. ASSUME NEW b, NEW e, Exists(e), NEW new, BeginEdit(w, b, e, new),
               secrets' \in 0..MaxSecrets, confirmed' \subseteq 1..MaxSecrets
        PROVE  HistoriesOK'
    <3>1. /\ mixed' \subseteq Emails /\ events < MaxEvents /\ events' = events + 1
          /\ UNCHANGED <<founders, stranded, signedOut>>
      BY <1>3, <2>1 DEF BeginEdit, Begin, Exists
    <3>2. QED BY <1>0, <2>1, <3>1 DEF HistoriesOK
  <2>2. CASE SetupTotp(w)
    <3>1. secrets' \in 0..MaxSecrets /\ confirmed' \subseteq 1..MaxSecrets
      BY <1>0, <2>2 DEF SetupTotp, HistoriesOK
    <3>2. QED BY <2>1, <2>2, <3>1 DEF SetupTotp
  <2>3. CASE EnableTotp(w)
    <3>1. PICK b \in Browsers : /\ Exists(cookies[b].access) /\ accounts[cookies[b].access].secret # 0
                                /\ confirmed' = confirmed \cup {accounts[cookies[b].access].secret}
                                /\ BeginEdit(w, b, cookies[b].access,
                                             [accounts[cookies[b].access] EXCEPT !.totp = TRUE])
                                /\ UNCHANGED secrets
      BY <2>3 DEF EnableTotp
    <3>2. accounts[cookies[b].access] \in Rows
      BY <1>0, <3>1 DEF Exists
    <3>3. accounts[cookies[b].access].secret \in 1..MaxSecrets
      BY <1>0, <3>1, <3>2 DEF Rows
    <3>4. QED BY <1>0, <2>1, <3>1, <3>3 DEF HistoriesOK
  <2>4. CASE DisableTotp(w) \/ LinkPassword(w) \/ SetActive(w) \/ SetRoles(w)
    <3>1. secrets' \in 0..MaxSecrets /\ confirmed' \subseteq 1..MaxSecrets
      BY <1>0, <2>4 DEF DisableTotp, LinkPassword, SetActive, SetRoles, HistoriesOK
    <3>2. QED BY <2>1, <2>4, <3>1 DEF DisableTotp, LinkPassword, SetActive, SetRoles
  <2>5. CASE WriteEdit(w)
    BY <1>1, <2>5 DEF WriteEdit, Refuse
  <2>6. QED BY <1>6, <2>2, <2>3, <2>4, <2>5 DEF Edit
<1>7. CASE TokenExpires
  BY <1>2, <1>7 DEF TokenExpires, accountVars, clientVars
<1>8. CASE UNCHANGED vars
  BY <1>1, <1>8 DEF vars, accountVars, clientVars
<1>9. QED
  BY <1>4, <1>5, <1>6, <1>7, <1>8 DEF Next

----------------------------------------------------------------------------
(* The requests stay sound.                                                *)

RequestsOK == /\ req \in [Threads -> Requests]
              /\ \A w \in Threads : RequestOK(req[w], TokenIds, Known)
Grow == TokenIds \subseteq TokenIds' /\ Known \subseteq Known' /\ TokenIds' \subseteq Nat

\* A step changes one request ...
LEMMA OneRequest ==
  ASSUME RequestsOK, Grow, NEW w \in Threads, NEW r, RequestOK(r, TokenIds', Known'),
         req' = [req EXCEPT ![w] = r]
  PROVE  RequestsOK'
<1>1. r \in Requests
  BY DEF RequestOK
<1>2. req' \in [Threads -> Requests]
  BY <1>1 DEF RequestsOK
<1>3. ASSUME NEW x \in Threads PROVE RequestOK(req'[x], TokenIds', Known')
  <2>1. CASE x = w
    BY <2>1 DEF RequestsOK
  <2>2. CASE x # w
    BY <2>2, RequestGrows DEF RequestsOK, Grow
  <2>3. QED BY <2>1, <2>2
<1>4. QED BY <1>2, <1>3 DEF RequestsOK

\* ... which ends,
LEMMA RequestEnds ==
  ASSUME RequestsOK, Grow, NEW w \in Threads, req' = [req EXCEPT ![w] = NoRequest]
  PROVE  RequestsOK'
<1>1. RequestOK(NoRequest, TokenIds', Known')
  BY NoRequestOK DEF Grow
<1>2. QED BY <1>1, OneRequest

\* or moves to the next place.
LEMMA RequestGoes ==
  ASSUME RequestsOK, Grow, NEW w \in Threads, NEW place \in Places,
         place \in {"first", "create", "googleEmail", "googleUpdate", "googleGate", "issue",
                    "gate", "sweep", "editWrite"} => req[w].account \in Emails,
         place \in {"googleUpdate", "editWrite"} => req[w].account \in Known,
         place \in {"read", "write", "gate"} => req[w].token # 0,
         req' = [req EXCEPT ![w] = [@ EXCEPT !.pc = place]]
  PROVE  RequestsOK'
<1>1. RequestOK(req[w], TokenIds', Known')
  BY RequestGrows DEF RequestsOK, Grow
<1>2. Known \subseteq Known'
  BY DEF Grow
<1> DEFINE r == [req[w] EXCEPT !.pc = place]
<1>3. RequestOK(r, TokenIds', Known')
  BY <1>1, <1>2, RequestMoves
<1>4. req' = [req EXCEPT ![w] = r]
  BY DEF RequestsOK
<1> HIDE DEF r
<1>5. QED BY <1>3, <1>4, OneRequest

LEMMA SignInRequests ==
  ASSUME RequestsOK, Grow, TokensTypeOK, accounts \in [Emails -> Rows \cup {None}],
         NEW w \in Threads, SignIn(w)
  PROVE  RequestsOK'
<1>0. /\ RequestOK(req[w], TokenIds, Known) /\ req[w] \in Requests
      /\ TokenIds \subseteq Nat /\ 0 \in Nat /\ TokenIds \subseteq TokenIds' /\ Known \subseteq Known'
      /\ RequestOK(req[w], TokenIds', Known')
  BY RequestGrows DEF RequestsOK, TokenIds, Grow
<1>1. CASE Register(w)
  <2>1. PICK e \in Emails :
          req' = [req EXCEPT ![w] = [NoRequest EXCEPT !.kind = "register", !.pc = "first", !.account = e]]
    BY <1>1 DEF Register, Begin
  <2> DEFINE r == [NoRequest EXCEPT !.kind = "register", !.pc = "first", !.account = e]
  <2>2. RequestOK(r, TokenIds', Known')
    BY RowTypes DEF NoRequest, RequestOK, Requests, Kinds, Places
  <2> HIDE DEF r
  <2>3. QED BY <2>1, <2>2, OneRequest DEF r
<1>2. CASE CountAccounts(w)
  <2> DEFINE first == \A x \in Emails : ~Exists(x)
             r == [req[w] EXCEPT !.pc = "create", !.first = first]
  <2>1. first \in BOOLEAN
    OBVIOUS
  <2> HIDE DEF first
  <2>2. req[w].account \in Emails
    BY <1>0, <1>2 DEF CountAccounts, At, RequestOK
  <2>3. RequestOK(r, TokenIds', Known')
    <3>1. r \in Requests
      BY <1>0, <2>1 DEF Requests, Places
    <3>2. /\ r.token = req[w].token /\ r.made = req[w].made /\ r.seen = req[w].seen
          /\ r.before = req[w].before /\ r.pc = "create" /\ r.kind = req[w].kind
          /\ r.account = req[w].account
      BY <1>0 DEF Requests
    <3> HIDE DEF r
    <3>3. QED BY <1>0, <2>2, <3>1, <3>2 DEF RequestOK
  <2>4. req' = [req EXCEPT ![w] = NoRequest] \/ req' = [req EXCEPT ![w] = r]
    BY <1>2 DEF CountAccounts, Refuse, first, RequestsOK
  <2> HIDE DEF r
  <2>5. QED BY <2>3, <2>4, OneRequest, RequestEnds
<1>3. CASE CreateAccount(w)
  <2>1. req[w].account \in Emails
    BY <1>0, <1>3 DEF CreateAccount, At, RequestOK
  <2>2. CASE req' = [req EXCEPT ![w] = NoRequest]
    BY <2>2, RequestEnds
  <2>3. CASE req' = [req EXCEPT ![w] = [@ EXCEPT !.pc = "googleGate"]]
    BY <2>1, <2>3, RequestGoes DEF Places
  <2>4. QED BY <1>3, <2>2, <2>3 DEF CreateAccount, Refuse, Goto
<1>4. CASE Login(w)
  <2>1. PICK e \in Emails, b \in Browsers :
          PassGate(w, [NoRequest EXCEPT !.kind = "login", !.browser = b, !.account = e], accounts[e])
    BY <1>4 DEF Login
  <2>2. PICK place \in {"respond", "issue"} :
          req' = [req EXCEPT ![w] = [[NoRequest EXCEPT !.kind = "login", !.browser = b, !.account = e]
                                     EXCEPT !.pc = place]]
    BY <2>1 DEF PassGate
  <2> DEFINE r == [[NoRequest EXCEPT !.kind = "login", !.browser = b, !.account = e] EXCEPT !.pc = place]
  <2>3. RequestOK(r, TokenIds', Known')
    BY RowTypes DEF NoRequest, RequestOK, Requests, Kinds, Places
  <2> HIDE DEF r
  <2>4. QED BY <2>2, <2>3, OneRequest DEF r
<1>5. CASE VerifyMfa(w)
  <2>1. PICK b \in Browsers : /\ Exists(cookies[b].mfa)
                              /\ req' = [req EXCEPT ![w] = [NoRequest EXCEPT !.kind = "mfa", !.pc = "issue",
                                                           !.browser = b, !.account = cookies[b].mfa]]
    BY <1>5 DEF VerifyMfa, Begin
  <2> DEFINE r == [NoRequest EXCEPT !.kind = "mfa", !.pc = "issue", !.browser = b, !.account = cookies[b].mfa]
  <2>2. cookies[b].mfa \in Emails
    BY <2>1 DEF Exists
  <2>3. RequestOK(r, TokenIds', Known')
    BY <2>2, RowTypes DEF NoRequest, RequestOK, Requests, Kinds, Places
  <2> HIDE DEF r
  <2>4. QED BY <2>1, <2>3, OneRequest DEF r
<1>6. CASE GoogleLogin(w)
  <2>1. PICK sub \in Subs, e \in Emails, b \in Browsers :
          \/ req' = [req EXCEPT ![w] = [[NoRequest EXCEPT !.kind = "google", !.browser = b, !.sub = sub]
                                        EXCEPT !.pc = "googleEmail", !.account = e]]
          \/ \E x \in Known :
               req' = [req EXCEPT ![w] = [[NoRequest EXCEPT !.kind = "google", !.browser = b, !.sub = sub]
                                          EXCEPT !.pc = "googleUpdate", !.account = x, !.old = accounts[x],
                                                 !.new = accounts[x]]]
    BY <1>6 DEF GoogleLogin, Begin, Exists, Known
  <2> DEFINE g == [NoRequest EXCEPT !.kind = "google", !.browser = b, !.sub = sub]
             r1 == [g EXCEPT !.pc = "googleEmail", !.account = e]
             r2(x) == [g EXCEPT !.pc = "googleUpdate", !.account = x, !.old = accounts[x], !.new = accounts[x]]
  <2>2. RequestOK(r1, TokenIds', Known')
    BY RowTypes DEF NoRequest, RequestOK, Requests, Kinds, Places
  <2>3. ASSUME NEW x \in Known PROVE RequestOK(r2(x), TokenIds', Known')
    <3>1. x \in Emails /\ accounts[x] \in Rows /\ x \in Known'
      BY <1>0 DEF Known
    <3>2. QED
      BY <3>1, RowTypes DEF NoRequest, RequestOK, Requests, Kinds, Places
  <2>4. req' = [req EXCEPT ![w] = r1] \/ \E x \in Known : req' = [req EXCEPT ![w] = r2(x)]
    BY <2>1
  <2> HIDE DEF r1, r2
  <2>5. QED BY <2>2, <2>3, <2>4, OneRequest
<1>7. CASE GoogleByEmail(w)
  <2>1. req[w].account \in Emails
    BY <1>0, <1>7 DEF GoogleByEmail, At, RequestOK
  <2>2. CASE Exists(req[w].account)
    <3> DEFINE e == req[w].account
               row == Linked(req[w].sub, accounts[e])
               r == [req[w] EXCEPT !.pc = "googleUpdate", !.old = accounts[e], !.new = row]
    <3>1. accounts[e] \in Rows /\ e \in Known'
      BY <1>0, <2>1, <2>2 DEF Exists, Known
    <3>2. row \in Rows
      BY <1>0, <3>1 DEF Linked, Rows, Requests
    <3> HIDE DEF row
    <3>3. RequestOK(r, TokenIds', Known')
      BY <1>0, <2>1, <3>1, <3>2 DEF RequestOK, Requests, Places
    <3>4. req' = [req EXCEPT ![w] = r]
      BY <1>7, <2>2 DEF GoogleByEmail, row, RequestsOK
    <3> HIDE DEF r
    <3>5. QED BY <3>3, <3>4, OneRequest
  <2>3. CASE ~Exists(req[w].account)
    BY <1>7, <2>1, <2>3, RequestGoes DEF GoogleByEmail, Goto, Places
  <2>4. QED BY <2>2, <2>3
<1>8. CASE GoogleUpdate(w)
  <2>1. req[w].account \in Emails
    BY <1>0, <1>8 DEF GoogleUpdate, At, RequestOK
  <2>2. CASE req' = [req EXCEPT ![w] = NoRequest]
    BY <2>2, RequestEnds
  <2>3. CASE req' = [req EXCEPT ![w] = [@ EXCEPT !.pc = "googleGate"]]
    BY <2>1, <2>3, RequestGoes DEF Places
  <2>4. QED BY <1>8, <2>2, <2>3 DEF GoogleUpdate, Refuse, Goto
<1>9. CASE GoogleGate(w)
  <2>1. req[w].account \in Emails
    BY <1>0, <1>9 DEF GoogleGate, At, RequestOK
  <2>2. \/ req' = [req EXCEPT ![w] = NoRequest]
        \/ \E place \in {"respond", "issue"} : req' = [req EXCEPT ![w] = [@ EXCEPT !.pc = place]]
    BY <1>9 DEF GoogleGate, PassGate, Refuse, RequestsOK
  <2>3. ASSUME NEW place \in {"respond", "issue"}, req' = [req EXCEPT ![w] = [@ EXCEPT !.pc = place]]
        PROVE  RequestsOK'
    BY <2>1, <2>3, RequestGoes DEF Places
  <2>4. QED BY <2>2, <2>3, RequestEnds
<1>10. CASE IssueTokens(w)
  <2>1. req[w].account \in Emails
    BY <1>0, <1>10 DEF IssueTokens, At, RequestOK
  <2>2. NextToken \in TokenIds' /\ NextToken \in Nat
    BY <1>10, <2>1, IssueShape DEF IssueTokens
  <2> DEFINE r == [req[w] EXCEPT !.pc = "respond", !.made = NextToken]
  <2>3. RequestOK(r, TokenIds', Known')
    <3>1. r \in Requests
      BY <1>0, <2>2 DEF Requests, Places
    <3>2. /\ r.token = req[w].token /\ r.made = NextToken /\ r.seen = req[w].seen
          /\ r.before = req[w].before /\ r.pc = "respond" /\ r.kind = req[w].kind
      BY <1>0 DEF Requests
    <3> HIDE DEF r
    <3>3. QED BY <1>0, <2>2, <3>1, <3>2 DEF RequestOK
  <2>4. req' = [req EXCEPT ![w] = r]
    BY <1>10 DEF IssueTokens, RequestsOK
  <2> HIDE DEF r
  <2>5. QED BY <2>3, <2>4, OneRequest
<1>11. QED
  BY <1>1, <1>2, <1>3, <1>4, <1>5, <1>6, <1>7, <1>8, <1>9, <1>10 DEF SignIn

LEMMA SessionRequests ==
  ASSUME RequestsOK, Grow, TokensTypeOK,
         cookies \in [Browsers -> [refresh : TokenIds \cup {0}, access : Emails \cup {None},
                                   mfa : Emails \cup {None}]],
         NEW w \in Threads, Session(w)
  PROVE  RequestsOK'
<1>0. /\ RequestOK(req[w], TokenIds, Known) /\ req[w] \in Requests
      /\ TokenIds \subseteq Nat /\ 0 \in Nat /\ TokenIds \subseteq TokenIds' /\ Known \subseteq Known'
      /\ RequestOK(req[w], TokenIds', Known')
  BY RequestGrows DEF RequestsOK, TokenIds, Grow
<1>1. CASE Refresh(w)
  <2>1. PICK b \in Browsers : /\ cookies[b].refresh # 0
                              /\ req' = [req EXCEPT ![w] = [NoRequest EXCEPT !.kind = "refresh", !.pc = "read",
                                                           !.browser = b, !.token = cookies[b].refresh]]
    BY <1>1 DEF Refresh, Begin
  <2> DEFINE t == cookies[b].refresh
             r == [NoRequest EXCEPT !.kind = "refresh", !.pc = "read", !.browser = b, !.token = t]
  <2>2. t \in TokenIds /\ t # 0 /\ t \in Nat /\ t \in TokenIds'
    BY <1>0, <2>1
  <2>3. req' = [req EXCEPT ![w] = r]
    BY <2>1
  <2> HIDE DEF t
  <2>4. RequestOK(r, TokenIds', Known')
    <3>1. r \in Requests
      BY <2>2, RowTypes DEF NoRequest, Requests, Kinds, Places
    <3>2. r.token = t /\ r.made = 0 /\ r.seen = {} /\ r.before = {} /\ r.pc = "read"
      BY DEF NoRequest
    <3> HIDE DEF r
    <3>3. QED BY <2>2, <3>1, <3>2 DEF RequestOK
  <2> HIDE DEF r
  <2>5. QED BY <2>3, <2>4, OneRequest
<1>2. CASE RotateRead(w)
  <2>1. req[w].token # 0
    BY <1>0, <1>2 DEF RotateRead, At, RequestOK
  <2>2. CASE req' = [req EXCEPT ![w] = NoRequest]
    BY <2>2, RequestEnds
  <2>3. CASE req' = [req EXCEPT ![w] = [@ EXCEPT !.pc = "write"]]
    BY <2>1, <2>3, RequestGoes DEF Places
  <2>4. QED BY <1>2, <2>2, <2>3 DEF RotateRead, Refuse, Goto
<1>3. CASE RotateCommit(w)
  <2>1. req[w].token \in TokenIds
    BY <1>0, <1>3 DEF RotateCommit, At, RequestOK
  <2>2. tokens[req[w].token].account \in Emails
    <3>1. tokens[req[w].token] \in TokenRows
      BY <2>1 DEF TokensTypeOK, TokenIds
    <3>2. QED BY <3>1 DEF TokenRows
  <2>3. NextToken \in TokenIds' /\ NextToken \in Nat
    BY <1>3, <2>1, RotateShape DEF RotateCommit
  <2> DEFINE e == tokens[req[w].token].account
             r == [req[w] EXCEPT !.pc = "gate", !.made = NextToken, !.account = e]
  <2>4. req' = [req EXCEPT ![w] = r]
    BY <1>3 DEF RotateCommit, RequestsOK
  <2>5. e \in Emails
    BY <2>2
  <2> HIDE DEF e
  <2>6. RequestOK(r, TokenIds', Known')
    BY <1>0, <1>3, <2>1, <2>3, <2>5 DEF RequestOK, Requests, Places, RotateCommit
  <2> HIDE DEF r
  <2>7. QED BY <2>4, <2>6, OneRequest
<1>4. CASE RefreshGate(w) \/ RevokeCommit(w) \/ RevokeAllCommit(w)
  <2>1. \/ req' = [req EXCEPT ![w] = NoRequest]
        \/ \E place \in {"respond", "sweepRead"} : req' = [req EXCEPT ![w] = [@ EXCEPT !.pc = place]]
    BY <1>4 DEF RefreshGate, RevokeCommit, RevokeAllCommit, Refuse, Goto
  <2>2. ASSUME NEW place \in {"respond", "sweepRead"}, req' = [req EXCEPT ![w] = [@ EXCEPT !.pc = place]]
        PROVE  RequestsOK'
    BY <2>2, RequestGoes DEF Places
  <2>3. QED BY <2>1, <2>2, RequestEnds
<1>5. CASE Logout(w)
  <2> DEFINE Out(b, e) == [NoRequest EXCEPT !.kind = "logout", !.browser = b, !.token = cookies[b].refresh,
                             !.account = e, !.before = TokenIds,
                             !.pc = IF cookies[b].refresh # 0 THEN "read" ELSE "sweepRead"]
  <2>1. \E b \in Browsers : \E e \in {cookies[b].access, None} : Begin(w, Out(b, e))
    BY <1>5 DEF Logout
  <2> HIDE DEF Out
  <2>2. PICK b \in Browsers : \E e \in {cookies[b].access, None} : Begin(w, Out(b, e))
    BY <2>1
  <2>3. PICK e \in {cookies[b].access, None} : req' = [req EXCEPT ![w] = Out(b, e)]
    BY <2>2 DEF Begin
  <2>4. cookies[b].refresh \in TokenIds \cup {0} /\ cookies[b].access \in Emails \cup {None}
    OBVIOUS
  <2> DEFINE t == cookies[b].refresh
             place == IF t # 0 THEN "read" ELSE "sweepRead"
             r == [NoRequest EXCEPT !.kind = "logout", !.browser = b, !.token = t, !.account = e,
                                    !.before = TokenIds, !.pc = place]
  <2>5. t \in TokenIds' \cup {0} /\ t \in Nat /\ place \in {"read", "sweepRead"} /\ (place = "read" => t # 0)
    BY <1>0, <2>4
  <2>6. req' = [req EXCEPT ![w] = r] /\ e \in Emails \cup {None}
    BY <2>4, <2>3 DEF Out
  <2> HIDE DEF t, place
  <2>7. RequestOK(r, TokenIds', Known')
    <3>1. r \in Requests
      BY <1>0, <2>5, <2>6, RowTypes DEF NoRequest, Requests, Kinds, Places
    <3>2. /\ r.token = t /\ r.made = 0 /\ r.seen = {} /\ r.before = TokenIds /\ r.pc = place
          /\ r.kind = "logout"
      BY DEF NoRequest
    <3> HIDE DEF r
    <3>3. QED BY <1>0, <2>5, <3>1, <3>2 DEF RequestOK
  <2> HIDE DEF r
  <2>8. QED BY <2>6, <2>7, OneRequest
<1>6. CASE RevokeRead(w)
  <2>1. req[w].token # 0
    BY <1>0, <1>6 DEF RevokeRead, At, RequestOK
  <2>2. PICK place \in {"write", "sweepRead"} : req' = [req EXCEPT ![w] = [@ EXCEPT !.pc = place]]
    BY <1>6 DEF RevokeRead, Goto
  <2>3. QED BY <2>1, <2>2, RequestGoes DEF Places
<1>7. CASE RevokeAllRead(w)
  <2>1. CASE req[w].account = None
    BY <1>7, <2>1, RequestGoes DEF RevokeAllRead, Goto, Places
  <2>2. CASE req[w].account # None
    <3> DEFINE S == Unrevoked(req[w].account)
               r == [req[w] EXCEPT !.pc = "sweep", !.seen = S]
    <3>1. S \subseteq TokenIds /\ req[w].account \in Emails
      BY <1>0, <2>2 DEF Unrevoked, Requests
    <3>2. req' = [req EXCEPT ![w] = r]
      BY <1>7, <2>2 DEF RevokeAllRead, RequestsOK
    <3> HIDE DEF S
    <3>3. RequestOK(r, TokenIds', Known')
      BY <1>0, <3>1 DEF RequestOK, Requests, Places
    <3> HIDE DEF r
    <3>4. QED BY <3>2, <3>3, OneRequest
  <2>3. QED BY <2>1, <2>2
<1>8. CASE Respond(w) \/ LoseResponse(w)
  BY <1>8, RequestEnds DEF Respond, LoseResponse, Refuse
<1>9. QED
  BY <1>1, <1>2, <1>3, <1>4, <1>5, <1>6, <1>7, <1>8 DEF Session

LEMMA EditTypes ==
  ASSUME NEW row \in Rows, NEW s \in 0..MaxSecrets
  PROVE  /\ [row EXCEPT !.secret = s, !.totp = FALSE] \in Rows
         /\ [row EXCEPT !.secret = 0, !.totp = FALSE] \in Rows
         /\ [row EXCEPT !.totp = TRUE] \in Rows
         /\ [row EXCEPT !.password = TRUE] \in Rows
         /\ \A on \in BOOLEAN : [row EXCEPT !.active = on] \in Rows
         /\ \A roles \in SUBSET Roles : [row EXCEPT !.roles = roles] \in Rows
<1>1. 0 \in 0..MaxSecrets
  BY BoundsAssumption
<1>2. QED BY <1>1 DEF Rows

LEMMA EditRequests ==
  ASSUME RequestsOK, Grow, accounts \in [Emails -> Rows \cup {None}], secrets \in 0..MaxSecrets,
         NEW w \in Threads, Edit(w)
  PROVE  RequestsOK'
<1>0. /\ \A e : Exists(e) => e \in Emails /\ e \in Known' /\ accounts[e] \in Rows
      /\ MaxSecrets \in Nat /\ 0 \in Nat
  BY BoundsAssumption DEF Exists, Known, Grow
<1>1. ASSUME NEW b \in Browsers, NEW e, NEW new, Exists(e), new \in Rows, BeginEdit(w, b, e, new)
      PROVE  RequestsOK'
  <2> DEFINE old == accounts[e]
             r == [NoRequest EXCEPT !.kind = "edit", !.pc = "editWrite", !.browser = b, !.account = e,
                                    !.old = old, !.new = new]
  <2>1. e \in Emails /\ e \in Known' /\ old \in Rows
    BY <1>0, <1>1
  <2>2. req' = [req EXCEPT ![w] = r]
    BY <1>1 DEF BeginEdit, Begin
  <2> HIDE DEF old
  <2>3. RequestOK(r, TokenIds', Known')
    BY <1>0, <1>1, <2>1, RowTypes DEF NoRequest, RequestOK, Requests, Kinds, Places
  <2> HIDE DEF r
  <2>4. QED BY <2>2, <2>3, OneRequest
<1>2. CASE SetupTotp(w)
  <2>1. PICK b \in Browsers : /\ Exists(cookies[b].access) /\ secrets < MaxSecrets
                              /\ BeginEdit(w, b, cookies[b].access,
                                           [accounts[cookies[b].access] EXCEPT !.secret = secrets + 1,
                                                                              !.totp = FALSE])
    BY <1>2 DEF SetupTotp
  <2>2. [accounts[cookies[b].access] EXCEPT !.secret = secrets + 1, !.totp = FALSE] \in Rows
    <3>1. secrets + 1 \in 0..MaxSecrets
      BY <1>0, <2>1
    <3>2. QED BY <1>0, <2>1, <3>1, EditTypes
  <2>3. QED BY <1>1, <2>1, <2>2
<1>3. CASE EnableTotp(w) \/ DisableTotp(w) \/ LinkPassword(w) \/ SetActive(w) \/ SetRoles(w)
  <2>1. PICK b \in Browsers, e \in Emails, on \in BOOLEAN, roles \in SUBSET Roles :
          /\ Exists(e)
          /\ \/ BeginEdit(w, b, e, [accounts[e] EXCEPT !.totp = TRUE])
             \/ BeginEdit(w, b, e, [accounts[e] EXCEPT !.secret = 0, !.totp = FALSE])
             \/ BeginEdit(w, b, e, [accounts[e] EXCEPT !.password = TRUE])
             \/ BeginEdit(w, b, e, [accounts[e] EXCEPT !.active = on])
             \/ BeginEdit(w, b, e, [accounts[e] EXCEPT !.roles = roles])
    BY <1>0, <1>3 DEF EnableTotp, DisableTotp, LinkPassword, SetActive, SetRoles
  <2>2. /\ [accounts[e] EXCEPT !.totp = TRUE] \in Rows
        /\ [accounts[e] EXCEPT !.secret = 0, !.totp = FALSE] \in Rows
        /\ [accounts[e] EXCEPT !.password = TRUE] \in Rows
        /\ [accounts[e] EXCEPT !.active = on] \in Rows
        /\ [accounts[e] EXCEPT !.roles = roles] \in Rows
    BY <1>0, <2>1, EditTypes
  <2>3. QED BY <1>1, <2>1, <2>2
<1>4. CASE WriteEdit(w)
  BY <1>4, RequestEnds DEF WriteEdit, Refuse
<1>5. QED BY <1>2, <1>3, <1>4 DEF Edit

----------------------------------------------------------------------------
\* The types hold at the start and after every step.
LEMMA TypeInit ==
  ASSUME Init
  PROVE  TypeInv
<1>1. TokensTypeOK /\ TokenIds = {}
  BY BoundsAssumption DEF Init, InitTokens, TokensTypeOK, TokenIds
<1>2. Enrolled \in Rows /\ MaxSecrets \in Nat /\ 1 \in 0..MaxSecrets /\ 0 \in 0..MaxSecrets
  <2>1. MaxSecrets \in Nat /\ 1 \in 0..MaxSecrets /\ 0 \in 0..MaxSecrets
    BY BoundsAssumption
  <2>2. QED BY <2>1, RowTypes DEF Enrolled, Rows
<1>3. accounts \in [Emails -> Rows \cup {None}] /\ secrets \in {0, 1} /\ confirmed = 1..secrets
  BY <1>2, RowTypes DEF Init
<1>4. /\ founders \subseteq Emails /\ events = 0 /\ mixed = {} /\ stranded = {} /\ signedOut = {}
      /\ cookies = [b \in Browsers |-> NoCookies] /\ req = [w \in Threads |-> NoRequest]
  BY DEF Init
<1>5. HistoriesOK
  <2>1. secrets \in 0..MaxSecrets /\ confirmed \subseteq 1..MaxSecrets /\ events \in 0..MaxEvents
    BY <1>2, <1>3, <1>4, BoundsAssumption
  <2>2. QED BY <1>4, <2>1 DEF HistoriesOK
<1>6. cookies \in [Browsers -> [refresh : TokenIds \cup {0}, access : Emails \cup {None},
                                mfa : Emails \cup {None}]]
  BY <1>4 DEF NoCookies
<1>7. RequestsOK
  <2>1. RequestOK(NoRequest, TokenIds, Known)
    BY <1>1, NoRequestOK
  <2>2. QED BY <1>4, <2>1 DEF RequestsOK, RequestOK
<1>8. QED
  BY <1>1, <1>3, <1>5, <1>6, <1>7 DEF TypeInv, TypeOK, HistoriesOK, RequestsOK, RequestOK

LEMMA TypeStep ==
  ASSUME TypeInv, [Next]_vars
  PROVE  TypeInv'
<1>1. TokensTypeOK' /\ TokenIds \subseteq TokenIds'
  BY NextIsTokenStep, TokensOnlyGrow DEF TypeInv, TypeOK
<1>2. accounts' \in [Emails -> Rows \cup {None}] /\ Known \subseteq Known'
  BY AccountsStep
<1>3. HistoriesOK'
  BY <1>1, HistoriesStep
<1>4. cookies' \in [Browsers -> [refresh : TokenIds' \cup {0}, access : Emails \cup {None},
                                 mfa : Emails \cup {None}]]
  BY <1>1, CookiesStep
<1>5. RequestsOK'
  <2>1. /\ RequestsOK /\ Grow /\ TokensTypeOK
        /\ accounts \in [Emails -> Rows \cup {None}] /\ secrets \in 0..MaxSecrets
        /\ cookies \in [Browsers -> [refresh : TokenIds \cup {0}, access : Emails \cup {None},
                                     mfa : Emails \cup {None}]]
    BY <1>1, <1>2 DEF TypeInv, TypeOK, RequestsOK, Grow, TokenIds
  <2>2. CASE UNCHANGED req
    BY <2>1, <2>2, RequestGrows DEF RequestsOK, Grow
  <2>3. CASE TokenExpires \/ UNCHANGED vars
    BY <2>2, <2>3 DEF TokenExpires, vars
  <2>4. ASSUME NEW w \in Threads, SignIn(w) \/ Session(w) \/ Edit(w) PROVE RequestsOK'
    BY <2>1, <2>4, SignInRequests, SessionRequests, EditRequests
  <2>5. QED BY <2>3, <2>4 DEF Next
<1>6. QED
  BY <1>1, <1>2, <1>3, <1>4, <1>5 DEF TypeInv, TypeOK, HistoriesOK, RequestsOK, RequestOK

\* Every variable keeps its type, for any accounts, browsers, threads and bounds.
THEOREM TypeCorrect == Spec => []TypeOK
<1>1. Init => TypeInv
  BY TypeInit
<1>2. TypeInv /\ [Next]_vars => TypeInv'
  BY TypeStep
<1>3. TypeInv => TypeOK
  BY DEF TypeInv
<1>4. QED BY <1>1, <1>2, <1>3, PTL DEF Spec

----------------------------------------------------------------------------
(* The chain of replacements, at every time.                               *)

LEMMA InvInit ==
  ASSUME Init
  PROVE  TypeInv /\ TokenLineage
<1>1. TokenIds = {}
  BY DEF Init, InitTokens, TokenIds
<1>2. QED BY <1>1, TypeInit DEF TokenLineage

LEMMA InvStep ==
  ASSUME TypeInv, TokenLineage, [Next]_vars
  PROVE  TypeInv' /\ TokenLineage'
<1>1. TokensTypeOK
  BY DEF TypeInv, TypeOK
<1>2. QED BY <1>1, TypeStep, NextIsTokenStep, LineageStep

\* However requests overlap, a replaced token is revoked and points to a later
\* token of the same account, the newest of its rotations.
THEOREM LineageCorrect == Spec => []TokenLineage
<1>1. Init => TypeInv /\ TokenLineage
  BY InvInit
<1>2. TypeInv /\ TokenLineage /\ [Next]_vars => (TypeInv /\ TokenLineage)'
  BY InvStep
<1>3. QED BY <1>1, <1>2, PTL DEF Spec

\* A replacement is overwritten only by a newer one.
LEMMA ReplacementStep ==
  ASSUME TokensTypeOK, TokenLineage, TokenStep, NEW t \in TokenIds, tokens[t].replacedBy # 0
  PROVE  tokens'[t].replacedBy >= tokens[t].replacedBy
<1>0. /\ tokens[t] \in TokenRows /\ tokens[t].replacedBy \in Nat /\ tokens[t].replacedBy \in TokenIds
      /\ Len(tokens) \in Nat
  <2>1. tokens[t] \in TokenRows /\ Len(tokens) \in Nat
    BY DEF TokensTypeOK, TokenIds
  <2>2. QED BY <2>1 DEF TokenRows, TokenLineage
<1>1. ASSUME NEW e \in Emails, IssuePair(e) PROVE tokens'[t] = tokens[t]
  BY <1>1, IssueShape
<1>2. ASSUME NEW u \in TokenIds, Rotate(u) PROVE tokens'[t].replacedBy >= tokens[t].replacedBy
  <2>1. CASE t = u
    <3> DEFINE new == [tokens[t] EXCEPT !.revoked = TRUE, !.replacedBy = NextToken]
    <3>1. NextToken \in Nat /\ NextToken >= tokens[t].replacedBy
      BY <1>0 DEF NextToken, TokenIds
    <3>2. new.replacedBy = NextToken
      BY <1>0, <3>1, ReplacedRow
    <3> HIDE DEF new
    <3>3. tokens'[t] = new
      BY <1>2, <2>1, RotateShape DEF new
    <3>4. QED BY <3>1, <3>2, <3>3
  <2>2. CASE t # u
    <3>1. tokens'[t] = tokens[t]
      BY <1>2, <2>2, RotateShape
    <3>2. QED BY <1>0, <3>1
  <2>3. QED BY <2>1, <2>2
<1>3. ASSUME NEW S \in SUBSET TokenIds, Revoke(S) PROVE tokens'[t].replacedBy = tokens[t].replacedBy
  <2>1. CASE t \in S
    <3> DEFINE new == [tokens[t] EXCEPT !.revoked = TRUE]
    <3>1. new.replacedBy = tokens[t].replacedBy
      BY <1>0, RevokedRow
    <3> HIDE DEF new
    <3>2. tokens'[t] = new
      BY <1>3, <2>1, RevokeShape DEF new
    <3>3. QED BY <3>1, <3>2
  <2>2. CASE t \notin S
    BY <1>3, <2>2, RevokeShape
  <2>3. QED BY <2>1, <2>2
<1>4. ASSUME NEW u \in TokenIds, Expire(u) PROVE tokens'[t].replacedBy = tokens[t].replacedBy
  <2>1. CASE t = u
    <3> DEFINE new == [tokens[t] EXCEPT !.expired = TRUE]
    <3>1. new.replacedBy = tokens[t].replacedBy
      BY <1>0, ExpiredRow
    <3> HIDE DEF new
    <3>2. tokens'[t] = new
      BY <1>4, <2>1, ExpireShape DEF new
    <3>3. QED BY <3>1, <3>2
  <2>2. CASE t # u
    BY <1>4, <2>2, ExpireShape
  <2>3. QED BY <2>1, <2>2
<1>5. QED
  BY <1>0, <1>1, <1>2, <1>3, <1>4 DEF TokenStep

\* No step of any request makes a revoked token active again, moves a token to
\* another account, or sets a replacement back.
THEOREM RevocationCorrect == Spec => RevocationIsFinal
<1> DEFINE Final == /\ Len(tokens) <= Len(tokens')
                    /\ \A t \in TokenIds :
                         /\ tokens'[t].account = tokens[t].account
                         /\ tokens[t].revoked => tokens'[t].revoked
                         /\ tokens[t].replacedBy # 0 => tokens'[t].replacedBy >= tokens[t].replacedBy
<1>1. Init => TypeInv /\ TokenLineage
  BY InvInit
<1>2. TypeInv /\ TokenLineage /\ [Next]_vars => (TypeInv /\ TokenLineage)'
  BY InvStep
<1>3. ASSUME TypeInv, TokenLineage, [Next]_vars PROVE Final
  <2>1. TokensTypeOK /\ TokenStep
    BY <1>3, NextIsTokenStep DEF TypeInv, TypeOK
  <2>2. TokensTypeOK' /\ TokenIds \subseteq TokenIds'
    BY <2>1, TokensOnlyGrow
  <2>3. Len(tokens) <= Len(tokens')
    <3>1. Len(tokens) \in Nat /\ Len(tokens') \in Nat /\ TokenIds' = 1..Len(tokens')
      BY <2>1, <2>2 DEF TokensTypeOK, TokenIds
    <3>2. Len(tokens) # 0 => Len(tokens) \in TokenIds
      BY <3>1 DEF TokenIds
    <3>3. QED BY <2>2, <3>1, <3>2
  <2>4. QED BY <1>3, <2>1, <2>3, TokensOnlyGrow, ReplacementStep
<1>4. TypeInv /\ TokenLineage /\ [Next]_vars => [Final]_tokenVars
  BY <1>3
<1>5. Spec => [][Final]_tokenVars
  BY <1>1, <1>2, <1>4, PTL DEF Spec
<1>6. QED BY <1>5 DEF RevocationIsFinal

----------------------------------------------------------------------------
(* What requests know of each other: the places where one relies on what   *)
(* it read before.                                                         *)

\* A refresh that holds its token active, a sweep, a registration.
Relies(r) == r.pc \in {"sweep", "create"} \/ (r.kind = "refresh" /\ r.pc = "write")

\* These places are reached by the three reads alone.
LEMMA WhoRelies ==
  ASSUME TypeInv, [Next]_vars, NEW x \in Threads, Relies(req'[x])
  PROVE  req'[x] = req[x] \/ RotateRead(x) \/ RevokeAllRead(x) \/ CountAccounts(x)
<1> DEFINE Known3 == req'[x] = req[x] \/ RotateRead(x) \/ RevokeAllRead(x) \/ CountAccounts(x)
<1>0. req \in [Threads -> Requests]
  BY DEF TypeInv, TypeOK
<1>1. ASSUME NEW w \in Threads, NEW r, req' = [req EXCEPT ![w] = r], ~Relies(r) PROVE Known3
  BY <1>0, <1>1
<1>2. ~Relies(NoRequest)
  BY DEF Relies, NoRequest
<1>3. ASSUME NEW r \in Requests, NEW place \in Places \ {"sweep", "create", "write"}
      PROVE  ~Relies([r EXCEPT !.pc = place])
  BY DEF Relies, Requests
<1>4. ASSUME NEW w \in Threads, NEW place \in Places \ {"sweep", "create", "write"}, Goto(w, place)
      PROVE  Known3
  BY <1>0, <1>1, <1>3, <1>4 DEF Goto
<1>5. ASSUME NEW w \in Threads, req' = [req EXCEPT ![w] = NoRequest] PROVE Known3
  BY <1>1, <1>2, <1>5
<1>6. ASSUME NEW w \in Threads, SignIn(w) PROVE Known3
  <2>1. CASE Register(w)
    BY <1>1, <2>1 DEF Register, Begin, NoRequest, Relies
  <2>2. CASE CountAccounts(w)
    <3>1. CASE w = x
      BY <2>2, <3>1
    <3>2. CASE w # x
      BY <1>0, <2>2, <3>2 DEF CountAccounts, Refuse
    <3>3. QED BY <3>1, <3>2
  <2>3. CASE CreateAccount(w)
    BY <1>4, <1>5, <2>3 DEF CreateAccount, Refuse, Places
  <2>4. CASE Login(w)
    <3> DEFINE q(e, b) == [NoRequest EXCEPT !.kind = "login", !.browser = b, !.account = e]
    <3>1. PICK e \in Emails, b \in Browsers : PassGate(w, q(e, b), accounts[e])
      BY <2>4 DEF Login
    <3>2. PICK place \in {"respond", "issue"} : req' = [req EXCEPT ![w] = [q(e, b) EXCEPT !.pc = place]]
      BY <3>1 DEF PassGate
    <3> DEFINE r == [q(e, b) EXCEPT !.pc = place]
    <3>3. ~Relies(r)
      BY DEF NoRequest, Relies
    <3> HIDE DEF r, q
    <3>4. QED BY <1>1, <3>2, <3>3 DEF r
  <2>5. CASE VerifyMfa(w)
    BY <1>1, <2>5 DEF VerifyMfa, Begin, NoRequest, Relies
  <2>6. CASE GoogleLogin(w)
    <3> DEFINE q(b, sub) == [NoRequest EXCEPT !.kind = "google", !.browser = b, !.sub = sub]
               r1(b, sub, e) == [q(b, sub) EXCEPT !.pc = "googleEmail", !.account = e]
               r2(b, sub, e) == [q(b, sub) EXCEPT !.pc = "googleUpdate", !.account = e, !.old = accounts[e],
                                                  !.new = accounts[e]]
    <3>1. \E sub, b, e : Begin(w, r1(b, sub, e)) \/ Begin(w, r2(b, sub, e))
      BY <2>6 DEF GoogleLogin
    <3>2. \A sub, b, e : ~Relies(r1(b, sub, e)) /\ ~Relies(r2(b, sub, e))
      BY DEF NoRequest, Relies
    <3> HIDE DEF r1, r2
    <3>3. QED BY <1>1, <3>1, <3>2 DEF Begin
  <2>7. CASE GoogleByEmail(w)
    <3>1. ASSUME NEW old, NEW new,
                 req' = [req EXCEPT ![w] = [@ EXCEPT !.pc = "googleUpdate", !.old = old, !.new = new]]
          PROVE  Known3
      <4> DEFINE r == [req[w] EXCEPT !.pc = "googleUpdate", !.old = old, !.new = new]
      <4>1. req[w] \in Requests /\ r.pc = "googleUpdate"
        BY <1>0 DEF Requests
      <4>2. ~Relies(r) /\ req' = [req EXCEPT ![w] = r]
        BY <1>0, <3>1, <4>1 DEF Relies
      <4> HIDE DEF r
      <4>3. QED BY <1>1, <4>2
    <3>2. QED BY <1>4, <2>7, <3>1 DEF GoogleByEmail, Places
  <2>8. CASE GoogleUpdate(w)
    BY <1>4, <1>5, <2>8 DEF GoogleUpdate, Refuse, Places
  <2>9. CASE GoogleGate(w)
    <3>1. ASSUME NEW place \in {"respond", "issue"}, req' = [req EXCEPT ![w] = [req[w] EXCEPT !.pc = place]]
          PROVE  Known3
      BY <1>0, <1>1, <1>3, <3>1 DEF Places
    <3>2. QED BY <1>5, <2>9, <3>1 DEF GoogleGate, PassGate, Refuse
  <2>10. CASE IssueTokens(w)
    <3> DEFINE r == [req[w] EXCEPT !.pc = "respond", !.made = NextToken]
    <3>1. req[w] \in Requests /\ r.pc = "respond"
      BY <1>0 DEF Requests
    <3>2. ~Relies(r) /\ req' = [req EXCEPT ![w] = r]
      BY <1>0, <2>10, <3>1 DEF Relies, IssueTokens
    <3> HIDE DEF r
    <3>3. QED BY <1>1, <3>2
  <2>11. QED
    BY <1>6, <2>1, <2>2, <2>3, <2>4, <2>5, <2>6, <2>7, <2>8, <2>9, <2>10 DEF SignIn
<1>7. ASSUME NEW w \in Threads, Session(w) PROVE Known3
  <2>1. CASE RotateRead(w) \/ RevokeAllRead(w)
    <3>1. CASE w = x
      BY <2>1, <3>1
    <3>2. CASE w # x
      BY <1>0, <2>1, <3>2 DEF RotateRead, RevokeAllRead, Refuse, Goto
    <3>3. QED BY <3>1, <3>2
  <2>2. CASE Refresh(w) \/ Logout(w)
    <3> DEFINE q(b) == [NoRequest EXCEPT !.kind = "refresh", !.pc = "read", !.browser = b,
                                         !.token = cookies[b].refresh]
               p(b, e) == [NoRequest EXCEPT !.kind = "logout", !.browser = b, !.token = cookies[b].refresh,
                             !.account = e, !.before = TokenIds,
                             !.pc = IF cookies[b].refresh # 0 THEN "read" ELSE "sweepRead"]
    <3>1. \A b, e : ~Relies(q(b)) /\ ~Relies(p(b, e))
      BY DEF NoRequest, Relies
    <3>2. CASE Refresh(w)
      <4>1. \E b : Begin(w, q(b))
        BY <3>2 DEF Refresh
      <4> HIDE DEF q
      <4>2. QED BY <1>1, <3>1, <4>1 DEF Begin
    <3>3. CASE Logout(w)
      <4>1. \E b, e : Begin(w, p(b, e))
        BY <3>3 DEF Logout
      <4> HIDE DEF p
      <4>2. QED BY <1>1, <3>1, <4>1 DEF Begin
    <3>4. QED BY <2>2, <3>2, <3>3
  <2>3. CASE RotateCommit(w)
    <3> DEFINE e == tokens[req[w].token].account
               r == [req[w] EXCEPT !.pc = "gate", !.made = NextToken, !.account = e]
    <3>1. req[w] \in Requests /\ r.pc = "gate"
      BY <1>0 DEF Requests
    <3>2. ~Relies(r) /\ req' = [req EXCEPT ![w] = r]
      BY <1>0, <2>3, <3>1 DEF Relies, RotateCommit
    <3> HIDE DEF r
    <3>3. QED BY <1>1, <3>2
  <2>4. CASE RevokeRead(w)
    <3>1. CASE Goto(w, "write")
      <4>1. req[w] \in Requests /\ req[w].kind = "logout"
        BY <1>0, <2>4 DEF RevokeRead
      <4> DEFINE r == [req[w] EXCEPT !.pc = "write"]
      <4>2. r.pc = "write" /\ r.kind = "logout"
        BY <4>1 DEF Requests
      <4>3. ~Relies(r) /\ req' = [req EXCEPT ![w] = r]
        BY <1>0, <3>1, <4>2 DEF Relies, Goto
      <4> HIDE DEF r
      <4>4. QED BY <1>1, <4>3
    <3>2. CASE Goto(w, "sweepRead")
      BY <1>4, <3>2 DEF Places
    <3>3. QED BY <2>4, <3>1, <3>2 DEF RevokeRead
  <2>5. CASE RefreshGate(w) \/ RevokeCommit(w) \/ RevokeAllCommit(w)
    BY <1>4, <1>5, <2>5 DEF RefreshGate, RevokeCommit, RevokeAllCommit, Refuse, Places
  <2>6. CASE Respond(w) \/ LoseResponse(w)
    BY <1>5, <2>6 DEF Respond, LoseResponse, Refuse
  <2>7. QED BY <1>7, <2>1, <2>2, <2>3, <2>4, <2>5, <2>6 DEF Session
<1>8. ASSUME NEW w \in Threads, Edit(w) PROVE Known3
  <2>1. ASSUME NEW b, NEW e, NEW new, BeginEdit(w, b, e, new) PROVE Known3
    BY <1>1, <2>1 DEF BeginEdit, Begin, NoRequest, Relies
  <2>2. CASE WriteEdit(w)
    BY <1>5, <2>2 DEF WriteEdit, Refuse
  <2>3. CASE ~WriteEdit(w)
    BY <1>8, <2>1, <2>3 DEF Edit, SetupTotp, EnableTotp, DisableTotp, LinkPassword, SetActive, SetRoles
  <2>4. QED BY <2>2, <2>3
<1>9. CASE TokenExpires \/ UNCHANGED vars
  BY <1>9 DEF TokenExpires, vars
<1>10. QED
  BY <1>6, <1>7, <1>8, <1>9 DEF Next

\* A sweep has seen, or finds revoked, every token there was when its request began.
SweepInv ==
  /\ SignedOutStaysOut
  /\ \A w \in Threads : req[w].pc = "sweep" =>
       \A t \in req[w].before : tokens[t].account = req[w].account => tokens[t].revoked \/ t \in req[w].seen

LEMMA SweepStep ==
  ASSUME TypeInv, TypeInv', SweepInv, [Next]_vars
  PROVE  SweepInv'
<1>1. /\ TokensTypeOK /\ TokenStep /\ signedOut \subseteq TokenIds
      /\ \A w \in Threads : req[w].before \subseteq TokenIds
      /\ req \in [Threads -> Requests]
  BY NextIsTokenStep DEF TypeInv, TypeOK
<1>2. /\ \A t \in TokenIds : tokens'[t].account = tokens[t].account
      /\ \A t \in TokenIds : tokens[t].revoked => tokens'[t].revoked
  BY <1>1, TokensOnlyGrow
<1>3. ASSUME NEW w \in Threads, req'[w].pc = "sweep", NEW t \in req'[w].before,
             tokens'[t].account = req'[w].account
      PROVE  tokens'[t].revoked \/ t \in req'[w].seen
  <2>1. CASE req'[w] = req[w]
    BY <1>1, <1>2, <1>3, <2>1 DEF SweepInv
  <2>2. CASE RevokeAllRead(w)
    <3> DEFINE S == Unrevoked(req[w].account)
               r == [req[w] EXCEPT !.pc = "sweep", !.seen = S]
               q == [req[w] EXCEPT !.pc = "respond"]
    <3>1. req[w] \in Requests
      BY <1>1
    <3>2. /\ r.before = req[w].before /\ r.seen = S /\ r.account = req[w].account
          /\ q.pc = "respond"
      BY <3>1 DEF Requests
    <3>3. req'[w] = r \/ req'[w] = q
      BY <1>1, <2>2 DEF RevokeAllRead, Goto
    <3> HIDE DEF r, q
    <3>4. req'[w] = r
      BY <1>3, <3>2, <3>3
    <3>5. t \in TokenIds /\ tokens[t].account = req[w].account
      BY <1>1, <1>2, <1>3, <3>2, <3>4
    <3>6. QED BY <1>2, <3>2, <3>4, <3>5 DEF Unrevoked
  <2>3. CASE RotateRead(w)
    <3>1. req[w].pc = "read"
      BY <2>3 DEF RotateRead, At
    <3> DEFINE q == [req[w] EXCEPT !.pc = "write"]
    <3>2. q.pc = "write" /\ NoRequest.pc = "idle"
      BY <1>1 DEF Requests, NoRequest
    <3>3. req'[w] = q \/ req'[w] = NoRequest
      BY <1>1, <2>3 DEF RotateRead, Goto, Refuse
    <3> HIDE DEF q
    <3>4. QED BY <1>3, <3>2, <3>3
  <2>4. CASE CountAccounts(w)
    <3> DEFINE first == \A x \in Emails : ~Exists(x)
               q == [req[w] EXCEPT !.pc = "create", !.first = first]
    <3>2. q.pc = "create" /\ NoRequest.pc = "idle"
      BY <1>1 DEF Requests, NoRequest
    <3>3. req'[w] = q \/ req'[w] = NoRequest
      BY <1>1, <2>4 DEF CountAccounts, Refuse
    <3> HIDE DEF q
    <3>4. QED BY <1>3, <3>2, <3>3
  <2>5. QED BY <1>3, <2>1, <2>2, <2>3, <2>4, WhoRelies DEF Relies
<1>4. ASSUME NEW t \in signedOut' PROVE tokens'[t].revoked
  <2>1. CASE t \in signedOut
    BY <1>1, <1>2, <2>1 DEF SweepInv, SignedOutStaysOut
  <2>2. CASE t \notin signedOut
    <3>1. PICK w \in Threads : RevokeAllCommit(w)
      <4>1. signedOut' # signedOut
        BY <1>4, <2>2
      <4>2. ASSUME NEW w \in Threads, SignIn(w) \/ Edit(w) PROVE UNCHANGED signedOut
        <5>1. CASE SignIn(w)
          BY <5>1 DEF SignIn, Register, CountAccounts, CreateAccount, Login, VerifyMfa, GoogleLogin,
                      GoogleByEmail, GoogleUpdate, GoogleGate, IssueTokens, clientVars
        <5>2. CASE Edit(w)
          BY <5>2 DEF Edit, SetupTotp, EnableTotp, DisableTotp, LinkPassword, SetActive, SetRoles,
                      WriteEdit, BeginEdit, clientVars
        <5>3. QED BY <4>2, <5>1, <5>2
      <4>3. ASSUME NEW w \in Threads, Session(w), ~RevokeAllCommit(w) PROVE UNCHANGED signedOut
        BY <4>3 DEF Session, Refresh, RotateRead, RotateCommit, RefreshGate, Logout, RevokeRead,
                    RevokeCommit, RevokeAllRead, Respond, LoseResponse, clientVars
      <4>4. TokenExpires \/ UNCHANGED vars => UNCHANGED signedOut
        BY DEF TokenExpires, vars, clientVars
      <4>5. QED BY <4>1, <4>2, <4>3, <4>4 DEF Next
    <3>2. /\ req[w].pc = "sweep" /\ Revoke(req[w].seen)
          /\ t \in req[w].before /\ tokens[t].account = req[w].account
      BY <1>4, <2>2, <3>1 DEF RevokeAllCommit, At
    <3>3. t \in TokenIds /\ (tokens[t].revoked \/ t \in req[w].seen)
      BY <1>1, <3>2 DEF SweepInv
    <3>4. CASE tokens[t].revoked
      BY <1>2, <3>3, <3>4
    <3>5. CASE t \in req[w].seen
      <4> DEFINE new == [tokens[t] EXCEPT !.revoked = TRUE]
      <4>1. new.revoked
        <5>1. tokens[t] \in TokenRows
          BY <1>1, <3>3 DEF TokensTypeOK, TokenIds
        <5>2. QED BY <5>1, RevokedRow
      <4> HIDE DEF new
      <4>2. req[w].seen \in SUBSET TokenIds
        BY DEF TypeInv, TypeOK
      <4>3. tokens'[t] = new
        BY <1>1, <3>2, <3>3, <3>5, <4>2, RevokeShape DEF new
      <4>4. QED BY <4>1, <4>3
    <3>6. QED BY <3>3, <3>4, <3>5
  <2>3. QED BY <2>1, <2>2
<1>5. QED BY <1>3, <1>4 DEF SweepInv, SignedOutStaysOut

\* Once a logout with a valid access token has ended, no token the account had
\* when it began is ever active again.
THEOREM SignOutCorrect == Spec => []SignedOutStaysOut
<1>1. Init => TypeInv /\ SweepInv
  <2>1. Init => TypeInv
    BY TypeInit
  <2>2. Init => SweepInv
    BY DEF Init, SweepInv, SignedOutStaysOut, NoRequest
  <2>3. QED BY <2>1, <2>2
<1>2. TypeInv /\ SweepInv /\ [Next]_vars => (TypeInv /\ SweepInv)'
  BY TypeStep, SweepStep
<1>3. SweepInv => SignedOutStaysOut
  BY DEF SweepInv
<1>4. QED BY <1>1, <1>2, <1>3, PTL DEF Spec

----------------------------------------------------------------------------
(* Two rotations of one token.                                             *)

\* Of two requests that hold a token active one read it while the other held
\* it, and so did one that holds a token another has rotated already.
ForkInv ==
  /\ ForksNeedOverlap
  /\ \A w, x \in Threads : \A t \in TokenIds : w # x /\ Holds(w, t) /\ Holds(x, t) => t \in raced
  /\ \A w \in Threads : \A t, u \in TokenIds : Holds(w, t) /\ parent[u] = t => t \in raced

\* Only its read makes a request a holder of its token.
LEMMA WhoHolds ==
  ASSUME TypeInv, [Next]_vars, NEW x \in Threads, NEW t, Holds(x, t)'
  PROVE  Holds(x, t) \/ (RotateRead(x) /\ req[x].token = t /\ Active(t) /\ UNCHANGED <<tokens, parent>>
                        /\ raced' = IF \E y \in Threads \ {x} : Holds(y, t) THEN raced \cup {t} ELSE raced)
<1>0. req \in [Threads -> Requests]
  BY DEF TypeInv, TypeOK
<1>1. req'[x].kind = "refresh" /\ req'[x].pc = "write" /\ req'[x].token = t
  BY DEF Holds
<1>2. CASE req'[x] = req[x]
  BY <1>1, <1>2 DEF Holds
<1>3. CASE RotateRead(x)
  <2> DEFINE q == [req[x] EXCEPT !.pc = "write"]
  <2>1. q.token = req[x].token /\ NoRequest.pc = "idle"
    BY <1>0 DEF Requests, NoRequest
  <2>2. IF Active(req[x].token) THEN req'[x] = q ELSE req'[x] = NoRequest
    BY <1>0, <1>3 DEF RotateRead, Goto, Refuse
  <2> HIDE DEF q
  <2>3. Active(req[x].token) /\ req[x].token = t
    BY <1>1, <2>1, <2>2
  <2>4. QED BY <1>3, <2>3 DEF RotateRead
<1>4. CASE RevokeAllRead(x)
  <2> DEFINE S == Unrevoked(req[x].account)
             r == [req[x] EXCEPT !.pc = "sweep", !.seen = S]
             q == [req[x] EXCEPT !.pc = "respond"]
  <2>1. r.pc = "sweep" /\ q.pc = "respond"
    BY <1>0 DEF Requests
  <2>2. req'[x] = r \/ req'[x] = q
    BY <1>0, <1>4 DEF RevokeAllRead, Goto
  <2> HIDE DEF r, q
  <2>3. QED BY <1>1, <2>1, <2>2
<1>5. CASE CountAccounts(x)
  <2> DEFINE first == \A y \in Emails : ~Exists(y)
             q == [req[x] EXCEPT !.pc = "create", !.first = first]
  <2>1. q.pc = "create" /\ NoRequest.pc = "idle"
    BY <1>0 DEF Requests, NoRequest
  <2>2. req'[x] = q \/ req'[x] = NoRequest
    BY <1>0, <1>5 DEF CountAccounts, Refuse
  <2> HIDE DEF q
  <2>3. QED BY <1>1, <2>1, <2>2
<1>6. QED
  <2>1. Relies(req'[x])
    BY <1>1 DEF Relies
  <2>2. QED BY <1>2, <1>3, <1>4, <1>5, <2>1, WhoRelies

\* The only step that rotates is the commit of a request that holds the token.
LEMMA WhoRotates ==
  ASSUME TypeInv, [Next]_vars, Len(parent') # Len(parent)
  PROVE  \/ \E e \in Emails : IssuePair(e)
         \/ \E w \in Threads : Holds(w, req[w].token) /\ req[w].token \in TokenIds /\ Rotate(req[w].token)
                              /\ req' = [req EXCEPT ![w] = req'[w]] /\ req'[w].pc = "gate"
<1>0. /\ req \in [Threads -> Requests]
      /\ \A w \in Threads : RequestOK(req[w], TokenIds, Known)
  BY DEF TypeInv, TypeOK
<1>1. parent' # parent
  OBVIOUS
<1>2. ASSUME NEW w \in Threads, SignIn(w) PROVE \E e \in Emails : IssuePair(e)
  <2>1. IssueTokens(w)
    BY <1>1, <1>2 DEF SignIn, Register, CountAccounts, CreateAccount, Login, VerifyMfa, GoogleLogin,
                      GoogleByEmail, GoogleUpdate, GoogleGate, tokenVars
  <2>2. QED BY <1>0, <2>1 DEF IssueTokens, At, RequestOK
<1>3. ASSUME NEW w \in Threads, Session(w)
      PROVE  /\ Holds(w, req[w].token) /\ req[w].token \in TokenIds /\ Rotate(req[w].token)
             /\ req' = [req EXCEPT ![w] = req'[w]] /\ req'[w].pc = "gate"
  <2>1. RotateCommit(w)
    BY <1>1, <1>3 DEF Session, Refresh, RotateRead, RefreshGate, Logout, RevokeRead, RevokeCommit,
                      RevokeAllRead, RevokeAllCommit, Respond, LoseResponse, Revoke, tokenVars
  <2>2. Holds(w, req[w].token) /\ Rotate(req[w].token)
    BY <2>1 DEF RotateCommit, Holds, At
  <2>3. req[w].token \in TokenIds
    BY <1>0, <2>1 DEF RotateCommit, At, RequestOK
  <2> DEFINE e == tokens[req[w].token].account
             r == [req[w] EXCEPT !.pc = "gate", !.made = NextToken, !.account = e]
  <2>4. req' = [req EXCEPT ![w] = r] /\ r.pc = "gate"
    BY <1>0, <2>1 DEF RotateCommit, Requests
  <2> HIDE DEF r
  <2>5. req'[w] = r
    BY <1>0, <2>4
  <2>6. QED BY <2>2, <2>3, <2>4, <2>5
<1>4. ASSUME NEW w \in Threads, Edit(w) PROVE FALSE
  BY <1>1, <1>4 DEF Edit, SetupTotp, EnableTotp, DisableTotp, LinkPassword, SetActive, SetRoles, WriteEdit,
                    BeginEdit, tokenVars
<1>5. ~(TokenExpires \/ UNCHANGED vars)
  BY <1>1 DEF TokenExpires, Expire, vars, tokenVars
<1>6. QED BY <1>2, <1>3, <1>4, <1>5 DEF Next

LEMMA ForkStep ==
  ASSUME TypeInv, TypeInv', TokenLineage, ForkInv, [Next]_vars
  PROVE  ForkInv'
<1>0. /\ TokensTypeOK /\ TokensTypeOK' /\ TokenStep /\ TokenIds \subseteq TokenIds' /\ raced \subseteq raced'
      /\ Len(parent) \in Nat /\ TokenIds = 1..Len(parent)
  <2>1. TokensTypeOK /\ TokensTypeOK' /\ TokenStep
    BY NextIsTokenStep DEF TypeInv, TypeOK
  <2>2. QED BY <2>1, TokensOnlyGrow DEF TokensTypeOK, TokenIds
<1>1. \A t \in TokenIds : parent'[t] = parent[t] /\ t # 0
  BY <1>0, TokensOnlyGrow
\* A token that is read as active has no rotation yet.
<1>2. ASSUME NEW t \in TokenIds, Active(t), NEW u \in TokenIds, parent[u] = t PROVE FALSE
  BY <1>1, <1>2 DEF TokenLineage, Active
\* The holders of a token and its rotations, when no token is rotated.
<1>3. ASSUME NEW x \in Threads, NEW t \in TokenIds', Holds(x, t)' PROVE t \in TokenIds
  <2>1. CASE Holds(x, t)
    <3>1. RequestOK(req[x], TokenIds, Known)
      BY DEF TypeInv
    <3>2. QED BY <2>1, <3>1 DEF Holds, RequestOK
  <2>2. CASE Active(t)
    BY <2>2 DEF Active
  <2>3. QED BY <1>3, <2>1, <2>2, WhoHolds
<1>4. ASSUME NEW w \in Threads, NEW x \in Threads, NEW t \in TokenIds', w # x, Holds(w, t)', Holds(x, t)'
      PROVE  t \in raced'
  <2>1. t \in TokenIds
    BY <1>3, <1>4
  <2>2. CASE Holds(w, t) /\ Holds(x, t)
    BY <1>0, <1>4, <2>1, <2>2 DEF ForkInv
  <2>3. CASE Holds(w, t) /\ ~Holds(x, t)
    BY <1>4, <2>3, WhoHolds
  <2>4. CASE Holds(x, t) /\ ~Holds(w, t)
    BY <1>4, <2>4, WhoHolds
  <2>5. CASE ~Holds(w, t) /\ ~Holds(x, t)
    <3>1. RotateRead(w) /\ RotateRead(x)
      BY <1>4, <2>5, WhoHolds
    <3>2. req[x].pc = "read" /\ req'[x] = req[x]
      BY <1>4, <3>1 DEF RotateRead, At, Refuse, Goto, TypeInv, TypeOK
    <3>3. QED BY <1>4, <3>2 DEF Holds
  <2>6. QED BY <2>2, <2>3, <2>4, <2>5
<1>5. CASE Len(parent') = Len(parent)
  <2>1. TokenIds' = TokenIds
    BY <1>0, <1>5 DEF TokensTypeOK, TokenIds
  <2>2. ForksNeedOverlap'
    BY <1>0, <1>1, <2>1 DEF ForkInv, ForksNeedOverlap
  <2>3. ASSUME NEW w \in Threads, NEW t \in TokenIds, NEW u \in TokenIds, Holds(w, t)', parent'[u] = t
        PROVE  t \in raced'
    <3>1. parent[u] = t
      BY <1>1, <2>3
    <3>2. Holds(w, t)
      BY <1>2, <2>3, <3>1, WhoHolds
    <3>3. QED BY <1>0, <2>3, <3>1, <3>2 DEF ForkInv
  <2>4. QED BY <1>4, <2>1, <2>2, <2>3 DEF ForkInv
<1>6. ASSUME NEW e \in Emails, IssuePair(e) PROVE ForkInv'
  <2>1. TokenIds' = TokenIds \cup {NextToken} /\ parent'[NextToken] = 0 /\ UNCHANGED raced
    BY <1>0, <1>6, IssueShape DEF IssuePair
  <2>2. ForksNeedOverlap'
    BY <1>1, <2>1 DEF ForkInv, ForksNeedOverlap
  <2>3. ASSUME NEW w \in Threads, NEW t \in TokenIds', NEW u \in TokenIds', Holds(w, t)', parent'[u] = t
        PROVE  t \in raced'
    <3>1. t \in TokenIds /\ u \in TokenIds /\ parent[u] = t
      BY <1>1, <1>3, <2>1, <2>3
    <3>2. Holds(w, t)
      BY <1>2, <2>3, <3>1, WhoHolds
    <3>3. QED BY <1>0, <2>3, <3>1, <3>2 DEF ForkInv
  <2>4. QED BY <1>4, <2>2, <2>3 DEF ForkInv
<1>7. ASSUME NEW w \in Threads, Holds(w, req[w].token), req[w].token \in TokenIds, Rotate(req[w].token),
             req' = [req EXCEPT ![w] = req'[w]], req'[w].pc = "gate"
      PROVE  ForkInv'
  <2> DEFINE o == req[w].token
  <2>1. TokenIds' = TokenIds \cup {NextToken} /\ parent'[NextToken] = o /\ UNCHANGED raced
    BY <1>0, <1>7, RotateShape DEF Rotate
  <2>2. Holds(w, o) /\ o \in TokenIds
    BY <1>7
  <2>3. \A t, u \in TokenIds : t # u /\ parent[t] = parent[u] /\ parent[t] # 0 => parent[t] \in raced
    BY DEF ForkInv, ForksNeedOverlap
  <2>4. \A u \in TokenIds : parent[u] = o => o \in raced
    BY <2>2 DEF ForkInv
  <2> HIDE DEF o
  <2>5. ForksNeedOverlap'
    BY <1>1, <2>1, <2>3, <2>4 DEF ForksNeedOverlap
  <2>6. ASSUME NEW x \in Threads, NEW t \in TokenIds', NEW u \in TokenIds', Holds(x, t)', parent'[u] = t
        PROVE  t \in raced'
    <3>1. t \in TokenIds
      BY <1>3, <2>6
    <3>2. x # w
      BY <1>7, <2>6 DEF Holds
    <3>3. req'[x] = req[x]
      BY <1>7, <3>2 DEF TypeInv, TypeOK
    <3>4. Holds(x, t)
      BY <2>6, <3>3 DEF Holds
    <3>5. CASE u \in TokenIds
      BY <1>1, <2>1, <2>6, <3>1, <3>4, <3>5 DEF ForkInv
    <3>6. CASE u = NextToken
      <4>1. t = o
        BY <2>1, <2>6, <3>6
      <4>2. QED BY <2>1, <2>2, <3>1, <3>2, <3>4, <4>1 DEF ForkInv
    <3>7. QED BY <2>1, <2>6, <3>5, <3>6
  <2>7. QED BY <1>4, <2>5, <2>6 DEF ForkInv
<1>8. QED
  BY <1>5, <1>6, <1>7, WhoRotates

\* A session is split in two only by two requests that held its token active at once.
THEOREM ForksCorrect == Spec => []ForksNeedOverlap
<1> DEFINE I == TypeInv /\ TokenLineage /\ ForkInv
<1>1. Init => I
  <2>1. Init => TypeInv /\ TokenLineage
    BY InvInit
  <2>2. ASSUME Init PROVE ForkInv
    <3>1. TokenIds = {}
      BY <2>2 DEF Init, InitTokens, TokenIds
    <3>2. QED BY <3>1 DEF ForkInv, ForksNeedOverlap
  <2>3. QED BY <2>1, <2>2
<1>2. I /\ [Next]_vars => I'
  BY InvStep, ForkStep
<1>3. I => ForksNeedOverlap
  BY DEF ForkInv
<1>4. QED BY <1>1, <1>2, <1>3, PTL DEF Spec

----------------------------------------------------------------------------
(* The first administrator.                                                *)

\* A registration that was not the first knows that an account exists.
FirstInv ==
  /\ BootstrapAdmin
  /\ \A w \in Threads : req[w].pc = "create" /\ ~req[w].first => Known # {}

\* An account is created by a registration or a Google sign-in that counted before.
LEMMA WhoCreates ==
  ASSUME TypeInv, FirstInv, [Next]_vars
  PROVE  /\ founders \subseteq founders'
         /\ Known' # {} => Known # {} \/ founders' # {}
<1> DEFINE Goal == founders \subseteq founders' /\ (Known' # {} => Known # {} \/ founders' # {})
<1>0. /\ accounts \in [Emails -> Rows \cup {None}]
      /\ \A w \in Threads : RequestOK(req[w], TokenIds, Known)
  BY DEF TypeInv, TypeOK
<1>1. ASSUME UNCHANGED <<accounts, founders>> PROVE Goal
  BY <1>1 DEF Known
<1>2. ASSUME NEW w \in Threads, At(w, "googleUpdate") \/ At(w, "editWrite"), UNCHANGED founders PROVE Goal
  BY <1>0, <1>2 DEF At, RequestOK
<1>3. ASSUME NEW w \in Threads, SignIn(w) PROVE Goal
  <2>1. CASE CreateAccount(w)
    <3>1. CASE req[w].first
      <4>1. "admin" \in NewAccount(w).roles
        BY <3>1 DEF NewAccount, RoleFor
      <4>2. UNCHANGED <<accounts, founders>> \/ founders' = founders \cup {req[w].account}
        BY <2>1, <4>1 DEF CreateAccount, accountVars
      <4>3. QED BY <1>1, <4>2
    <3>2. CASE ~req[w].first
      <4>1. Known # {}
        BY <2>1, <3>2 DEF CreateAccount, At, FirstInv
      <4>2. founders \subseteq founders'
        BY <2>1 DEF CreateAccount, accountVars
      <4>3. QED BY <4>1, <4>2
    <3>3. QED BY <3>1, <3>2
  <2>2. CASE GoogleUpdate(w)
    BY <1>2, <2>2 DEF GoogleUpdate
  <2>3. CASE ~CreateAccount(w) /\ ~GoogleUpdate(w)
    <3>1. UNCHANGED <<accounts, founders>>
      BY <1>3, <2>3 DEF SignIn, Register, CountAccounts, Login, VerifyMfa, GoogleLogin, GoogleByEmail,
                        GoogleGate, IssueTokens, accountVars
    <3>2. QED BY <1>1, <3>1
  <2>4. QED BY <2>1, <2>2, <2>3
<1>4. ASSUME NEW w \in Threads, Session(w) PROVE Goal
  <2>1. UNCHANGED <<accounts, founders>>
    BY <1>4 DEF Session, Refresh, RotateRead, RotateCommit, RefreshGate, Logout, RevokeRead, RevokeCommit,
                RevokeAllRead, RevokeAllCommit, Respond, LoseResponse, accountVars
  <2>2. QED BY <1>1, <2>1
<1>5. ASSUME NEW w \in Threads, Edit(w) PROVE Goal
  <2>1. CASE WriteEdit(w)
    BY <1>2, <2>1 DEF WriteEdit
  <2>2. CASE ~WriteEdit(w)
    <3>1. UNCHANGED <<accounts, founders>>
      BY <1>5, <2>2 DEF Edit, SetupTotp, EnableTotp, DisableTotp, LinkPassword, SetActive, SetRoles, BeginEdit
    <3>2. QED BY <1>1, <3>1
  <2>3. QED BY <2>1, <2>2
<1>6. CASE TokenExpires \/ UNCHANGED vars
  BY <1>1, <1>6 DEF TokenExpires, vars, accountVars
<1>7. QED BY <1>3, <1>4, <1>5, <1>6 DEF Next

LEMMA FirstStep ==
  ASSUME TypeInv, FirstInv, [Next]_vars
  PROVE  FirstInv'
<1>0. Known \subseteq Known' /\ req \in [Threads -> Requests]
  BY AccountsStep DEF TypeInv, TypeOK
<1>1. BootstrapAdmin'
  <2>1. BootstrapAdmin <=> (Known # {} => founders # {})
    BY DEF BootstrapAdmin, Exists, Known
  <2>2. BootstrapAdmin' <=> (Known' # {} => founders' # {})
    BY DEF BootstrapAdmin, Exists, Known
  <2>3. QED BY <2>1, <2>2, WhoCreates DEF FirstInv
<1>2. ASSUME NEW w \in Threads, req'[w].pc = "create", ~req'[w].first PROVE Known' # {}
  <2>1. CASE req'[w] = req[w]
    BY <1>0, <1>2, <2>1 DEF FirstInv
  <2>2. CASE CountAccounts(w)
    <3> DEFINE first == \A x \in Emails : ~Exists(x)
               q == [req[w] EXCEPT !.pc = "create", !.first = first]
    <3>1. q.first = first /\ NoRequest.pc = "idle"
      BY <1>0 DEF Requests, NoRequest
    <3>2. req'[w] = q \/ req'[w] = NoRequest
      BY <1>0, <2>2 DEF CountAccounts, Refuse
    <3>3. ~first => Known # {}
      BY DEF Exists, Known
    <3> HIDE DEF q, first
    <3>4. QED BY <1>0, <1>2, <3>1, <3>2, <3>3
  <2>3. CASE RotateRead(w)
    <3> DEFINE q == [req[w] EXCEPT !.pc = "write"]
    <3>1. q.pc = "write" /\ NoRequest.pc = "idle"
      BY <1>0 DEF Requests, NoRequest
    <3>2. req'[w] = q \/ req'[w] = NoRequest
      BY <1>0, <2>3 DEF RotateRead, Goto, Refuse
    <3> HIDE DEF q
    <3>3. QED BY <1>2, <3>1, <3>2
  <2>4. CASE RevokeAllRead(w)
    <3> DEFINE S == Unrevoked(req[w].account)
               r == [req[w] EXCEPT !.pc = "sweep", !.seen = S]
               q == [req[w] EXCEPT !.pc = "respond"]
    <3>1. r.pc = "sweep" /\ q.pc = "respond"
      BY <1>0 DEF Requests
    <3>2. req'[w] = r \/ req'[w] = q
      BY <1>0, <2>4 DEF RevokeAllRead, Goto
    <3> HIDE DEF r, q
    <3>3. QED BY <1>2, <3>1, <3>2
  <2>5. QED
    <3>1. Relies(req'[w])
      BY <1>2 DEF Relies
    <3>2. QED BY <2>1, <2>2, <2>3, <2>4, <3>1, WhoRelies
<1>3. QED BY <1>1, <1>2 DEF FirstInv

\* Whatever registrations overlap, an installation with accounts was given an
\* administrator.
THEOREM BootstrapCorrect == Spec => []BootstrapAdmin
<1>1. Init => TypeInv /\ FirstInv
  <2>1. Init => TypeInv
    BY TypeInit
  <2>2. ASSUME Init PROVE BootstrapAdmin
    BY <2>2 DEF Init, BootstrapAdmin, Exists
  <2>3. ASSUME Init, NEW w \in Threads PROVE req[w].pc = "idle"
    BY <2>3 DEF Init, NoRequest
  <2>4. QED BY <2>1, <2>2, <2>3 DEF FirstInv
<1>2. TypeInv /\ FirstInv /\ [Next]_vars => (TypeInv /\ FirstInv)'
  BY TypeStep, FirstStep
<1>3. FirstInv => BootstrapAdmin
  BY DEF FirstInv
<1>4. QED BY <1>1, <1>2, <1>3, PTL DEF Spec

----------------------------------------------------------------------------
(* How a request goes on.                                                  *)

\* The request r is what q becomes at another place.
Follows(r, q) == /\ r.kind = q.kind /\ r.browser = q.browser /\ r.token = q.token
                 /\ r.made = q.made /\ r.account = q.account
\* The request of thread w ends or goes on at one of the places.
MovesTo(w, places) ==
  \E r : /\ req' = [req EXCEPT ![w] = r]
         /\ r = NoRequest \/ (Follows(r, req[w]) /\ r.pc \in places)
\* Thread w takes up a request, with the refresh cookie of its browser or with none.
Begins(w, kind, places) ==
  \E r : /\ req' = [req EXCEPT ![w] = r]
         /\ r.kind = kind /\ r.pc \in places /\ r.made = 0
         /\ r.token = 0 \/ (r.browser \in Browsers /\ r.token = cookies[r.browser].refresh)

LEMMA RefuseMoves ==
  ASSUME NEW w, Refuse(w), NEW places
  PROVE  MovesTo(w, places)
BY DEF Refuse, MovesTo

LEMMA EndMoves ==
  ASSUME NEW w, req' = [req EXCEPT ![w] = NoRequest], NEW places
  PROVE  MovesTo(w, places)
BY DEF MovesTo

LEMMA PlaceMoves ==
  ASSUME TypeInv, NEW w \in Threads, NEW places, NEW place \in places,
         req' = [req EXCEPT ![w] = [req[w] EXCEPT !.pc = place]]
  PROVE  MovesTo(w, places)
<1> DEFINE r == [req[w] EXCEPT !.pc = place]
<1>1. req[w] \in Requests
  BY DEF TypeInv, TypeOK
<1>2. Follows(r, req[w]) /\ r.pc = place
  BY <1>1 DEF Follows, Requests
<1>3. req' = [req EXCEPT ![w] = r]
  OBVIOUS
<1> HIDE DEF r
<1>4. QED BY <1>2, <1>3 DEF MovesTo

LEMMA GotoMoves ==
  ASSUME TypeInv, NEW w \in Threads, NEW places, NEW place \in places, Goto(w, place)
  PROVE  MovesTo(w, places)
<1>1. req' = [req EXCEPT ![w] = [req[w] EXCEPT !.pc = place]]
  BY DEF Goto
<1>2. QED BY <1>1, PlaceMoves

LEMMA SignInMoves ==
  ASSUME TypeInv, NEW w \in Threads
  PROVE  /\ CountAccounts(w) => MovesTo(w, {"create"})
         /\ CreateAccount(w) => MovesTo(w, {"googleGate"})
         /\ GoogleUpdate(w) => MovesTo(w, {"googleGate"})
         /\ GoogleGate(w) => MovesTo(w, {"respond", "issue"})
         /\ GoogleByEmail(w) => MovesTo(w, {"googleUpdate", "first"})
         /\ WriteEdit(w) => MovesTo(w, {})
<1>0. req[w] \in Requests
  BY DEF TypeInv, TypeOK
<1>1. ASSUME CountAccounts(w) PROVE MovesTo(w, {"create"})
  <2>1. ASSUME NEW first, req' = [req EXCEPT ![w] = [req[w] EXCEPT !.pc = "create", !.first = first]]
        PROVE  MovesTo(w, {"create"})
    <3> DEFINE r == [req[w] EXCEPT !.pc = "create", !.first = first]
    <3>1. Follows(r, req[w]) /\ r.pc = "create"
      BY <1>0 DEF Follows, Requests
    <3>2. req' = [req EXCEPT ![w] = r]
      BY <2>1
    <3> HIDE DEF r
    <3>3. QED BY <3>1, <3>2 DEF MovesTo
  <2>2. QED BY <1>1, <2>1, RefuseMoves DEF CountAccounts
<1>2. ASSUME CreateAccount(w) PROVE MovesTo(w, {"googleGate"})
  BY <1>2, RefuseMoves, GotoMoves DEF CreateAccount
<1>3. ASSUME GoogleUpdate(w) PROVE MovesTo(w, {"googleGate"})
  BY <1>3, RefuseMoves, GotoMoves DEF GoogleUpdate
<1>4. ASSUME GoogleGate(w) PROVE MovesTo(w, {"respond", "issue"})
  <2>1. Refuse(w) \/ \E place \in {"respond", "issue"} : req' = [req EXCEPT ![w] = [req[w] EXCEPT !.pc = place]]
    BY <1>4 DEF GoogleGate, PassGate
  <2>2. QED BY <2>1, RefuseMoves, PlaceMoves
<1>5. ASSUME GoogleByEmail(w) PROVE MovesTo(w, {"googleUpdate", "first"})
  <2>1. ASSUME NEW old, NEW new, req' = [req EXCEPT ![w] = [req[w] EXCEPT !.pc = "googleUpdate", !.old = old,
                                                                         !.new = new]]
        PROVE  MovesTo(w, {"googleUpdate", "first"})
    <3> DEFINE r == [req[w] EXCEPT !.pc = "googleUpdate", !.old = old, !.new = new]
    <3>1. Follows(r, req[w]) /\ r.pc = "googleUpdate"
      BY <1>0 DEF Follows, Requests
    <3>2. req' = [req EXCEPT ![w] = r]
      BY <2>1
    <3> HIDE DEF r
    <3>3. QED BY <3>1, <3>2 DEF MovesTo
  <2>2. QED BY <1>5, <2>1, GotoMoves DEF GoogleByEmail
<1>6. ASSUME WriteEdit(w) PROVE MovesTo(w, {})
  BY <1>6, RefuseMoves DEF WriteEdit
<1>7. QED BY <1>1, <1>2, <1>3, <1>4, <1>5, <1>6

LEMMA SessionMoves ==
  ASSUME TypeInv, NEW w \in Threads
  PROVE  /\ RotateRead(w) => MovesTo(w, {"write"})
         /\ RefreshGate(w) => MovesTo(w, {"respond"})
         /\ RevokeRead(w) => MovesTo(w, {"write", "sweepRead"})
         /\ RevokeCommit(w) => MovesTo(w, {"sweepRead"})
         /\ RevokeAllRead(w) => MovesTo(w, {"respond", "sweep"})
         /\ RevokeAllCommit(w) => MovesTo(w, {"respond"})
         /\ Respond(w) \/ LoseResponse(w) => MovesTo(w, {})
<1>0. req[w] \in Requests
  BY DEF TypeInv, TypeOK
<1>1. ASSUME RotateRead(w) PROVE MovesTo(w, {"write"})
  BY <1>1, RefuseMoves, GotoMoves DEF RotateRead
<1>2. ASSUME RefreshGate(w) PROVE MovesTo(w, {"respond"})
  BY <1>2, RefuseMoves, GotoMoves DEF RefreshGate
<1>3. ASSUME RevokeRead(w) PROVE MovesTo(w, {"write", "sweepRead"})
  BY <1>3, GotoMoves DEF RevokeRead
<1>4. ASSUME RevokeCommit(w) PROVE MovesTo(w, {"sweepRead"})
  BY <1>4, GotoMoves DEF RevokeCommit
<1>5. ASSUME RevokeAllRead(w) PROVE MovesTo(w, {"respond", "sweep"})
  <2>1. ASSUME NEW seen, req' = [req EXCEPT ![w] = [req[w] EXCEPT !.pc = "sweep", !.seen = seen]]
        PROVE  MovesTo(w, {"respond", "sweep"})
    <3> DEFINE r == [req[w] EXCEPT !.pc = "sweep", !.seen = seen]
    <3>1. Follows(r, req[w]) /\ r.pc = "sweep"
      BY <1>0 DEF Follows, Requests
    <3>2. req' = [req EXCEPT ![w] = r]
      BY <2>1
    <3> HIDE DEF r
    <3>3. QED BY <3>1, <3>2 DEF MovesTo
  <2>2. QED BY <1>5, <2>1, GotoMoves DEF RevokeAllRead
<1>6. ASSUME RevokeAllCommit(w) PROVE MovesTo(w, {"respond"})
  BY <1>6, GotoMoves DEF RevokeAllCommit
<1>7. ASSUME Respond(w) \/ LoseResponse(w) PROVE MovesTo(w, {})
  BY <1>7, EndMoves DEF Respond, LoseResponse, Refuse
<1>8. QED BY <1>1, <1>2, <1>3, <1>4, <1>5, <1>6, <1>7

\* Witnesses for Begins.
LEMMA BeginsAs ==
  ASSUME NEW w, NEW kind, NEW places, NEW r, Begin(w, r), r.kind = kind, r.pc \in places, r.made = 0,
         r.token = 0 \/ (r.browser \in Browsers /\ r.token = cookies[r.browser].refresh)
  PROVE  Begins(w, kind, places)
BY DEF Begin, Begins

LEMMA RequestsBegin ==
  ASSUME TypeInv, NEW w \in Threads
  PROVE  /\ Register(w) => Begins(w, "register", {"first"})
         /\ Login(w) => Begins(w, "login", {"respond", "issue"})
         /\ VerifyMfa(w) => Begins(w, "mfa", {"issue"})
         /\ GoogleLogin(w) => Begins(w, "google", {"googleEmail", "googleUpdate"})
         /\ Refresh(w) => Begins(w, "refresh", {"read"})
         /\ Logout(w) => Begins(w, "logout", {"read", "sweepRead"})
         /\ Edit(w) /\ ~WriteEdit(w) => Begins(w, "edit", {"editWrite"})
<1>1. ASSUME Register(w) PROVE Begins(w, "register", {"first"})
  <2> DEFINE q(e) == [NoRequest EXCEPT !.kind = "register", !.pc = "first", !.account = e]
  <2>1. PICK e \in Emails : Begin(w, q(e))
    BY <1>1 DEF Register
  <2>2. q(e).kind = "register" /\ q(e).pc = "first" /\ q(e).made = 0 /\ q(e).token = 0
    BY DEF NoRequest
  <2> HIDE DEF q
  <2>3. QED BY <2>1, <2>2, BeginsAs
<1>2. ASSUME Login(w) PROVE Begins(w, "login", {"respond", "issue"})
  <2> DEFINE q(e, b) == [NoRequest EXCEPT !.kind = "login", !.browser = b, !.account = e]
  <2>1. PICK e \in Emails, b \in Browsers : PassGate(w, q(e, b), accounts[e])
    BY <1>2 DEF Login
  <2>2. PICK place \in {"respond", "issue"} : req' = [req EXCEPT ![w] = [q(e, b) EXCEPT !.pc = place]]
    BY <2>1 DEF PassGate
  <2> DEFINE r == [q(e, b) EXCEPT !.pc = place]
  <2>3. r.kind = "login" /\ r.pc = place /\ r.made = 0 /\ r.token = 0
    BY DEF NoRequest
  <2> HIDE DEF r, q
  <2>4. QED BY <2>2, <2>3 DEF r, Begins
<1>3. ASSUME VerifyMfa(w) PROVE Begins(w, "mfa", {"issue"})
  <2> DEFINE q(b, e) == [NoRequest EXCEPT !.kind = "mfa", !.pc = "issue", !.browser = b, !.account = e]
  <2>1. PICK b, e : Begin(w, q(b, e))
    BY <1>3 DEF VerifyMfa
  <2>2. q(b, e).kind = "mfa" /\ q(b, e).pc = "issue" /\ q(b, e).made = 0 /\ q(b, e).token = 0
    BY DEF NoRequest
  <2> HIDE DEF q
  <2>3. QED BY <2>1, <2>2, BeginsAs
<1>4. ASSUME GoogleLogin(w) PROVE Begins(w, "google", {"googleEmail", "googleUpdate"})
  <2> DEFINE q(b, sub) == [NoRequest EXCEPT !.kind = "google", !.browser = b, !.sub = sub]
             r1(b, sub, e) == [q(b, sub) EXCEPT !.pc = "googleEmail", !.account = e]
             r2(b, sub, e) == [q(b, sub) EXCEPT !.pc = "googleUpdate", !.account = e, !.old = accounts[e],
                                                !.new = accounts[e]]
  <2>1. \E sub, b, e : Begin(w, r1(b, sub, e)) \/ Begin(w, r2(b, sub, e))
    BY <1>4 DEF GoogleLogin
  <2>2. \A sub, b, e : /\ r1(b, sub, e).kind = "google" /\ r1(b, sub, e).pc = "googleEmail"
                       /\ r1(b, sub, e).made = 0 /\ r1(b, sub, e).token = 0
                       /\ r2(b, sub, e).kind = "google" /\ r2(b, sub, e).pc = "googleUpdate"
                       /\ r2(b, sub, e).made = 0 /\ r2(b, sub, e).token = 0
    BY DEF NoRequest
  <2> HIDE DEF r1, r2
  <2>3. QED BY <2>1, <2>2, BeginsAs
<1>5. ASSUME Refresh(w) PROVE Begins(w, "refresh", {"read"})
  <2> DEFINE q(b) == [NoRequest EXCEPT !.kind = "refresh", !.pc = "read", !.browser = b,
                                       !.token = cookies[b].refresh]
  <2>1. PICK b \in Browsers : Begin(w, q(b))
    BY <1>5 DEF Refresh
  <2>2. /\ q(b).kind = "refresh" /\ q(b).pc = "read" /\ q(b).made = 0
        /\ q(b).browser = b /\ q(b).token = cookies[b].refresh
    BY DEF NoRequest
  <2> HIDE DEF q
  <2>3. QED BY <2>1, <2>2, BeginsAs
<1>6. ASSUME Logout(w) PROVE Begins(w, "logout", {"read", "sweepRead"})
  <2> DEFINE q(b, e) == [NoRequest EXCEPT !.kind = "logout", !.browser = b, !.token = cookies[b].refresh,
                           !.account = e, !.before = TokenIds,
                           !.pc = IF cookies[b].refresh # 0 THEN "read" ELSE "sweepRead"]
  <2>1. \E b \in Browsers : \E e : Begin(w, q(b, e))
    BY <1>6 DEF Logout
  <2>2. ASSUME NEW b \in Browsers, NEW e
        PROVE  /\ q(b, e).kind = "logout" /\ q(b, e).pc \in {"read", "sweepRead"}
               /\ q(b, e).made = 0
               /\ q(b, e).browser = b /\ q(b, e).token = cookies[b].refresh
    BY DEF NoRequest
  <2> HIDE DEF q
  <2>3. QED BY <2>1, <2>2, BeginsAs
<1>7. ASSUME Edit(w), ~WriteEdit(w) PROVE Begins(w, "edit", {"editWrite"})
  <2>1. ASSUME NEW b, NEW e, NEW new, BeginEdit(w, b, e, new) PROVE Begins(w, "edit", {"editWrite"})
    <3> DEFINE q == [NoRequest EXCEPT !.kind = "edit", !.pc = "editWrite", !.browser = b, !.account = e,
                                      !.old = accounts[e], !.new = new]
    <3>1. Begin(w, q)
      BY <2>1 DEF BeginEdit
    <3>2. q.kind = "edit" /\ q.pc = "editWrite" /\ q.made = 0 /\ q.token = 0
      BY DEF NoRequest
    <3> HIDE DEF q
    <3>3. QED BY <3>1, <3>2, BeginsAs
  <2>2. QED BY <1>7, <2>1 DEF Edit, SetupTotp, EnableTotp, DisableTotp, LinkPassword, SetActive, SetRoles
<1>8. QED BY <1>1, <1>2, <1>3, <1>4, <1>5, <1>6, <1>7
----------------------------------------------------------------------------
(* The second factor.                                                      *)

Editing(r) == r.pc \in {"editWrite", "googleUpdate"}
SameFactor(r, s) == r.secret = s.secret /\ r.totp = s.totp
Sound(row) == row.totp => row.secret \in confirmed

\* Of an account that no two edits were under way for at once, the edit under
\* way has read the factor as it is, and leaves a confirmed one.
EditOK(w) == Editing(req[w]) /\ req[w].account \notin mixed =>
               SameFactor(req[w].old, accounts[req[w].account]) /\ Sound(req[w].new)
EditsMixed == \A w, x \in Threads :
                w # x /\ Editing(req[w]) /\ Editing(req[x]) /\ req[w].account = req[x].account
                  => req[w].account \in mixed
EditsOK == \A w \in Threads : EditOK(w)
TotpInv == TotpConfirmed /\ EditsMixed /\ EditsOK

LEMMA TotpInit == Init => TotpInv
<1> SUFFICES ASSUME Init PROVE TotpInv
  OBVIOUS
<1>1. ~Editing(NoRequest)
  BY DEF Editing, NoRequest
<1>2. \A w \in Threads : req[w] = NoRequest
  BY DEF Init
<1>3. ASSUME NEW e \in Emails, Exists(e), accounts[e].totp PROVE accounts[e].secret \in confirmed
  <2>1. PICK enrolled \in {X \in SUBSET founders : \A x, y \in X : x = y} :
          /\ accounts = [x \in Emails |-> IF x \in enrolled THEN Enrolled
                                         ELSE IF x \in founders THEN Founded ELSE None]
          /\ secrets = IF enrolled = {} THEN 0 ELSE 1
          /\ confirmed = 1..secrets
    BY DEF Init
  <2>2. e \in enrolled
    BY <1>3, <2>1 DEF Exists, Founded
  <2>3. accounts[e].secret = 1 /\ secrets = 1
    BY <2>1, <2>2 DEF Enrolled, Founded
  <2>4. QED BY <2>1, <2>3
<1>4. QED BY <1>1, <1>2, <1>3 DEF TotpInv, TotpConfirmed, EditsMixed, EditsOK, EditOK

\* A request that does not edit goes on.
LEMMA NoEditing ==
  ASSUME TypeInv, TotpInv, NEW w \in Threads, NEW r, ~Editing(r), req' = [req EXCEPT ![w] = r],
         UNCHANGED <<accounts, mixed, confirmed>>
  PROVE  TotpInv'
<1>1. req'[w] = r /\ \A x \in Threads \ {w} : req'[x] = req[x]
  BY DEF TypeInv, TypeOK
<1>2. TotpConfirmed' /\ EditsMixed'
  BY <1>1 DEF TotpInv, TotpConfirmed, EditsMixed, Exists
<1>3. ASSUME NEW x \in Threads PROVE EditOK(x)'
  BY <1>1 DEF TotpInv, EditsOK, EditOK, Sound, SameFactor
<1>4. QED BY <1>2, <1>3 DEF TotpInv, EditsOK

LEMMA QuietMoves ==
  ASSUME TypeInv, TotpInv, NEW w \in Threads, MovesTo(w, Places \ {"editWrite", "googleUpdate"}),
         UNCHANGED <<accounts, mixed, confirmed>>
  PROVE  TotpInv'
<1>1. PICK r : /\ req' = [req EXCEPT ![w] = r]
               /\ r = NoRequest \/ r.pc \in Places \ {"editWrite", "googleUpdate"}
  BY DEF MovesTo
<1>2. ~Editing(r)
  BY <1>1 DEF Editing, NoRequest
<1>3. QED BY <1>1, <1>2, NoEditing

LEMMA QuietBegins ==
  ASSUME TypeInv, TotpInv, NEW w \in Threads, NEW kind, NEW places, Begins(w, kind, places),
         "editWrite" \notin places, "googleUpdate" \notin places, UNCHANGED <<accounts, mixed, confirmed>>
  PROVE  TotpInv'
<1>1. PICK r : req' = [req EXCEPT ![w] = r] /\ r.pc \in places
  BY DEF Begins
<1>2. ~Editing(r)
  BY <1>1 DEF Editing
<1>3. QED BY <1>1, <1>2, NoEditing

\* A request reads an account to edit it.
LEMMA StartsEditing ==
  ASSUME TypeInv, TotpInv, NEW w \in Threads, NEW e, Exists(e), NEW r, r.account = e,
         SameFactor(r.old, accounts[e]),
         r.new.totp => r.new.secret \in confirmed' \/ (accounts[e].totp /\ r.new.secret = accounts[e].secret),
         req' = [req EXCEPT ![w] = r], accounts' = accounts, mixed' = Mixed(w, e), confirmed \subseteq confirmed'
  PROVE  TotpInv'
<1>1. req'[w] = r /\ \A x \in Threads \ {w} : req'[x] = req[x]
  BY DEF TypeInv, TypeOK
<1>2. /\ mixed \subseteq mixed'
      /\ \A x \in Threads \ {w} : Editing(req[x]) /\ req[x].account = e => e \in mixed'
  BY DEF Mixed, Edits, Editing
<1>3. TotpConfirmed'
  BY <1>2 DEF TotpInv, TotpConfirmed, Exists
<1>4. EditsMixed'
  <2>1. ASSUME NEW x \in Threads, NEW y \in Threads, x # y, Editing(req'[x]), Editing(req'[y]),
               req'[x].account = req'[y].account
        PROVE  req'[x].account \in mixed'
    <3>1. CASE x = w
      BY <1>1, <1>2, <2>1, <3>1
    <3>2. CASE y = w
      BY <1>1, <1>2, <2>1, <3>2
    <3>3. CASE x # w /\ y # w
      BY <1>1, <1>2, <2>1, <3>3 DEF TotpInv, EditsMixed
    <3>4. QED BY <3>1, <3>2, <3>3
  <2>2. QED BY <2>1 DEF EditsMixed, Editing
<1>5. e \notin mixed' /\ accounts[e].totp => accounts[e].secret \in confirmed
  BY <1>2 DEF TotpInv, TotpConfirmed, Exists
<1>6. ASSUME NEW x \in Threads PROVE EditOK(x)'
  <2>1. CASE x = w
    BY <1>1, <1>5, <2>1 DEF EditOK, Sound, SameFactor
  <2>2. CASE x # w
    <3>1. EditOK(x) /\ req'[x] = req[x]
      BY <1>1, <2>2 DEF TotpInv, EditsOK
    <3>2. QED BY <1>2, <3>1 DEF EditOK, Sound, SameFactor, Editing
  <2>3. QED BY <2>1, <2>2
<1>7. QED BY <1>3, <1>4, <1>6 DEF TotpInv, EditsOK

\* What it computed from the row is written over the row as it is now.
LEMMA EditsRow ==
  ASSUME TypeInv, TotpInv, NEW w \in Threads, Editing(req[w]), NEW r, ~Editing(r),
         req' = [req EXCEPT ![w] = r], UNCHANGED <<mixed, confirmed>>,
         \/ accounts' = accounts
         \/ accounts' = [accounts EXCEPT ![req[w].account] =
                           Merge(accounts[req[w].account], req[w].old, req[w].new)]
  PROVE  TotpInv'
<1> DEFINE e == req[w].account
           cur == accounts[e]
<1>1. CASE accounts' = accounts
  BY <1>1, NoEditing
<1>2. CASE accounts' = [accounts EXCEPT ![e] = Merge(cur, req[w].old, req[w].new)]
  <2>1. /\ req'[w] = r /\ \A x \in Threads \ {w} : req'[x] = req[x]
        /\ e \in Emails /\ cur # None /\ accounts \in [Emails -> Rows \cup {None}]
    BY DEF TypeInv, TypeOK, RequestOK, Editing, Known
  <2>2. accounts'[e] = Merge(cur, req[w].old, req[w].new) /\ \A x \in Emails \ {e} : accounts'[x] = accounts[x]
    BY <1>2, <2>1
  <2>3. e \notin mixed => Sound(accounts'[e])
    <3>1. e \notin mixed => SameFactor(req[w].old, cur) /\ Sound(req[w].new)
      BY DEF TotpInv, EditsOK, EditOK
    <3>2. SameFactor(req[w].old, cur) => SameFactor(req[w].new, accounts'[e])
      BY <2>2 DEF Merge, Column, SameFactor
    <3>3. QED BY <3>1, <3>2 DEF Sound, SameFactor
  <2>4. TotpConfirmed'
    <3>1. ASSUME NEW x \in Emails, Exists(x)', accounts'[x].totp, x \notin mixed PROVE accounts'[x].secret \in confirmed
      BY <2>2, <2>3, <3>1 DEF TotpInv, TotpConfirmed, Exists, Sound
    <3>2. QED BY <3>1 DEF TotpConfirmed
  <2>5. EditsMixed'
    BY <2>1 DEF TotpInv, EditsMixed
  <2>6. ASSUME NEW x \in Threads PROVE EditOK(x)'
    <3>1. CASE x = w
      BY <2>1, <3>1 DEF EditOK
    <3>2. CASE x # w /\ Editing(req[x])
      <4>1. req'[x] = req[x] /\ EditOK(x) /\ req[x].account \in Emails
        BY <2>1, <3>2 DEF TotpInv, EditsOK, TypeInv, RequestOK, Editing
      <4>2. req[x].account = e => e \in mixed
        BY <3>2 DEF TotpInv, EditsMixed
      <4>3. QED BY <2>2, <4>1, <4>2 DEF EditOK, Sound, SameFactor
    <3>3. CASE x # w /\ ~Editing(req[x])
      BY <2>1, <3>3 DEF EditOK
    <3>4. QED BY <3>1, <3>2, <3>3
  <2>7. QED BY <2>4, <2>5, <2>6 DEF TotpInv, EditsOK
<1>3. QED BY <1>1, <1>2

LEMMA CreateAccountTotp ==
  ASSUME TypeInv, TotpInv, NEW w \in Threads, CreateAccount(w)
  PROVE  TotpInv'
<1> DEFINE e == req[w].account
<1>1. PICK r : req' = [req EXCEPT ![w] = r] /\ (r = NoRequest \/ r.pc = "googleGate")
  BY SignInMoves DEF MovesTo
<1>2. ~Editing(r)
  BY <1>1 DEF Editing, NoRequest
<1>3. UNCHANGED <<mixed, confirmed>>
  BY DEF CreateAccount, accountVars
<1>4. CASE Taken(e, req[w].sub)
  BY <1>1, <1>2, <1>4, NoEditing DEF CreateAccount, accountVars
<1>5. CASE ~Taken(e, req[w].sub)
  <2>1. accounts' = [accounts EXCEPT ![e] = NewAccount(w)] /\ ~Exists(e)
    BY <1>5 DEF CreateAccount, Taken
  <2>2. /\ req'[w] = r /\ \A x \in Threads \ {w} : req'[x] = req[x]
        /\ \A x \in Emails \ {e} : accounts'[x] = accounts[x]
        /\ e \in Emails => accounts'[e] = NewAccount(w)
    BY <1>1, <2>1 DEF TypeInv, TypeOK
  <2>3. ~NewAccount(w).totp
    BY DEF NewAccount
  <2>4. TotpConfirmed'
    <3>1. ASSUME NEW x \in Emails, Exists(x)', accounts'[x].totp, x \notin mixed PROVE accounts'[x].secret \in confirmed
      BY <2>2, <2>3, <3>1 DEF TotpInv, TotpConfirmed, Exists
    <3>2. QED BY <1>3, <3>1 DEF TotpConfirmed
  <2>5. EditsMixed'
    BY <1>2, <1>3, <2>2 DEF TotpInv, EditsMixed
  <2>6. ASSUME NEW x \in Threads PROVE EditOK(x)'
    <3>1. CASE x = w
      BY <1>2, <2>2, <3>1 DEF EditOK
    <3>2. CASE x # w /\ Editing(req[x])
      <4>1. req'[x] = req[x] /\ EditOK(x) /\ req[x].account \in Emails \ {e}
        BY <2>1, <2>2, <3>2 DEF TotpInv, EditsOK, TypeInv, RequestOK, Editing, Known, Exists
      <4>2. QED BY <1>3, <2>2, <4>1 DEF EditOK, Sound, SameFactor
    <3>3. CASE x # w /\ ~Editing(req[x])
      BY <2>2, <3>3 DEF EditOK
    <3>4. QED BY <3>1, <3>2, <3>3
  <2>7. QED BY <2>4, <2>5, <2>6 DEF TotpInv, EditsOK
<1>6. QED BY <1>4, <1>5

LEMMA GoogleTotp ==
  ASSUME TypeInv, TotpInv, NEW w \in Threads, GoogleLogin(w) \/ GoogleByEmail(w)
  PROVE  TotpInv'
<1>1. UNCHANGED <<accounts, confirmed>>
  BY DEF GoogleLogin, GoogleByEmail
<1>2. CASE GoogleLogin(w)
  <2> DEFINE q(b, sub) == [NoRequest EXCEPT !.kind = "google", !.browser = b, !.sub = sub]
             r1(b, sub, e) == [q(b, sub) EXCEPT !.pc = "googleEmail", !.account = e]
             r2(b, sub, e) == [q(b, sub) EXCEPT !.pc = "googleUpdate", !.account = e, !.old = accounts[e],
                                                !.new = accounts[e]]
  <2>1. \E sub, b, e : \/ Begin(w, r1(b, sub, e)) /\ mixed' = mixed
                       \/ Exists(e) /\ Begin(w, r2(b, sub, e)) /\ mixed' = Mixed(w, e)
    BY <1>2 DEF GoogleLogin
  <2>2. \A sub, b, e : /\ r1(b, sub, e).pc = "googleEmail"
                       /\ r2(b, sub, e).account = e
                       /\ r2(b, sub, e).old = accounts[e] /\ r2(b, sub, e).new = accounts[e]
    BY DEF NoRequest
  <2> HIDE DEF r1, r2
  <2>3. PICK sub, b, e : \/ Begin(w, r1(b, sub, e)) /\ mixed' = mixed
                         \/ Exists(e) /\ Begin(w, r2(b, sub, e)) /\ mixed' = Mixed(w, e)
    BY <2>1
  <2>4. CASE Begin(w, r1(b, sub, e)) /\ mixed' = mixed
    <3>1. ~Editing(r1(b, sub, e))
      BY <2>2 DEF Editing
    <3>2. QED BY <1>1, <2>4, <3>1, NoEditing DEF Begin
  <2>5. CASE Exists(e) /\ Begin(w, r2(b, sub, e)) /\ mixed' = Mixed(w, e)
    <3> DEFINE r == r2(b, sub, e)
    <3>1. r.account = e /\ r.old = accounts[e] /\ r.new = accounts[e] /\ req' = [req EXCEPT ![w] = r]
      BY <2>2, <2>5 DEF Begin
    <3> HIDE DEF r
    <3>2. QED BY <1>1, <2>5, <3>1, StartsEditing DEF SameFactor
  <2>6. QED BY <2>3, <2>4, <2>5
<1>3. CASE GoogleByEmail(w) /\ Exists(req[w].account)
  <2> DEFINE e == req[w].account
             r == [req[w] EXCEPT !.pc = "googleUpdate", !.old = accounts[e],
                                 !.new = Linked(req[w].sub, accounts[e])]
  <2>1. req[w] \in Requests /\ accounts[e] \in Rows
    BY <1>3 DEF Exists, TypeInv, TypeOK
  <2>2. /\ r.account = e /\ r.old = accounts[e] /\ SameFactor(r.new, accounts[e])
        /\ req' = [req EXCEPT ![w] = r] /\ mixed' = Mixed(w, e)
    BY <1>3, <2>1 DEF GoogleByEmail, Requests, Linked, SameFactor, Rows
  <2> HIDE DEF r
  <2>3. QED BY <1>1, <1>3, <2>2, StartsEditing DEF SameFactor
<1>4. CASE GoogleByEmail(w) /\ ~Exists(req[w].account)
  <2>1. MovesTo(w, {"first"}) /\ mixed' = mixed
    BY <1>4, GotoMoves DEF GoogleByEmail
  <2>2. QED BY <1>1, <2>1, QuietMoves DEF MovesTo, Places
<1>5. QED BY <1>2, <1>3, <1>4

LEMMA EditTotp ==
  ASSUME TypeInv, TotpInv, NEW w \in Threads, Edit(w), ~WriteEdit(w)
  PROVE  TotpInv'
<1>1. ASSUME NEW b, NEW e, NEW new, Exists(e), BeginEdit(w, b, e, new), confirmed \subseteq confirmed',
             new.totp => new.secret \in confirmed' \/ (accounts[e].totp /\ new.secret = accounts[e].secret)
      PROVE  TotpInv'
  <2> DEFINE r == [NoRequest EXCEPT !.kind = "edit", !.pc = "editWrite", !.browser = b, !.account = e,
                                    !.old = accounts[e], !.new = new]
  <2>1. r.account = e /\ r.old = accounts[e] /\ r.new = new
    BY DEF NoRequest
  <2>2. req' = [req EXCEPT ![w] = r] /\ accounts' = accounts /\ mixed' = Mixed(w, e)
    BY <1>1 DEF BeginEdit, Begin
  <2> HIDE DEF r
  <2>3. QED BY <1>1, <2>1, <2>2, StartsEditing DEF SameFactor
<1>2. \A e : Exists(e) => accounts[e] \in Rows
  BY DEF Exists, TypeInv, TypeOK
<1>3. CASE SetupTotp(w)
  <2>1. PICK b \in Browsers : /\ Exists(cookies[b].access) /\ confirmed' = confirmed
                              /\ BeginEdit(w, b, cookies[b].access,
                                           [accounts[cookies[b].access] EXCEPT !.secret = secrets + 1,
                                                                              !.totp = FALSE])
    BY <1>3 DEF SetupTotp
  <2> DEFINE new == [accounts[cookies[b].access] EXCEPT !.secret = secrets + 1, !.totp = FALSE]
  <2>2. ~new.totp
    BY <1>2, <2>1 DEF Rows
  <2>3. QED BY <1>1, <2>1, <2>2
<1>4. CASE EnableTotp(w)
  <2>1. PICK b \in Browsers : /\ Exists(cookies[b].access)
                              /\ confirmed' = confirmed \cup {accounts[cookies[b].access].secret}
                              /\ BeginEdit(w, b, cookies[b].access,
                                           [accounts[cookies[b].access] EXCEPT !.totp = TRUE])
    BY <1>4 DEF EnableTotp
  <2> DEFINE new == [accounts[cookies[b].access] EXCEPT !.totp = TRUE]
  <2>2. new.secret \in confirmed'
    BY <1>2, <2>1 DEF Rows
  <2>3. QED BY <1>1, <2>1, <2>2
<1>5. CASE DisableTotp(w)
  <2>1. PICK b \in Browsers : /\ Exists(cookies[b].access) /\ confirmed' = confirmed
                              /\ BeginEdit(w, b, cookies[b].access,
                                           [accounts[cookies[b].access] EXCEPT !.secret = 0, !.totp = FALSE])
    BY <1>5 DEF DisableTotp
  <2> DEFINE new == [accounts[cookies[b].access] EXCEPT !.secret = 0, !.totp = FALSE]
  <2>2. ~new.totp
    BY <1>2, <2>1 DEF Rows
  <2>3. QED BY <1>1, <2>1, <2>2
<1>6. CASE LinkPassword(w) \/ SetActive(w) \/ SetRoles(w)
  <2>1. PICK b, e, on, roles :
          /\ b \in Browsers /\ Exists(e) /\ confirmed' = confirmed
          /\ \/ BeginEdit(w, b, e, [accounts[e] EXCEPT !.password = TRUE])
             \/ BeginEdit(w, b, e, [accounts[e] EXCEPT !.active = on])
             \/ BeginEdit(w, b, e, [accounts[e] EXCEPT !.roles = roles])
    BY <1>6 DEF LinkPassword, SetActive, SetRoles
  <2>2. /\ SameFactor([accounts[e] EXCEPT !.password = TRUE], accounts[e])
        /\ SameFactor([accounts[e] EXCEPT !.active = on], accounts[e])
        /\ SameFactor([accounts[e] EXCEPT !.roles = roles], accounts[e])
    BY <1>2, <2>1 DEF Rows, SameFactor
  <2>3. QED BY <1>1, <2>1, <2>2 DEF SameFactor
<1>7. QED BY <1>3, <1>4, <1>5, <1>6 DEF Edit

LEMMA TotpStep == TypeInv /\ TotpInv /\ [Next]_vars => TotpInv'
<1> SUFFICES ASSUME TypeInv, TotpInv, [Next]_vars PROVE TotpInv'
  OBVIOUS
<1>0. \A w \in Threads : req[w] \in Requests
  BY DEF TypeInv, TypeOK
<1>1. CASE UNCHANGED <<req, accounts, mixed, confirmed>>
  BY <1>1 DEF TotpInv, TotpConfirmed, EditsMixed, EditsOK, EditOK, Sound, SameFactor, Editing, Exists
<1>2. CASE TokenExpires \/ UNCHANGED vars
  BY <1>1, <1>2 DEF TokenExpires, vars, accountVars
<1>3. ASSUME NEW w \in Threads, SignIn(w) PROVE TotpInv'
  <2>1. CASE Register(w) \/ Login(w) \/ VerifyMfa(w)
    <3>1. UNCHANGED <<accounts, mixed, confirmed>>
      BY <2>1 DEF Register, Login, VerifyMfa, accountVars
    <3>2. QED BY <2>1, <3>1, RequestsBegin, QuietBegins
  <2>2. CASE CountAccounts(w) \/ GoogleGate(w)
    <3>1. UNCHANGED <<accounts, mixed, confirmed>>
      BY <2>2 DEF CountAccounts, GoogleGate, accountVars
    <3>2. MovesTo(w, Places \ {"editWrite", "googleUpdate"})
      BY <2>2, SignInMoves DEF MovesTo, Places
    <3>3. QED BY <3>1, <3>2, QuietMoves
  <2>3. CASE GoogleUpdate(w)
    <3>1. PICK r : req' = [req EXCEPT ![w] = r] /\ (r = NoRequest \/ r.pc = "googleGate")
      BY <2>3, SignInMoves DEF MovesTo
    <3>2. ~Editing(r) /\ Editing(req[w])
      BY <2>3, <3>1 DEF Editing, NoRequest, GoogleUpdate, At
    <3>3. QED BY <2>3, <3>1, <3>2, EditsRow DEF GoogleUpdate
  <2>4. CASE IssueTokens(w)
    <3> DEFINE r == [req[w] EXCEPT !.pc = "respond", !.made = NextToken]
    <3>1. req' = [req EXCEPT ![w] = r] /\ r.pc = "respond"
      BY <2>4, <1>0 DEF IssueTokens, Requests
    <3> HIDE DEF r
    <3>2. ~Editing(r)
      BY <3>1 DEF Editing
    <3>3. QED BY <2>4, <3>1, <3>2, NoEditing DEF IssueTokens, accountVars
  <2>5. QED BY <1>3, <2>1, <2>2, <2>3, <2>4, CreateAccountTotp, GoogleTotp DEF SignIn
<1>4. ASSUME NEW w \in Threads, Session(w) PROVE TotpInv'
  <2>1. UNCHANGED <<accounts, mixed, confirmed>>
    BY <1>4 DEF Session, Refresh, RotateRead, RotateCommit, RefreshGate, Logout, RevokeRead, RevokeCommit,
       RevokeAllRead, RevokeAllCommit, Respond, LoseResponse, accountVars
  <2>2. CASE Refresh(w) \/ Logout(w)
    BY <2>1, <2>2, RequestsBegin, QuietBegins
  <2>3. CASE RotateCommit(w)
    <3> DEFINE e == tokens[req[w].token].account
               r == [req[w] EXCEPT !.pc = "gate", !.made = NextToken, !.account = e]
    <3>1. req' = [req EXCEPT ![w] = r] /\ r.pc = "gate"
      BY <2>3, <1>0 DEF RotateCommit, Requests
    <3> HIDE DEF r
    <3>2. ~Editing(r)
      BY <3>1 DEF Editing
    <3>3. QED BY <2>1, <3>1, <3>2, NoEditing
  <2>4. CASE ~(Refresh(w) \/ Logout(w) \/ RotateCommit(w))
    <3>1. MovesTo(w, Places \ {"editWrite", "googleUpdate"})
      BY <1>4, <2>4, SessionMoves DEF Session, MovesTo, Places
    <3>2. QED BY <2>1, <3>1, QuietMoves
  <2>5. QED BY <2>2, <2>3, <2>4
<1>5. ASSUME NEW w \in Threads, Edit(w) PROVE TotpInv'
  <2>1. CASE WriteEdit(w)
    <3>1. Editing(req[w]) /\ ~Editing(NoRequest)
      BY <2>1 DEF Editing, NoRequest, WriteEdit, At
    <3>2. QED BY <2>1, <3>1, EditsRow DEF WriteEdit, Refuse
  <2>2. QED BY <1>5, <2>1, EditTotp
<1>6. QED BY <1>2, <1>3, <1>4, <1>5 DEF Next

\* A second factor that is on has a secret some code was verified for, unless
\* two edits of the account overlapped.
THEOREM TotpCorrect == Spec => []TotpConfirmed
<1>1. Init => TypeInv /\ TotpInv
  BY TypeInit, TotpInit
<1>2. TypeInv /\ TotpInv /\ [Next]_vars => (TypeInv /\ TotpInv)'
  BY TypeStep, TotpStep
<1>3. TotpInv => TotpConfirmed
  BY DEF TotpInv
<1>4. QED BY <1>1, <1>2, <1>3, PTL DEF Spec

----------------------------------------------------------------------------
(* The refresh cookie.                                                     *)

\* The token can be presented, or it is known why it cannot.
Live(t) == Active(t) \/ tokens[t].expired \/ t \in ended \cup stranded
\* The request has replaced the token it was sent with.
Rotated(r) == r.kind = "refresh" /\ r.pc \in {"gate", "respond"}
RefreshOK(r) == /\ r.kind = "refresh" => r.pc \in {"read", "write", "gate", "respond"}
                /\ Rotated(r) => r.made # 0
Cookie(b) == cookies[b].refresh

\* The token of a cookie is known to that browser and its requests alone.
Home(b) == Cookie(b) # 0 =>
             /\ \A c \in Browsers \ {b} : Cookie(c) # Cookie(b)
             /\ \A w \in Threads : req[w].token = Cookie(b) => req[w].browser = b
\* The token a request has made is known to that request alone.
Unseen(w) == req[w].made # 0 =>
               /\ Live(req[w].made)
               /\ \A b \in Browsers : Cookie(b) # req[w].made
               /\ \A x \in Threads : req[x].token # req[w].made /\ (x # w => req[x].made # req[w].made)
\* The token of a cookie is live, or a request of the browser brings another.
Waits(b) == Cookie(b) # 0 =>
              \/ Live(Cookie(b))
              \/ \E w \in Threads : Rotated(req[w]) /\ req[w].browser = b /\ req[w].token = Cookie(b)
CookieInv == /\ \A w \in Threads : RefreshOK(req[w]) /\ Unseen(w)
             /\ \A b \in Browsers : Home(b) /\ Waits(b)

\* Only a rotation takes the life of a token without a trace.
LEMMA LiveKept ==
  ASSUME TokensTypeOK, stranded \subseteq stranded', NEW t \in TokenIds, Live(t),
         \/ UNCHANGED <<tokens, parent, ended>>
         \/ \E e \in Emails : IssuePair(e)
         \/ \E u \in TokenIds : u # t /\ Rotate(u)
         \/ \E S \in SUBSET TokenIds : Revoke(S)
         \/ \E u \in TokenIds : Expire(u)
  PROVE  Live(t)'
<1>0. tokens[t] \in TokenRows
  BY DEF TokensTypeOK, TokenIds
<1>1. CASE UNCHANGED <<tokens, parent, ended>>
  BY <1>1 DEF Live, Active, TokenIds
<1>2. ASSUME NEW e \in Emails, IssuePair(e) PROVE Live(t)'
  <2>1. tokens'[t] = tokens[t] /\ t \in TokenIds' /\ ended' = ended
    BY <1>2, IssueShape DEF IssuePair
  <2>2. QED BY <2>1 DEF Live, Active
<1>3. ASSUME NEW u \in TokenIds, u # t, Rotate(u) PROVE Live(t)'
  <2>1. tokens'[t] = tokens[t] /\ t \in TokenIds' /\ ended' = ended
    BY <1>3, RotateShape DEF Rotate
  <2>2. QED BY <2>1 DEF Live, Active
<1>4. ASSUME NEW S \in SUBSET TokenIds, Revoke(S) PROVE Live(t)'
  <2>1. TokenIds' = TokenIds /\ ended' = ended \cup S
    BY <1>4, RevokeShape DEF Revoke
  <2>2. t \notin S => tokens'[t] = tokens[t]
    BY <1>4, RevokeShape
  <2>3. QED BY <2>1, <2>2 DEF Live, Active
<1>5. ASSUME NEW u \in TokenIds, Expire(u) PROVE Live(t)'
  <2>1. TokenIds' = TokenIds /\ ended' = ended
    BY <1>5, ExpireShape DEF Expire
  <2>2. u # t => tokens'[t] = tokens[t]
    BY <1>5, ExpireShape
  <2>3. u = t => tokens'[t] = [tokens[t] EXCEPT !.expired = TRUE]
    BY <1>5, ExpireShape
  <2>4. u = t => tokens'[t].expired
    BY <1>0, <2>3 DEF TokenRows
  <2>5. QED BY <2>1, <2>2, <2>4 DEF Live, Active
<1>6. QED BY <1>1, <1>2, <1>3, <1>4, <1>5

\* Where tokens come from: those of cookies and requests were issued.
LEMMA TokensKnown ==
  ASSUME TypeInv
  PROVE  /\ \A b \in Browsers : Cookie(b) \in TokenIds \cup {0}
         /\ \A w \in Threads : req[w].token \in TokenIds \cup {0} /\ req[w].made \in TokenIds \cup {0}
         /\ \A w \in Threads : req[w] \in Requests
         /\ TokensTypeOK /\ NextToken \notin TokenIds /\ NextToken # 0 /\ 0 \notin TokenIds
  BY DEF TypeInv, TypeOK, Cookie, TokensTypeOK, NextToken, TokenIds

\* One request takes a step while the cookies stay.
LEMMA CookiesStay ==
  ASSUME TypeInv, CookieInv, NEW w \in Threads, NEW r, req' = [req EXCEPT ![w] = r],
         \A b \in Browsers : cookies'[b].refresh = cookies[b].refresh,
         RefreshOK(r), NEW n, n = NextToken, NEW o, o = req[w].token,
         r.made \in {0, req[w].made} \/ (r.made = n /\ Live(n)'),
         \/ r.token = 0
         \/ r.token = o /\ r.browser = req[w].browser
         \/ r.browser \in Browsers /\ r.token = cookies[r.browser].refresh,
         \A t \in TokenIds : Live(t) =>
           Live(t)' \/ (t = o /\ r.token = t /\ r.browser = req[w].browser /\ Rotated(r)),
         Rotated(req[w]) =>
           Live(o)' \/ (r.token = o /\ r.browser = req[w].browser /\ Rotated(r))
  PROVE  CookieInv'
<1>1. req'[w] = r /\ \A x \in Threads \ {w} : req'[x] = req[x]
  BY DEF TypeInv, TypeOK
<1>2. \A b \in Browsers : Cookie(b)' = Cookie(b)
  BY DEF Cookie
<1>3. ASSUME NEW b \in Browsers PROVE Home(b)'
  <2>1. Home(b) /\ \A c \in Browsers : Home(c)
    BY DEF CookieInv
  <2>2. r.token = Cookie(b) /\ Cookie(b) # 0 => r.browser = b
    BY <2>1 DEF Home, Cookie
  <2>3. QED BY <1>1, <1>2, <2>1, <2>2 DEF Home
<1>4. ASSUME NEW b \in Browsers, NEW t, t = Cookie(b), t # 0
      PROVE  Live(t)' \/ \E x \in Threads : Rotated(req'[x]) /\ req'[x].browser = b /\ req'[x].token = t
  <2>1. CASE Live(t)
    <3>1. Live(t)' \/ (t = o /\ r.token = t /\ r.browser = req[w].browser /\ Rotated(r))
      BY <1>4, <2>1, TokensKnown
    <3>2. t = o => req[w].browser = b
      BY <1>4 DEF CookieInv, Home
    <3>3. QED BY <1>1, <3>1, <3>2
  <2>2. CASE ~Live(t)
    <3>1. PICK x \in Threads : Rotated(req[x]) /\ req[x].browser = b /\ req[x].token = t
      BY <1>4, <2>2 DEF CookieInv, Waits
    <3>2. CASE x = w
      BY <1>1, <3>1, <3>2
    <3>3. CASE x # w
      BY <1>1, <3>1, <3>3
    <3>4. QED BY <3>2, <3>3
  <2>3. QED BY <2>1, <2>2
<1>5. ASSUME NEW x \in Threads, NEW m, m = req'[x].made, m # 0
      PROVE  /\ Live(m)'
             /\ \A b \in Browsers : Cookie(b) # m
             /\ \A y \in Threads : req'[y].token # m /\ (y # x => req'[y].made # m)
  <2>1. CASE m # n
    <3>1. m = req[x].made /\ m \in TokenIds
      BY <1>1, <1>5, <2>1, TokensKnown
    <3>2. /\ Live(m) /\ \A b \in Browsers : Cookie(b) # m
          /\ \A y \in Threads : req[y].token # m /\ (y # x => req[y].made # m)
      BY <1>5, <3>1 DEF CookieInv, Unseen
    <3>3. r.token # m
      BY <1>5, <3>2 DEF Cookie
    <3>4. Live(m)'
      BY <3>1, <3>2
    <3>5. x # w => r.made # m
      BY <1>5, <2>1, <3>2
    <3>6. QED BY <1>1, <3>2, <3>3, <3>4, <3>5
  <2>2. CASE m = n
    <3>1. x = w /\ Live(m)'
      BY <1>1, <1>5, <2>2, TokensKnown
    <3>2. \A b \in Browsers : Cookie(b) # m
      BY <2>2, TokensKnown
    <3>3. \A y \in Threads : req[y].token # m /\ req[y].made # m
      BY <2>2, TokensKnown
    <3>4. r.token # m
      BY <1>5, <3>2, <3>3 DEF Cookie
    <3>5. QED BY <1>1, <3>1, <3>2, <3>3, <3>4
  <2>3. QED BY <2>1, <2>2
<1>6. ASSUME NEW x \in Threads PROVE RefreshOK(req'[x])
  BY <1>1 DEF CookieInv
<1>7. ASSUME NEW b \in Browsers PROVE Waits(b)'
  BY <1>2, <1>4 DEF Waits, Live, Rotated
<1>8. ASSUME NEW x \in Threads PROVE Unseen(x)'
  BY <1>2, <1>5 DEF Unseen, Live
<1>9. \A x \in Threads : RefreshOK(req[x])'
  BY <1>6 DEF RefreshOK, Rotated
<1>10. QED BY <1>3, <1>7, <1>8, <1>9 DEF CookieInv

\* A request that does not refresh goes on.
LEMMA OthersMove ==
  ASSUME TypeInv, CookieInv, NEW w \in Threads, NEW places, MovesTo(w, places), req[w].kind # "refresh",
         cookies' = cookies, \A t \in TokenIds : Live(t) => Live(t)'
  PROVE  CookieInv'
<1>1. PICK r : req' = [req EXCEPT ![w] = r] /\ (r = NoRequest \/ Follows(r, req[w]))
  BY DEF MovesTo
<1>2. /\ RefreshOK(r) /\ ~Rotated(req[w]) /\ r.made \in {0, req[w].made}
      /\ r.token = 0 \/ (r.token = req[w].token /\ r.browser = req[w].browser)
  BY <1>1 DEF RefreshOK, Rotated, Follows, NoRequest
<1>3. QED BY <1>1, <1>2, CookiesStay

\* A request begins.
LEMMA BeginsCookie ==
  ASSUME TypeInv, CookieInv, NEW w \in Threads, NEW kind, NEW places, Begins(w, kind, places), At(w, "idle"),
         kind = "refresh" => places = {"read"}, cookies' = cookies, \A t \in TokenIds : Live(t) => Live(t)'
  PROVE  CookieInv'
<1>1. PICK r : /\ req' = [req EXCEPT ![w] = r]
               /\ r.kind = kind /\ r.pc \in places /\ r.made = 0
               /\ r.token = 0 \/ (r.browser \in Browsers /\ r.token = cookies[r.browser].refresh)
  BY DEF Begins
<1>2. RefreshOK(r) /\ ~Rotated(req[w])
  BY <1>1 DEF RefreshOK, Rotated, At
<1>3. QED BY <1>1, <1>2, CookiesStay

LEMMA IssueCookie ==
  ASSUME TypeInv, CookieInv, NEW w \in Threads, IssueTokens(w)
  PROVE  CookieInv'
<1> DEFINE n == NextToken
           r == [req[w] EXCEPT !.pc = "respond", !.made = n]
<1>1. req[w] \in Requests /\ TokensTypeOK /\ req[w].account \in Emails
  BY DEF TypeInv, TypeOK, RequestOK, IssueTokens, At
<1>2. req' = [req EXCEPT ![w] = r] /\ cookies' = cookies /\ stranded' = stranded
  BY <1>1 DEF IssueTokens, clientVars
<1>3. req[w].kind # "refresh"
  BY DEF IssueTokens, At, CookieInv, RefreshOK
<1>4. r.kind = req[w].kind /\ r.made = n /\ r.token = req[w].token /\ r.browser = req[w].browser
  BY <1>1 DEF Requests
<1> HIDE DEF r
<1>5. RefreshOK(r) /\ ~Rotated(req[w])
  BY <1>3, <1>4 DEF RefreshOK, Rotated
<1>6. \A t \in TokenIds : Live(t) => Live(t)'
  BY <1>1, <1>2, LiveKept DEF IssueTokens
<1>7. ASSUME NEW m, m = n PROVE Live(m)'
  <2>1. m \in TokenIds' /\ tokens'[m] = NewRow(req[w].account)
    BY <1>1, <1>7, IssueShape DEF IssueTokens
  <2>2. QED BY <2>1 DEF Live, Active, NewRow
<1>8. PICK m : m = n
  OBVIOUS
<1>9. Live(m)'
  BY <1>7, <1>8
<1>10. PICK o : o = req[w].token
  OBVIOUS
<1>11. /\ m = NextToken /\ r.made = m /\ r.token = o /\ r.browser = req[w].browser
       /\ \A b \in Browsers : cookies'[b].refresh = cookies[b].refresh
  BY <1>2, <1>4, <1>8, <1>10
<1> HIDE DEF n
<1>12. r.made \in {0, req[w].made} \/ (r.made = m /\ Live(m)')
  BY <1>9, <1>11
<1>13. /\ \A t \in TokenIds : Live(t) =>
            Live(t)' \/ (t = o /\ r.token = t /\ r.browser = req[w].browser /\ Rotated(r))
       /\ Rotated(req[w]) => Live(o)' \/ (r.token = o /\ r.browser = req[w].browser /\ Rotated(r))
  BY <1>5, <1>6
<1>14. /\ r.token = o /\ r.browser = req[w].browser /\ RefreshOK(r) /\ m = NextToken
       /\ \A b \in Browsers : cookies'[b].refresh = cookies[b].refresh
  BY <1>5, <1>11
<1>15. QED BY <1>2, <1>10, <1>12, <1>13, <1>14, CookiesStay

\* The rotation takes the life of the token of the cookie, and the request
\* keeps the new one until it answers.
LEMMA RotateCookie ==
  ASSUME TypeInv, CookieInv, NEW w \in Threads, RotateCommit(w)
  PROVE  CookieInv'
<1> DEFINE n == NextToken
           e == tokens[req[w].token].account
           r == [req[w] EXCEPT !.pc = "gate", !.made = n, !.account = e]
<1>1. req[w] \in Requests /\ TokensTypeOK /\ req[w].token \in TokenIds
  BY DEF TypeInv, TypeOK, RequestOK, RotateCommit, At
<1>2. req' = [req EXCEPT ![w] = r] /\ cookies' = cookies /\ stranded' = stranded
  BY <1>1 DEF RotateCommit, clientVars
<1>3. req[w].kind = "refresh" /\ req[w].pc = "write"
  BY DEF RotateCommit, At
<1>4. /\ r.kind = req[w].kind /\ r.made = n /\ r.token = req[w].token /\ r.browser = req[w].browser
      /\ r.pc = "gate"
  BY <1>1 DEF Requests
<1> HIDE DEF r, e
<1>5. RefreshOK(r) /\ Rotated(r) /\ ~Rotated(req[w])
  BY <1>3, <1>4, TokensKnown DEF RefreshOK, Rotated
<1>6. PICK o : o = req[w].token
  OBVIOUS
<1>7. \A t \in TokenIds : Live(t) => Live(t)' \/ t = o
  BY <1>1, <1>2, <1>6, LiveKept DEF RotateCommit
<1>8. ASSUME NEW m, m = n PROVE Live(m)'
  <2>1. m \in TokenIds' /\ tokens'[m] = NewRow(tokens[req[w].token].account)
    BY <1>1, <1>8, RotateShape DEF RotateCommit
  <2>2. QED BY <2>1 DEF Live, Active, NewRow
<1>9. PICK m : m = n
  OBVIOUS
<1>10. Live(m)'
  BY <1>8, <1>9
<1>11. QED BY <1>2, <1>4, <1>5, <1>6, <1>7, <1>9, <1>10, CookiesStay

\* A refresh that goes on keeps what it brings; one that ends has stranded it.
LEMMA GateCookie ==
  ASSUME TypeInv, CookieInv, NEW w \in Threads, RefreshGate(w) \/ LoseResponse(w)
  PROVE  CookieInv'
<1>0. TokensTypeOK /\ UNCHANGED <<tokens, parent, ended>> /\ stranded \subseteq stranded' /\ cookies' = cookies
  BY TokensKnown DEF RefreshGate, LoseResponse, tokenVars
<1>1. PICK r : /\ req' = [req EXCEPT ![w] = r]
               /\ \/ r = NoRequest /\ (req[w].kind = "refresh" => req[w].token \in stranded')
                  \/ Follows(r, req[w]) /\ r.pc = "respond" /\ req[w].pc = "gate"
  <2>1. CASE RefreshGate(w) /\ accounts[req[w].account].active
    <3> DEFINE r == [req[w] EXCEPT !.pc = "respond"]
    <3>1. req' = [req EXCEPT ![w] = r] /\ Follows(r, req[w]) /\ r.pc = "respond" /\ req[w].pc = "gate"
      BY <2>1, TokensKnown DEF RefreshGate, Goto, At, Follows, Requests
    <3> HIDE DEF r
    <3>2. QED BY <3>1
  <2>2. CASE (RefreshGate(w) /\ ~accounts[req[w].account].active) \/ LoseResponse(w)
    BY <2>2 DEF RefreshGate, LoseResponse, Refuse
  <2>3. QED BY <2>1, <2>2
<1>2. RefreshOK(req[w])
  BY DEF CookieInv
<1>3. /\ RefreshOK(r) /\ r.made \in {0, req[w].made}
      /\ r.token = 0 \/ (r.token = req[w].token /\ r.browser = req[w].browser)
      /\ Rotated(req[w]) => \/ req[w].token \in stranded'
                            \/ r.token = req[w].token /\ r.browser = req[w].browser /\ Rotated(r)
  BY <1>1, <1>2 DEF RefreshOK, Rotated, Follows, NoRequest
<1>4. PICK o : o = req[w].token
  OBVIOUS
<1>5. \A t \in TokenIds : Live(t) => Live(t)'
  BY <1>0, LiveKept
<1>6. o \in stranded' => Live(o)'
  BY DEF Live
<1>7. QED BY <1>0, <1>1, <1>3, <1>4, <1>5, <1>6, CookiesStay

\* The answer: a logout clears the cookie, and a new token takes its place.
LEMMA RespondCookie ==
  ASSUME TypeInv, CookieInv, NEW w \in Threads, Respond(w)
  PROVE  CookieInv'
<1> DEFINE p == req[w].browser
           m == req[w].made
<1>1. /\ req'[w] = NoRequest /\ \A x \in Threads \ {w} : req'[x] = req[x]
      /\ UNCHANGED <<tokens, parent, ended>> /\ stranded' = stranded /\ TokensTypeOK
  BY TokensKnown DEF Respond, Refuse, TypeInv, TypeOK, tokenVars
<1>2. /\ \A b \in Browsers \ {p} : cookies'[b].refresh = Cookie(b)
      /\ p \in Browsers => cookies'[p].refresh = IF req[w].kind = "logout" THEN 0
                                                 ELSE IF m = 0 THEN Cookie(p) ELSE m
  BY DEF Respond, Cookie, TypeInv, TypeOK, NoCookies
<1>3. \A t \in TokenIds : Live(t) => Live(t)'
  BY <1>1, LiveKept
<1>4. RefreshOK(req[w]) /\ Unseen(w) /\ m \in TokenIds \cup {0}
  BY TokensKnown DEF CookieInv
<1>5. ~Rotated(NoRequest) /\ RefreshOK(NoRequest) /\ NoRequest.made = 0 /\ NoRequest.token = 0
  BY DEF NoRequest, Rotated, RefreshOK
<1>6. ASSUME NEW b \in Browsers PROVE Home(b)'
  <2>1. \A c \in Browsers : cookies'[c].refresh \in {0, Cookie(c)} \/ (c = p /\ cookies'[c].refresh = m /\ m # 0)
    BY <1>2
  <2>2. \A c \in Browsers : Home(c)
    BY DEF CookieInv
  <2>3. ASSUME NEW c \in Browsers \ {b}, cookies'[b].refresh # 0 PROVE cookies'[c].refresh # cookies'[b].refresh
    BY <1>4, <2>1, <2>2, <2>3 DEF Home, Unseen
  <2>4. ASSUME NEW x \in Threads \ {w}, cookies'[b].refresh # 0, req[x].token = cookies'[b].refresh
        PROVE  req[x].browser = b
    BY <1>4, <2>1, <2>2, <2>4 DEF Home, Unseen
  <2>5. QED BY <1>1, <1>5, <2>3, <2>4 DEF Home, Cookie
<1>7. ASSUME NEW b \in Browsers, NEW t, t = cookies'[b].refresh, t # 0
      PROVE  Live(t)' \/ \E x \in Threads : Rotated(req'[x]) /\ req'[x].browser = b /\ req'[x].token = t
  <2>1. CASE t = Cookie(b) /\ ~(b = p /\ Rotated(req[w]))
    <3>1. Live(t) \/ \E x \in Threads : Rotated(req[x]) /\ req[x].browser = b /\ req[x].token = t
      BY <1>7, <2>1 DEF CookieInv, Waits
    <3>2. CASE Live(t)
      BY <1>3, <1>7, <2>1, <3>2, TokensKnown
    <3>3. ASSUME NEW x \in Threads, Rotated(req[x]), req[x].browser = b, req[x].token = t PROVE req'[x] = req[x]
      BY <1>1, <2>1, <3>3
    <3>4. QED BY <3>1, <3>2, <3>3
  <2>2. CASE t = m
    <3>1. Live(t)
      BY <1>4, <1>7, <2>2 DEF Unseen
    <3>2. QED BY <1>3, <1>4, <1>7, <2>2, <3>1
  <2>3. CASE b = p /\ Rotated(req[w])
    <3>1. m # 0 /\ req[w].kind # "logout"
      BY <1>4, <2>3 DEF RefreshOK, Rotated
    <3>2. QED BY <1>2, <1>7, <2>2, <2>3, <3>1
  <2>4. QED BY <1>2, <1>7, <2>1, <2>2, <2>3
<1>8. ASSUME NEW x \in Threads \ {w}, NEW o, o = req[x].made, o # 0
      PROVE  /\ Live(o)'
             /\ \A b \in Browsers : cookies'[b].refresh # o
             /\ \A y \in Threads : req'[y].token # o /\ (y # x => req'[y].made # o)
  <2>1. /\ Live(o) /\ \A b \in Browsers : Cookie(b) # o
        /\ \A y \in Threads : req[y].token # o /\ (y # x => req[y].made # o)
    BY <1>8 DEF CookieInv, Unseen
  <2>2. Live(o)' /\ m # o
    BY <1>3, <1>8, <2>1, TokensKnown
  <2>3. QED BY <1>1, <1>2, <1>5, <1>8, <2>1, <2>2
<1>9. ASSUME NEW b \in Browsers PROVE Waits(b)'
  BY <1>7 DEF Waits, Live, Rotated, Cookie
<1>10. ASSUME NEW x \in Threads PROVE Unseen(x)'
  BY <1>1, <1>5, <1>8 DEF Unseen, Live, Cookie
<1>11. \A x \in Threads : RefreshOK(req[x])'
  BY <1>1, <1>5 DEF CookieInv, RefreshOK, Rotated
<1>12. QED BY <1>6, <1>9, <1>10, <1>11 DEF CookieInv

LEMMA CookieStep ==
  ASSUME TypeInv, CookieInv, [Next]_vars
  PROVE  CookieInv'
<1>0. TokensTypeOK /\ \A w \in Threads : req[w] \in Requests /\ RequestOK(req[w], TokenIds, Known)
  BY DEF TypeInv, TypeOK
<1>1. ASSUME UNCHANGED <<tokens, parent, ended, stranded>>, NEW t \in TokenIds, Live(t) PROVE Live(t)'
  BY <1>0, <1>1, LiveKept
<1>2. CASE TokenExpires \/ UNCHANGED vars
  <2>1. UNCHANGED <<req, cookies, stranded>>
    BY <1>2 DEF TokenExpires, vars, clientVars
  <2>2. ASSUME NEW t \in TokenIds, Live(t) PROVE Live(t)'
    BY <1>0, <1>1, <1>2, <2>1, <2>2, LiveKept DEF TokenExpires, vars, tokenVars
  <2>3. ASSUME NEW b \in Browsers, NEW t, t = Cookie(b), t # 0 PROVE Live(t) => Live(t)'
    BY <2>2, <2>3, TokensKnown
  <2>4. ASSUME NEW w \in Threads, NEW t, t = req[w].made, t # 0 PROVE Live(t) => Live(t)'
    BY <2>2, <2>4, TokensKnown
  <2>5. ASSUME NEW b \in Browsers PROVE Home(b)' /\ Waits(b)'
    BY <2>1, <2>3 DEF CookieInv, Home, Waits, Cookie, Live, Rotated
  <2>6. ASSUME NEW w \in Threads PROVE Unseen(w)'
    BY <2>1, <2>4 DEF CookieInv, Unseen, Cookie, Live
  <2>7. QED BY <2>1, <2>5, <2>6 DEF CookieInv, RefreshOK, Rotated
<1>3. ASSUME NEW w \in Threads, SignIn(w) PROVE CookieInv'
  <2>1. CASE Register(w) \/ Login(w) \/ VerifyMfa(w) \/ GoogleLogin(w)
    <3>1. UNCHANGED <<tokens, parent, ended, stranded, cookies>> /\ At(w, "idle")
      BY <2>1 DEF Register, Login, VerifyMfa, GoogleLogin, Begin, At, tokenVars, clientVars
    <3>2. QED BY <1>1, <2>1, <3>1, RequestsBegin, BeginsCookie
  <2>2. CASE CountAccounts(w) \/ CreateAccount(w) \/ GoogleUpdate(w) \/ GoogleGate(w) \/ GoogleByEmail(w)
    <3>1. UNCHANGED <<tokens, parent, ended, stranded, cookies>>
      BY <2>2 DEF CountAccounts, CreateAccount, GoogleUpdate, GoogleGate, GoogleByEmail, tokenVars, clientVars
    <3>2. req[w].kind # "refresh"
      BY <2>2 DEF CountAccounts, CreateAccount, GoogleUpdate, GoogleGate, GoogleByEmail, At, CookieInv, RefreshOK
    <3>3. QED BY <1>1, <2>2, <3>1, <3>2, SignInMoves, OthersMove
  <2>3. QED BY <1>3, <2>1, <2>2, IssueCookie DEF SignIn
<1>4. ASSUME NEW w \in Threads, Session(w) PROVE CookieInv'
  <2>1. CASE Refresh(w) \/ Logout(w)
    <3>1. UNCHANGED <<tokens, parent, ended, stranded, cookies>> /\ At(w, "idle")
      BY <2>1 DEF Refresh, Logout, Begin, At, tokenVars, clientVars
    <3>2. QED BY <1>1, <2>1, <3>1, RequestsBegin, BeginsCookie
  <2>2. CASE RotateRead(w)
    <3>1. UNCHANGED <<tokens, parent, ended, stranded, cookies>>
      BY <2>2 DEF RotateRead, clientVars
    <3>2. PICK r : /\ req' = [req EXCEPT ![w] = r]
                   /\ r = NoRequest \/ (Follows(r, req[w]) /\ r.pc \in {"write"})
      BY <2>2, SessionMoves DEF MovesTo
    <3>3. /\ RefreshOK(r) /\ ~Rotated(req[w]) /\ r.made \in {0, req[w].made}
          /\ r.token = 0 \/ (r.token = req[w].token /\ r.browser = req[w].browser)
      BY <2>2, <3>2 DEF RefreshOK, Rotated, Follows, NoRequest, RotateRead, At
    <3>4. QED BY <1>1, <3>1, <3>2, <3>3, CookiesStay
  <2>3. CASE RevokeRead(w) \/ RevokeCommit(w) \/ RevokeAllRead(w) \/ RevokeAllCommit(w)
    <3>1. req[w].kind # "refresh" /\ cookies' = cookies /\ stranded' = stranded
      BY <2>3 DEF RevokeRead, RevokeCommit, RevokeAllRead, RevokeAllCommit, At, CookieInv, RefreshOK, clientVars
    <3>2. UNCHANGED <<tokens, parent, ended>> \/ \E S \in SUBSET TokenIds : Revoke(S)
      <4>1. RevokeCommit(w) => {req[w].token} \in SUBSET TokenIds
        BY <1>0 DEF RevokeCommit, At, RequestOK
      <4>2. req[w].seen \in SUBSET TokenIds
        BY <1>0 DEF RequestOK
      <4>3. QED BY <2>3, <4>1, <4>2 DEF RevokeRead, RevokeCommit, RevokeAllRead, RevokeAllCommit, tokenVars
    <3>3. ASSUME NEW t \in TokenIds, Live(t) PROVE Live(t)'
      BY <1>0, <3>1, <3>2, <3>3, LiveKept
    <3>4. QED BY <2>3, <3>1, <3>3, SessionMoves, OthersMove
  <2>4. QED BY <1>4, <2>1, <2>2, <2>3, RotateCookie, GateCookie, RespondCookie DEF Session
<1>5. ASSUME NEW w \in Threads, Edit(w) PROVE CookieInv'
  <2>1. UNCHANGED <<tokens, parent, ended, stranded, cookies>>
    BY <1>5 DEF Edit, SetupTotp, EnableTotp, DisableTotp, LinkPassword, SetActive, SetRoles, WriteEdit,
       BeginEdit, tokenVars, clientVars
  <2>2. CASE WriteEdit(w)
    <3>1. req[w].kind # "refresh"
      BY <2>2 DEF WriteEdit, At, CookieInv, RefreshOK
    <3>2. QED BY <1>1, <2>1, <2>2, <3>1, SignInMoves, OthersMove
  <2>3. CASE ~WriteEdit(w)
    <3>1. At(w, "idle")
      BY <1>5, <2>3 DEF Edit, SetupTotp, EnableTotp, DisableTotp, LinkPassword, SetActive, SetRoles,
         BeginEdit, Begin, At
    <3>2. QED BY <1>1, <1>5, <2>1, <2>3, <3>1, RequestsBegin, BeginsCookie
  <2>4. QED BY <2>2, <2>3
<1>6. QED BY <1>2, <1>3, <1>4, <1>5 DEF Next

\* A browser that waits for no answer holds a live refresh token, unless it is
\* known what became of it.
THEOREM CookieCorrect == Spec => []CookieLive
<1>1. Init => TypeInv /\ CookieInv
  <2>1. Init => TypeInv
    BY TypeInit
  <2>2. ASSUME Init PROVE CookieInv
    <3>1. /\ \A b \in Browsers : Cookie(b) = 0
          /\ \A w \in Threads : req[w].kind = "none" /\ req[w].made = 0
      BY <2>2 DEF Init, Cookie, NoCookies, NoRequest
    <3>2. QED BY <3>1 DEF CookieInv, RefreshOK, Rotated, Unseen, Home, Waits
  <2>3. QED BY <2>1, <2>2
<1>2. TypeInv /\ CookieInv /\ [Next]_vars => (TypeInv /\ CookieInv)'
  BY TypeStep, CookieStep
<1>3. CookieInv => CookieLive
  BY DEF CookieInv, CookieLive, Waits, Cookie, Live
<1>4. QED BY <1>1, <1>2, <1>3, PTL DEF Spec

=============================================================================
