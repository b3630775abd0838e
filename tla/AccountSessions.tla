--------------------------- MODULE AccountSessions ---------------------------
(***************************************************************************)
(* The requests of the API that read and write accounts and sessions:      *)
(* registration, password, second-factor and Google sign-in, refresh,      *)
(* logout, the account's own edits and the administrator's.  The route     *)
(* functions run in a thread pool, each with a database session of its     *)
(* own: a request is a thread that reads, waits and writes, and others run *)
(* between.  An UPDATE writes the columns that differ from what was read.  *)
(* Passwords and mailboxes are taken as correct, tokens as opaque; a       *)
(* second-factor code is the secret it was computed from.                  *)
(***************************************************************************)
EXTENDS RefreshTokens

CONSTANTS Subs,       \* Google identities
          Browsers,   \* cookie jars
          Threads,    \* of the thread pool
          None,
          AllowRegistration, RequireEmailVerification,   \* app.config.settings
          MaxSecrets, \* bound: TOTP secrets ever generated
          MaxEvents   \* bound: requests, lost responses and expiries

ASSUME SettingsAssumption == {AllowRegistration, RequireEmailVerification} \subseteq BOOLEAN
ASSUME BoundsAssumption == /\ {MaxTokens, MaxSecrets, MaxEvents} \subseteq Nat
                           /\ MaxSecrets > 0

VARIABLES accounts,   \* rows of accounts with their roles, None where there is none
          cookies,    \* per browser: the two cookies and a pending second factor
          req,        \* per thread: the request it serves
          secrets,    \* number of TOTP secrets generated
          events,
          founders,   \* accounts created with the bootstrap role (history)
          confirmed,  \* secrets a code was verified for (history)
          mixed,      \* accounts two edits were under way for at once (history)
          stranded,   \* tokens whose replacement never reached the browser (history)
          signedOut   \* tokens that existed when a completed logout began (history)
accountVars == <<accounts, secrets, founders, confirmed, mixed>>
clientVars  == <<cookies, stranded, signedOut>>
vars == <<tokenVars, accountVars, clientVars, req, events>>

Roles == {"admin", "user"}
Rows == [google : Subs \cup {None}, password : BOOLEAN, verified : BOOLEAN, active : BOOLEAN,
         secret : 0..MaxSecrets, totp : BOOLEAN, roles : SUBSET Roles]
ASSUME NoneAssumption == None \notin Emails \cup Subs \cup Browsers \cup Rows
Founded == [google |-> None, password |-> TRUE, verified |-> TRUE, active |-> TRUE,
            secret |-> 0, totp |-> FALSE, roles |-> {"admin"}]
Enrolled == [Founded EXCEPT !.secret = 1, !.totp = TRUE]

\* A request: what it is, where it stands, the cookie jar it answers to, the
\* account it is about, the token it presented or made, the row it read and
\* the row it will write, and what it saw at its start.
Kinds == {"none", "register", "login", "google", "mfa", "refresh", "logout", "edit"}
Places == {"idle", "first", "create", "googleEmail", "googleUpdate", "googleGate", "issue",
           "read", "write", "gate", "sweepRead", "sweep", "editWrite", "respond"}
NoRequest == [kind |-> "none", pc |-> "idle", browser |-> None, account |-> None, sub |-> None,
              token |-> 0, made |-> 0, old |-> Founded, new |-> Founded,
              first |-> FALSE, seen |-> {}, before |-> {}]
Requests == [kind : Kinds, pc : Places, browser : Browsers \cup {None}, account : Emails \cup {None},
             sub : Subs \cup {None}, token : Nat, made : Nat, old : Rows, new : Rows,
             first : BOOLEAN, seen : SUBSET Nat, before : SUBSET Nat]
NoCookies == [refresh |-> 0, access |-> None, mfa |-> None]

TypeOK ==
  /\ TokensTypeOK
  /\ accounts \in [Emails -> Rows \cup {None}]
  /\ cookies \in [Browsers -> [refresh : TokenIds \cup {0}, access : Emails \cup {None},
                               mfa : Emails \cup {None}]]
  /\ req \in [Threads -> Requests]
  /\ \A w \in Threads : /\ {req[w].token, req[w].made} \subseteq TokenIds \cup {0}
                        /\ req[w].seen \cup req[w].before \subseteq TokenIds
  /\ secrets \in 0..MaxSecrets /\ events \in 0..MaxEvents
  /\ founders \subseteq Emails /\ mixed \subseteq Emails /\ confirmed \subseteq 1..MaxSecrets
  /\ stranded \cup signedOut \subseteq TokenIds

\* The service starts on an empty database or on one with accounts in it, one
\* of which may use a second factor.
Init ==
  /\ InitTokens
  /\ founders \in SUBSET Emails
  /\ \E enrolled \in {X \in SUBSET founders : \A x, y \in X : x = y} :
       /\ accounts = [e \in Emails |-> IF e \in enrolled THEN Enrolled
                                      ELSE IF e \in founders THEN Founded ELSE None]
       /\ secrets = IF enrolled = {} THEN 0 ELSE 1
       /\ confirmed = 1..secrets
  /\ cookies = [b \in Browsers |-> NoCookies]
  /\ req = [w \in Threads |-> NoRequest]
  /\ events = 0 /\ mixed = {} /\ stranded = {} /\ signedOut = {}

----------------------------------------------------------------------------
Exists(e) == e \in Emails /\ accounts[e] # None
Begin(w, r) == /\ req[w].pc = "idle" /\ events < MaxEvents
               /\ req' = [req EXCEPT ![w] = r] /\ events' = events + 1
At(w, place) == req[w].pc = place
Goto(w, place) == req' = [req EXCEPT ![w] = [@ EXCEPT !.pc = place]] /\ UNCHANGED events
Refuse(w) == req' = [req EXCEPT ![w] = NoRequest] /\ UNCHANGED events

\* register: the checks, then the count that decides on the role, then the
\* INSERT.  The lookup is by the address as typed, the row holds it in lower
\* case: another spelling is found only by the unique constraint.
Register(w) ==
  \E e \in Emails, asTyped \in BOOLEAN :
    /\ AllowRegistration \/ \A x \in Emails : ~Exists(x)
    /\ ~(Exists(e) /\ asTyped)
    /\ Begin(w, [NoRequest EXCEPT !.kind = "register", !.pc = "first", !.account = e])
    /\ UNCHANGED <<tokenVars, accountVars, clientVars>>

CountAccounts(w) ==
  /\ At(w, "first")
  /\ IF req[w].kind = "google" /\ ~AllowRegistration /\ \E x \in Emails : Exists(x)
     THEN Refuse(w)
     ELSE /\ req' = [req EXCEPT ![w] = [@ EXCEPT !.pc = "create", !.first = \A x \in Emails : ~Exists(x)]]
          /\ UNCHANGED events
  /\ UNCHANGED <<tokenVars, accountVars, clientVars>>

\* Mutant: the roles are swapped.
RoleForSwapped(first) == IF first THEN "user" ELSE "admin"

RoleFor(first) == IF first THEN "admin" ELSE "user"

NewAccount(w) ==
  [google |-> req[w].sub, password |-> req[w].kind = "register",
   verified |-> req[w].kind = "google" \/ ~RequireEmailVerification,
   active |-> TRUE, secret |-> 0, totp |-> FALSE, roles |-> {RoleFor(req[w].first)}]

\* accounts.email and accounts.google_sub are unique.
Taken(e, sub) == Exists(e) \/ (sub # None /\ \E x \in Emails : Exists(x) /\ accounts[x].google = sub)

CreateAccount(w) ==
  LET e == req[w].account IN
  /\ At(w, "create")
  /\ IF Taken(e, req[w].sub)
     THEN Refuse(w) /\ UNCHANGED accountVars
     ELSE /\ accounts' = [accounts EXCEPT ![e] = NewAccount(w)]
          /\ founders' = IF "admin" \in NewAccount(w).roles THEN founders \cup {e} ELSE founders
          /\ UNCHANGED <<secrets, confirmed, mixed>>
          /\ IF req[w].kind = "register" THEN Refuse(w) ELSE Goto(w, "googleGate")
  /\ UNCHANGED <<tokenVars, clientVars>>

----------------------------------------------------------------------------
\* A sign-in that passed its checks: the second factor is asked for, or tokens
\* are issued in the next transaction.
PassGate(w, r, row) ==
  req' = [req EXCEPT ![w] = [r EXCEPT !.pc = IF row.totp /\ row.secret # 0 THEN "respond" ELSE "issue"]]

Login(w) ==
  \E e \in Emails, b \in Browsers :
    /\ req[w].pc = "idle" /\ events < MaxEvents
    /\ Exists(e) /\ accounts[e].password /\ accounts[e].active
    /\ RequireEmailVerification => accounts[e].verified
    /\ PassGate(w, [NoRequest EXCEPT !.kind = "login", !.browser = b, !.account = e], accounts[e])
    /\ events' = events + 1
    /\ UNCHANGED <<tokenVars, accountVars, clientVars>>

\* verify_mfa: the account is read once more, its secret decides on the code.
VerifyMfa(w) ==
  \E b \in Browsers :
    LET e == cookies[b].mfa IN
    /\ Exists(e) /\ \E code \in 1..secrets : code = accounts[e].secret
    /\ Begin(w, [NoRequest EXCEPT !.kind = "mfa", !.pc = "issue", !.browser = b, !.account = e])
    /\ UNCHANGED <<tokenVars, accountVars, clientVars>>

\* Editing the same account from two requests at once.
Edits(w, e) == req[w].account = e /\ req[w].pc \in {"editWrite", "googleUpdate"}
Mixed(w, e) == IF \E x \in Threads \ {w} : Edits(x, e) THEN mixed \cup {e} ELSE mixed
Linked(sub, row) == [row EXCEPT !.google = sub]

\* upsert_google_account: by the identity, then by the address, then a new row.
GoogleLogin(w) ==
  \E sub \in Subs, e \in Emails, b \in Browsers :
    LET known == {x \in Emails : Exists(x) /\ accounts[x].google = sub}
        r     == [NoRequest EXCEPT !.kind = "google", !.browser = b, !.sub = sub] IN
    /\ IF known = {}
       THEN /\ Begin(w, [r EXCEPT !.pc = "googleEmail", !.account = e]) /\ UNCHANGED mixed
       ELSE \E x \in known :
              /\ Begin(w, [r EXCEPT !.pc = "googleUpdate", !.account = x, !.old = accounts[x],
                                    !.new = accounts[x]])
              /\ mixed' = Mixed(w, x)
    /\ UNCHANGED <<tokenVars, clientVars, accounts, secrets, founders, confirmed>>

GoogleByEmail(w) ==
  LET e == req[w].account IN
  /\ At(w, "googleEmail")
  /\ IF Exists(e)
     THEN /\ req' = [req EXCEPT ![w] = [@ EXCEPT !.pc = "googleUpdate", !.old = accounts[e],
                                                 !.new = Linked(req[w].sub, accounts[e])]]
          /\ mixed' = Mixed(w, e) /\ UNCHANGED events
     ELSE Goto(w, "first") /\ UNCHANGED mixed
  /\ UNCHANGED <<tokenVars, clientVars, accounts, secrets, founders, confirmed>>

\* The UPDATE of a row: only what the request changed.  A role set is a set of
\* rows of account_roles.
Column(cur, old, new) == IF new = old THEN cur ELSE new
Merge(cur, old, new) ==
  [google   |-> Column(cur.google, old.google, new.google),
   password |-> Column(cur.password, old.password, new.password),
   verified |-> Column(cur.verified, old.verified, new.verified),
   active   |-> Column(cur.active, old.active, new.active),
   secret   |-> Column(cur.secret, old.secret, new.secret),
   totp     |-> Column(cur.totp, old.totp, new.totp),
   roles    |-> (cur.roles \ (old.roles \ new.roles)) \cup (new.roles \ old.roles)]
\* Rows of account_roles that are no longer, or already, there.
RolesClash(cur, old, new) == \/ ~(old.roles \ new.roles \subseteq cur.roles)
                             \/ (new.roles \ old.roles) \cap cur.roles # {}

GoogleUpdate(w) ==
  LET e == req[w].account
      sub == req[w].sub IN
  /\ At(w, "googleUpdate")
  /\ IF req[w].old # req[w].new /\ \E x \in Emails \ {e} : Exists(x) /\ accounts[x].google = sub
     THEN Refuse(w) /\ UNCHANGED accounts
     ELSE /\ accounts' = [accounts EXCEPT ![e] = Merge(@, req[w].old, req[w].new)]
          /\ Goto(w, "googleGate")
  /\ UNCHANGED <<tokenVars, clientVars, secrets, founders, confirmed, mixed>>

\* The commit expired the row: it is read again for the checks.
GoogleGate(w) ==
  /\ At(w, "googleGate")
  /\ LET row == accounts[req[w].account] IN
     IF row.active THEN PassGate(w, req[w], row) /\ UNCHANGED events ELSE Refuse(w)
  /\ UNCHANGED <<tokenVars, accountVars, clientVars>>

IssueTokens(w) ==
  /\ At(w, "issue")
  /\ IssuePair(req[w].account)
  /\ req' = [req EXCEPT ![w] = [@ EXCEPT !.pc = "respond", !.made = NextToken]]
  /\ UNCHANGED <<accountVars, clientVars, events>>

----------------------------------------------------------------------------
\* The route takes the refresh cookie as the request arrives ...
Refresh(w) ==
  \E b \in Browsers :
    /\ cookies[b].refresh # 0
    /\ Begin(w, [NoRequest EXCEPT !.kind = "refresh", !.pc = "read", !.browser = b,
                                  !.token = cookies[b].refresh])
    /\ UNCHANGED <<tokenVars, accountVars, clientVars>>

Holds(w, t) == req[w].kind = "refresh" /\ req[w].pc = "write" /\ req[w].token = t

\* ... rotate reads it ...
RotateRead(w) ==
  LET t == req[w].token IN
  /\ At(w, "read") /\ req[w].kind = "refresh"
  /\ IF Active(t)
     THEN /\ raced' = IF \E x \in Threads \ {w} : Holds(x, t) THEN raced \cup {t} ELSE raced
          /\ Goto(w, "write")
     ELSE Refuse(w) /\ UNCHANGED raced
  /\ UNCHANGED <<tokens, parent, ended, accountVars, clientVars>>

\* ... and replaces it, whatever happened to it since.
RotateCommit(w) ==
  LET t == req[w].token IN
  /\ At(w, "write") /\ req[w].kind = "refresh"
  /\ Rotate(t)
  /\ req' = [req EXCEPT ![w] = [@ EXCEPT !.pc = "gate", !.made = NextToken,
                                         !.account = tokens[t].account]]
  /\ UNCHANGED <<accountVars, clientVars, events>>

\* refresh_session looks at the account when the rotation is committed.
RefreshGate(w) ==
  /\ At(w, "gate")
  /\ IF accounts[req[w].account].active
     THEN Goto(w, "respond") /\ UNCHANGED stranded
     ELSE Refuse(w) /\ stranded' = stranded \cup {req[w].token}
  /\ UNCHANGED <<tokenVars, accountVars, cookies, signedOut>>

\* The account is known only while the access token is valid.
Logout(w) ==
  \E b \in Browsers : \E e \in {cookies[b].access, None} :
    /\ Begin(w, [NoRequest EXCEPT !.kind = "logout", !.browser = b, !.token = cookies[b].refresh,
                   !.account = e, !.before = TokenIds,
                   !.pc = IF cookies[b].refresh # 0 THEN "read" ELSE "sweepRead"])
    /\ UNCHANGED <<tokenVars, accountVars, clientVars>>

RevokeRead(w) ==
  /\ At(w, "read") /\ req[w].kind = "logout"
  /\ Goto(w, IF Active(req[w].token) THEN "write" ELSE "sweepRead")
  /\ UNCHANGED <<tokenVars, accountVars, clientVars>>

RevokeCommit(w) ==
  /\ At(w, "write") /\ req[w].kind = "logout"
  /\ Revoke({req[w].token})
  /\ Goto(w, "sweepRead")
  /\ UNCHANGED <<accountVars, clientVars>>

RevokeAllRead(w) ==
  /\ At(w, "sweepRead")
  /\ IF req[w].account = None
     THEN Goto(w, "respond")
     ELSE /\ req' = [req EXCEPT ![w] = [@ EXCEPT !.pc = "sweep", !.seen = Unrevoked(req[w].account)]]
          /\ UNCHANGED events
  /\ UNCHANGED <<tokenVars, accountVars, clientVars>>

RevokeAllCommit(w) ==
  /\ At(w, "sweep")
  /\ Revoke(req[w].seen)
  /\ Goto(w, "respond")
  /\ signedOut' = signedOut \cup {t \in req[w].before : tokens[t].account = req[w].account}
  /\ UNCHANGED <<accountVars, cookies, stranded>>

----------------------------------------------------------------------------
\* The response reaches the browser ...
Respond(w) ==
  LET r == req[w] IN
  /\ At(w, "respond")
  /\ cookies' = [cookies EXCEPT ![r.browser] =
       IF r.kind = "logout" THEN NoCookies
       ELSE IF r.made = 0 THEN [@ EXCEPT !.mfa = r.account]
       ELSE [@ EXCEPT !.refresh = r.made, !.access = r.account]]
  /\ Refuse(w)
  /\ UNCHANGED <<tokenVars, accountVars, stranded, signedOut>>

\* ... or is lost on the way.
LoseResponse(w) ==
  /\ At(w, "respond") /\ events < MaxEvents
  /\ stranded' = IF req[w].kind = "refresh" THEN stranded \cup {req[w].token} ELSE stranded
  /\ req' = [req EXCEPT ![w] = NoRequest] /\ events' = events + 1
  /\ UNCHANGED <<tokenVars, accountVars, cookies, signedOut>>

TokenExpires == \E t \in TokenIds : /\ events < MaxEvents
                                    /\ Expire(t) /\ events' = events + 1
                                    /\ UNCHANGED <<accountVars, clientVars, req>>

----------------------------------------------------------------------------
\* An edit reads the row, computes a new one and writes what changed.
BeginEdit(w, b, e, new) ==
  /\ Begin(w, [NoRequest EXCEPT !.kind = "edit", !.pc = "editWrite", !.browser = b, !.account = e,
                                !.old = accounts[e], !.new = new])
  /\ mixed' = Mixed(w, e)
  /\ UNCHANGED <<tokenVars, clientVars, accounts, founders>>

\* Mutant: is_totp_enabled is not reset.
SetupTotpKeepsFlag(w) ==
  \E b \in Browsers :
    LET e == cookies[b].access IN
    /\ Exists(e) /\ secrets < MaxSecrets
    /\ secrets' = secrets + 1
    /\ BeginEdit(w, b, e, [accounts[e] EXCEPT !.secret = secrets + 1])
    /\ UNCHANGED confirmed

SetupTotp(w) ==
  \E b \in Browsers :
    LET e == cookies[b].access IN
    /\ Exists(e) /\ secrets < MaxSecrets
    /\ secrets' = secrets + 1
    /\ BeginEdit(w, b, e, [accounts[e] EXCEPT !.secret = secrets + 1, !.totp = FALSE])
    /\ UNCHANGED confirmed

\* The code proves that the authenticator holds the secret.
EnableTotp(w) ==
  \E b \in Browsers :
    LET e == cookies[b].access IN
    /\ Exists(e) /\ accounts[e].secret # 0
    /\ confirmed' = confirmed \cup {accounts[e].secret}
    /\ BeginEdit(w, b, e, [accounts[e] EXCEPT !.totp = TRUE])
    /\ UNCHANGED secrets

DisableTotp(w) ==
  \E b \in Browsers :
    LET e == cookies[b].access IN
    /\ Exists(e) /\ accounts[e].password /\ accounts[e].secret # 0
    /\ BeginEdit(w, b, e, [accounts[e] EXCEPT !.secret = 0, !.totp = FALSE])
    /\ UNCHANGED <<secrets, confirmed>>

LinkPassword(w) ==
  \E b \in Browsers :
    LET e == cookies[b].access IN
    /\ Exists(e) /\ ~accounts[e].password
    /\ BeginEdit(w, b, e, [accounts[e] EXCEPT !.password = TRUE])
    /\ UNCHANGED <<secrets, confirmed>>

IsAdmin(b) == Exists(cookies[b].access) /\ "admin" \in accounts[cookies[b].access].roles

SetActive(w) ==
  \E b \in Browsers, e \in Emails, on \in BOOLEAN :
    /\ IsAdmin(b) /\ Exists(e)
    /\ BeginEdit(w, b, e, [accounts[e] EXCEPT !.active = on])
    /\ UNCHANGED <<secrets, confirmed>>

SetRoles(w) ==
  \E b \in Browsers, e \in Emails, roles \in SUBSET Roles \ {{}} :
    /\ IsAdmin(b) /\ Exists(e)
    /\ BeginEdit(w, b, e, [accounts[e] EXCEPT !.roles = roles])
    /\ UNCHANGED <<secrets, confirmed>>

WriteEdit(w) ==
  LET e == req[w].account IN
  /\ At(w, "editWrite")
  /\ accounts' = IF RolesClash(accounts[e], req[w].old, req[w].new) THEN accounts
                 ELSE [accounts EXCEPT ![e] = Merge(@, req[w].old, req[w].new)]
  /\ Refuse(w)
  /\ UNCHANGED <<tokenVars, clientVars, secrets, founders, confirmed, mixed>>

----------------------------------------------------------------------------
SignIn(w) == Register(w) \/ CountAccounts(w) \/ CreateAccount(w) \/ Login(w) \/ VerifyMfa(w)
             \/ GoogleLogin(w) \/ GoogleByEmail(w) \/ GoogleUpdate(w) \/ GoogleGate(w) \/ IssueTokens(w)
Session(w) == Refresh(w) \/ RotateRead(w) \/ RotateCommit(w) \/ RefreshGate(w) \/ Logout(w)
              \/ RevokeRead(w) \/ RevokeCommit(w) \/ RevokeAllRead(w) \/ RevokeAllCommit(w)
              \/ Respond(w) \/ LoseResponse(w)
Edit(w) == SetupTotp(w) \/ EnableTotp(w) \/ DisableTotp(w) \/ LinkPassword(w) \/ SetActive(w)
           \/ SetRoles(w) \/ WriteEdit(w)

Next == TokenExpires \/ \E w \in Threads : SignIn(w) \/ Session(w) \/ Edit(w)
Spec == Init /\ [][Next]_vars

----------------------------------------------------------------------------
\* A browser that waits for no answer holds a live refresh token, unless that
\* token expired, was signed out, or its rotation never came back
\* (refresh_token_service.py:71-82, auth_service.py:87-97).
CookieLive ==
  \A b \in Browsers :
    LET t == cookies[b].refresh IN
    t # 0 /\ (\A w \in Threads : req[w].browser # b) =>
      Active(t) \/ tokens[t].expired \/ t \in ended \cup stranded

\* When a logout with a valid access token has ended, every token the account
\* had when it began is revoked for good, whatever was rotated meanwhile
\* (auth_service.py:99-103).
SignedOutStaysOut == \A t \in signedOut : tokens[t].revoked

\* Two-factor sign-in is on only with a secret some code was verified for,
\* unless two edits of the account overlapped (auth_service.py:114-138).
TotpConfirmed ==
  \A e \in Emails : Exists(e) /\ accounts[e].totp =>
    (accounts[e].secret \in confirmed) \/ e \in mixed

\* Whatever registrations overlap, the first account of the installation was
\* created as an administrator (auth_service.py:38-54).
BootstrapAdmin == (\E e \in Emails : Exists(e)) => founders # {}
=============================================================================
