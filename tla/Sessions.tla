------------------------------ MODULE Sessions ------------------------------
(***************************************************************************)
(* Signing in to the Aman School backend: one-time codes and rotating      *)
(* refresh tokens (routes/auth.routes.ts, lib/otp.ts, mintTokens of        *)
(* auth/jwt.ts).  A one-time code and a refresh token are used in the same *)
(* way: read and check, mark as used, look the account up, insert the row  *)
(* of a new refresh token.  The two order these statements differently.    *)
(*                                                                         *)
(* Access tokens are not stored and not modelled.  Accounts other than     *)
(* parents' exist from the start, as does the password or PIN they know.   *)
(***************************************************************************)
EXTENDS Requests

CONSTANTS
  Parents,   \* phone numbers; the first code requested for one creates its User
  Staff,     \* users that sign in with a PIN or a password
  TwoFactor, \* those of them that also need a code: the sysadmins
  MaxCodes,  \* bound: rows of table OtpCode
  MaxTokens, \* bound: rows of table RefreshToken
  Newest     \* verifyOtp looks at that many codes of a user (5 in the code)

ASSUME SessionsAssumption ==
  /\ TwoFactor \subseteq Staff
  /\ Parents \cap Staff = {}
  /\ MaxCodes \in Nat /\ MaxTokens \in Nat
  /\ Newest \in Nat \ {0}

VARIABLES
  accounts,  \* phone numbers that have a User row
  codes,     \* the rows of table OtpCode, in the order they are created
  tokens     \* the rows of table RefreshToken, likewise

sessionVars == <<accounts, codes, tokens>>

Users   == Parents \cup Staff
CodeIds == 1..MaxCodes
Tokens  == 1..MaxTokens

\* What a session is obtained with: a PIN or password, code n, or token t.
Login    == [kind |-> "login"]
Code(n)  == [kind |-> "code", of |-> n]
Token(t) == [kind |-> "token", of |-> t]
Tickets  == {Code(n) : n \in CodeIds} \cup {Token(t) : t \in Tokens}

NoRow == [kind |-> "none"]
CodeRow(u) == [kind |-> "code", user |-> u, consumed |-> FALSE, expired |-> FALSE]
\* The source keeps no origin; it is here for the properties.
TokenRow(origin) == [kind |-> "token", origin |-> origin, revoked |-> FALSE, expired |-> FALSE]

Issued(n) == codes[n] # NoRow
Minted(t) == tokens[t] # NoRow

SessionsInit ==
  /\ accounts = {}
  /\ codes = [n \in CodeIds |-> NoRow]
  /\ tokens = [t \in Tokens |-> NoRow]

-----------------------------------------------------------------------------
(* One-time codes.                                                          *)

RequestCode_Mutant(w, u) ==
  /\ Free(w)
  /\ Continue(w, IF u \in accounts THEN [at |-> "issue-code", user |-> u]
                 ELSE [at |-> "create-parent", user |-> u])
  /\ UNCHANGED sessionVars

\* request-otp finds or creates the parent before it issues a code; the
\* sysadmin's login issues one once the password is right.
RequestCode(w, u) ==
  /\ Free(w)
  /\ u \in Parents \cup TwoFactor
  /\ Continue(w, IF u \in Parents \ accounts THEN [at |-> "create-parent", user |-> u]
                 ELSE [at |-> "issue-code", user |-> u])
  /\ UNCHANGED sessionVars

\* User.phone is unique: of two requests that found no account one fails.
CreateParent(w) ==
  /\ At(w, "create-parent")
  /\ LET u == req[w].user IN
     IF u \in accounts THEN Fail(w) /\ UNCHANGED accounts
     ELSE /\ accounts' = accounts \cup {u}
          /\ Continue(w, [at |-> "issue-code", user |-> u])
  /\ UNCHANGED <<codes, tokens>>

IssueCode(w) ==
  /\ At(w, "issue-code")
  /\ \E n \in CodeIds :
       /\ {m \in CodeIds : Issued(m)} = 1..n-1
       /\ codes' = [codes EXCEPT ![n] = CodeRow(req[w].user)]
  /\ Succeed(w)
  /\ UNCHANGED <<accounts, tokens>>

\* The candidates of verifyOtp.
Usable(n, u) == Issued(n) /\ codes[n].user = u /\ ~codes[n].consumed /\ ~codes[n].expired
Candidate(n, u) ==
  /\ Usable(n, u)
  /\ Cardinality({m \in CodeIds : m > n /\ Usable(m, u)}) < Newest

CheckCode(w, n) ==
  /\ Free(w)
  /\ \E u \in Users : Candidate(n, u)
  /\ Continue(w, [at |-> "consume", with |-> Code(n)])
  /\ UNCHANGED sessionVars

ConsumeCode(w) ==
  /\ At(w, "consume")
  /\ codes' = [codes EXCEPT ![req[w].with.of].consumed = TRUE]
  /\ Continue(w, [at |-> "mint", with |-> req[w].with])
  /\ UNCHANGED <<accounts, tokens>>

-----------------------------------------------------------------------------
(* Refresh tokens.                                                          *)

\* The PIN and password logins of everybody but the sysadmin.
SignIn(w, u) ==
  /\ Free(w)
  /\ u \in Staff \ TwoFactor
  /\ Continue(w, [at |-> "mint", with |-> Login])
  /\ UNCHANGED sessionVars

CheckToken_Mutant(w, t) ==
  /\ Free(w)
  /\ Minted(t)
  /\ ~tokens[t].expired
  /\ Continue(w, [at |-> "revoke", with |-> Token(t)])
  /\ UNCHANGED sessionVars

\* POST /auth/refresh checks the row and the account, which is never deleted.
CheckToken(w, t) ==
  /\ Free(w)
  /\ Minted(t)
  /\ ~tokens[t].revoked /\ ~tokens[t].expired
  /\ Continue(w, [at |-> "revoke", with |-> Token(t)])
  /\ UNCHANGED sessionVars

Revoke(t) == tokens' = [tokens EXCEPT ![t].revoked = TRUE]

RevokeToken(w) ==
  /\ At(w, "revoke")
  /\ Revoke(req[w].with.of)
  /\ Continue(w, [at |-> "mint", with |-> req[w].with])
  /\ UNCHANGED <<accounts, codes>>

\* mintTokens inserts the row and the request is answered.
Mint(w) ==
  /\ At(w, "mint")
  /\ \E t \in Tokens :
       /\ {s \in Tokens : Minted(s)} = 1..t-1
       /\ tokens' = [tokens EXCEPT ![t] = TokenRow(req[w].with)]
  /\ Succeed(w)
  /\ UNCHANGED <<accounts, codes>>

\* POST /auth/logout: one statement, whatever the state of the row.
Logout(t) ==
  /\ Minted(t)
  /\ Revoke(t)
  /\ UNCHANGED <<accounts, codes, req, failures>>

\* Ten minutes or thirty days have passed, which matters to unused rows only.
Expire ==
  /\ \/ \E n \in CodeIds : /\ Issued(n) /\ ~codes[n].consumed
                           /\ codes' = [codes EXCEPT ![n].expired = TRUE]
                           /\ UNCHANGED tokens
     \/ \E t \in Tokens : /\ Minted(t) /\ ~tokens[t].revoked
                          /\ tokens' = [tokens EXCEPT ![t].expired = TRUE]
                          /\ UNCHANGED codes
  /\ UNCHANGED <<accounts, req, failures>>

SessionStep(w) ==
  \/ \E u \in Users : RequestCode(w, u) \/ SignIn(w, u)
  \/ CreateParent(w) \/ IssueCode(w)
  \/ \E n \in CodeIds : CheckCode(w, n)
  \/ ConsumeCode(w)
  \/ \E t \in Tokens : CheckToken(w, t)
  \/ RevokeToken(w) \/ Mint(w)
  \/ Crash(w) /\ UNCHANGED sessionVars

SessionsNext ==
  \/ \E w \in Workers : SessionStep(w)
  \/ \E t \in Tokens : Logout(t)
  \/ Expire

SessionsSpec ==
  RequestsInit /\ SessionsInit /\ [][SessionsNext]_<<sessionVars, req, failures>>

-----------------------------------------------------------------------------
Origins  == {Login} \cup Tickets
TokenRows == [kind : {"token"}, origin : Origins, revoked : BOOLEAN, expired : BOOLEAN]
CodeRows  == [kind : {"code"}, user : Users, consumed : BOOLEAN, expired : BOOLEAN]
SessionReqs == {Idle} \cup [at : {"create-parent"}, user : Parents]
                 \cup [at : {"issue-code"}, user : Users]
                 \cup [at : {"consume", "revoke", "mint"}, with : Origins]

\* The rows of the two tables are well formed, and so are the handlers' locals:
\* a request that consumes has a code, one that revokes has a token.
SessionsTypeOK ==
  /\ accounts \subseteq Parents
  /\ codes \in [CodeIds -> CodeRows \cup {NoRow}]
  /\ tokens \in [Tokens -> TokenRows \cup {NoRow}]
  /\ req \in [Workers -> SessionReqs]
  /\ \A w \in Workers : /\ At(w, "consume") => req[w].with.kind = "code"
                        /\ At(w, "revoke") => req[w].with.kind = "token"
  /\ failures \in Nat

\* The sessions obtained with a ticket, and the requests that will mint one.
SessionsFrom(x) == {t \in Tokens : Minted(t) /\ tokens[t].origin = x}
Using(x) == {w \in Workers : req[w].at \in {"consume", "revoke", "mint"} /\ req[w].with = x}

\* A one-time code signs in, and a refresh token is rotated, at most as many
\* times as requests are served at once, however often it is sent again: no
\* request that starts after the row was marked can use it (auth.routes.ts:206
\* and otp.ts:21 check what lines 212 and 27 write before any session exists).
UsedOnce ==
  \A x \in Tickets :
    Cardinality(SessionsFrom(x)) + Cardinality(Using(x)) <= Cardinality(Workers)
=============================================================================
