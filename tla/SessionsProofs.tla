-------------------------- MODULE SessionsProofs --------------------------
(***************************************************************************)
(* Type correctness of Sessions and UsedOnce, for any number of requests,  *)
(* accounts, codes and tokens; type correctness of PhoneSession,           *)
(* RestartKeepsUser and BannerTells, for any number of users, calls in     *)
(* flight and calls of SecureStore in progress.                            *)
(***************************************************************************)
EXTENDS Sessions, PhoneSession, FiniteSetTheorems, SequenceTheorems, TLAPS

sVars == <<sessionVars, req, failures>>

\* A ticket whose row is marked as used.
Spent(x) ==
  \/ \E n \in CodeIds : x = Code(n) /\ Issued(n) /\ codes[n].consumed
  \/ \E t \in Tokens : x = Token(t) /\ Minted(t) /\ tokens[t].revoked

Holds(w) == req[w].at \in {"consume", "revoke", "mint"}

\* What a request uses is a row of its table.
HeldExists ==
  \A w \in Workers : Holds(w) =>
    /\ \A n \in CodeIds : req[w].with = Code(n) => Issued(n)
    /\ \A t \in Tokens : req[w].with = Token(t) => Minted(t)

\* No session exists, or is about to be inserted, before the mark is set.
MarkedFirst ==
  \A x \in Tickets : ~Spent(x) =>
    SessionsFrom(x) = {} /\ \A w \in Workers : At(w, "mint") => req[w].with # x

SessionsInv == SessionsTypeOK /\ HeldExists /\ MarkedFirst /\ UsedOnce

-----------------------------------------------------------------------------
\* The sets that UsedOnce counts are finite.
LEMMA UsesFinite ==
  ASSUME SessionsTypeOK, NEW x
  PROVE  /\ SessionsFrom(x) \subseteq Tokens /\ Using(x) \subseteq Workers
         /\ IsFiniteSet(SessionsFrom(x)) /\ IsFiniteSet(Using(x))
         /\ Cardinality(SessionsFrom(x)) \in Nat
         /\ Cardinality(Using(x)) \in Nat /\ Cardinality(Workers) \in Nat
         /\ Cardinality(Using(x)) <= Cardinality(Workers)
<1>1. IsFiniteSet(Tokens)
  BY SessionsAssumption, FS_Interval DEF Tokens
<1>2. SessionsFrom(x) \subseteq Tokens /\ Using(x) \subseteq Workers
  BY DEF SessionsFrom, Using
<1> QED BY <1>1, <1>2, RequestsAssumption, FS_Subset, FS_CardinalityType

LEMMA SessionsInit0 == RequestsInit /\ SessionsInit => SessionsInv
<1> SUFFICES ASSUME RequestsInit, SessionsInit PROVE SessionsInv
  OBVIOUS
<1>1. SessionsTypeOK
  BY RequestsAssumption, SessionsAssumption
    DEF RequestsInit, SessionsInit, SessionsTypeOK, SessionReqs, Idle, At
<1>2. HeldExists
  BY DEF RequestsInit, Idle, HeldExists, Holds
<1>3. ASSUME NEW x PROVE SessionsFrom(x) = {} /\ Using(x) = {}
  BY DEF RequestsInit, SessionsInit, Idle, SessionsFrom, Using, Minted, NoRow
<1>4. MarkedFirst
  BY <1>3 DEF MarkedFirst, RequestsInit, Idle, At
<1>5. UsedOnce
  BY <1>1, <1>3, UsesFinite, FS_EmptySet DEF UsedOnce
<1> QED BY <1>1, <1>2, <1>4, <1>5 DEF SessionsInv

\* A row that is written keeps its type, and stays a row.
LEMMA MarkCode ==
  ASSUME SessionsTypeOK, NEW n \in CodeIds, Issued(n),
         codes' = [codes EXCEPT ![n].consumed = TRUE] \/ codes' = [codes EXCEPT ![n].expired = TRUE]
  PROVE  /\ codes' \in [CodeIds -> CodeRows \cup {NoRow}]
         /\ \A m \in CodeIds : Issued(m)' <=> Issued(m)
         /\ \A m \in CodeIds : Issued(m) /\ codes[m].consumed => codes'[m].consumed
<1>1. codes[n] \in CodeRows
  BY DEF SessionsTypeOK, Issued
<1>2. ASSUME NEW r \in CodeRows
      PROVE  /\ [r EXCEPT !.consumed = TRUE] \in CodeRows /\ [r EXCEPT !.consumed = TRUE].consumed
             /\ [r EXCEPT !.expired = TRUE] \in CodeRows /\ [r EXCEPT !.expired = TRUE].consumed = r.consumed
  BY DEF CodeRows
<1>3. codes'[n] = [codes[n] EXCEPT !.consumed = TRUE] \/ codes'[n] = [codes[n] EXCEPT !.expired = TRUE]
  BY DEF SessionsTypeOK
<1>4. codes'[n] \in CodeRows /\ (codes[n].consumed => codes'[n].consumed)
  BY <1>1, <1>2, <1>3
<1>5. \A m \in CodeIds \ {n} : codes'[m] = codes[m]
  BY DEF SessionsTypeOK
<1>6. codes'[n] # NoRow
  BY <1>4 DEF CodeRows, NoRow
<1> QED BY <1>1, <1>4, <1>5, <1>6 DEF SessionsTypeOK, Issued

LEMMA MarkToken ==
  ASSUME SessionsTypeOK, NEW t \in Tokens, Minted(t),
         tokens' = [tokens EXCEPT ![t].revoked = TRUE] \/ tokens' = [tokens EXCEPT ![t].expired = TRUE]
  PROVE  /\ tokens' \in [Tokens -> TokenRows \cup {NoRow}]
         /\ \A s \in Tokens : Minted(s)' <=> Minted(s)
         /\ \A s \in Tokens : Minted(s) /\ tokens[s].revoked => tokens'[s].revoked
         /\ \A s \in Tokens : Minted(s) => tokens'[s].origin = tokens[s].origin
<1>1. tokens[t] \in TokenRows
  BY DEF SessionsTypeOK, Minted
<1>2. ASSUME NEW r \in TokenRows
      PROVE  /\ [r EXCEPT !.revoked = TRUE] \in TokenRows /\ [r EXCEPT !.revoked = TRUE].revoked
             /\ [r EXCEPT !.revoked = TRUE].origin = r.origin
             /\ [r EXCEPT !.expired = TRUE] \in TokenRows /\ [r EXCEPT !.expired = TRUE].revoked = r.revoked
             /\ [r EXCEPT !.expired = TRUE].origin = r.origin
  BY DEF TokenRows
<1>3. tokens'[t] = [tokens[t] EXCEPT !.revoked = TRUE] \/ tokens'[t] = [tokens[t] EXCEPT !.expired = TRUE]
  BY DEF SessionsTypeOK
<1>4. /\ tokens'[t] \in TokenRows /\ (tokens[t].revoked => tokens'[t].revoked)
      /\ tokens'[t].origin = tokens[t].origin
  BY <1>1, <1>2, <1>3
<1>5. \A s \in Tokens \ {t} : tokens'[s] = tokens[s]
  BY DEF SessionsTypeOK
<1>6. tokens'[t] # NoRow
  BY <1>4 DEF TokenRows, NoRow
<1> QED BY <1>1, <1>4, <1>5, <1>6 DEF SessionsTypeOK, Minted

\* What the row that a request holds is.
LEMMA HeldRow ==
  ASSUME SessionsTypeOK, HeldExists, NEW w \in Workers
  PROVE  /\ At(w, "consume") => \E n \in CodeIds : req[w].with = Code(n) /\ req[w].with.of = n /\ Issued(n)
         /\ At(w, "revoke") => \E t \in Tokens : req[w].with = Token(t) /\ req[w].with.of = t /\ Minted(t)
         /\ Holds(w) => req[w].with \in Origins
<1>1. Holds(w) => req[w] \in [at : {"consume", "revoke", "mint"}, with : Origins]
  BY DEF SessionsTypeOK, SessionReqs, Holds, Idle
<1>2. Holds(w) => req[w].with \in Origins
  BY <1>1
<1>3. At(w, "consume") => Holds(w) /\ req[w].with.kind = "code"
  BY DEF SessionsTypeOK, At, Holds
<1>4. At(w, "revoke") => Holds(w) /\ req[w].with.kind = "token"
  BY DEF SessionsTypeOK, At, Holds
<1>5. ASSUME NEW o \in Origins, o.kind = "code" PROVE \E n \in CodeIds : o = Code(n) /\ o.of = n
  BY <1>5 DEF Origins, Tickets, Login, Code, Token
<1>6. ASSUME NEW o \in Origins, o.kind = "token" PROVE \E t \in Tokens : o = Token(t) /\ o.of = t
  BY <1>6 DEF Origins, Tickets, Login, Code, Token
<1>7. At(w, "consume") => \E n \in CodeIds : req[w].with = Code(n) /\ req[w].with.of = n
  BY <1>2, <1>3, <1>5
<1>8. At(w, "revoke") => \E t \in Tokens : req[w].with = Token(t) /\ req[w].with.of = t
  BY <1>2, <1>4, <1>6
<1> QED BY <1>2, <1>3, <1>4, <1>7, <1>8 DEF HeldExists

-----------------------------------------------------------------------------
\* Every step keeps the types of the rows and of the requests.
LEMMA SessionsTypeStep ==
  ASSUME SessionsTypeOK, HeldExists, [SessionsNext]_sVars
  PROVE  SessionsTypeOK'
<1> USE SessionsAssumption
<1>0. req \in [Workers -> SessionReqs] /\ Idle \in SessionReqs /\ Login \in Origins
  BY DEF SessionsTypeOK, SessionReqs, Origins
<1>1. ASSUME NEW w \in Workers, NEW u \in Users, RequestCode(w, u) PROVE SessionsTypeOK'
  <2>1. /\ [at |-> "issue-code", user |-> u] \in SessionReqs
        /\ u \in Parents => [at |-> "create-parent", user |-> u] \in SessionReqs
    BY DEF SessionReqs
  <2> QED BY <1>1, <2>1 DEF RequestCode, Continue, Goto, sessionVars, SessionsTypeOK, At
<1>2. ASSUME NEW w \in Workers, NEW u \in Users, SignIn(w, u) PROVE SessionsTypeOK'
  <2>1. [at |-> "mint", with |-> Login] \in SessionReqs
    BY <1>0 DEF SessionReqs
  <2> QED BY <1>2, <2>1 DEF SignIn, Continue, Goto, sessionVars, SessionsTypeOK, At
<1>3. ASSUME NEW w \in Workers, CreateParent(w) PROVE SessionsTypeOK'
  <2>1. req[w].user \in Parents
    BY <1>0, <1>3 DEF CreateParent, At, SessionReqs, Idle
  <2>2. [at |-> "issue-code", user |-> req[w].user] \in SessionReqs
    BY <2>1 DEF SessionReqs, Users
  <2> DEFINE u == req[w].user
  <2>3. CASE u \in accounts
    BY <1>0, <1>3, <2>3 DEF CreateParent, Fail, Goto, SessionsTypeOK, At, Idle
  <2>4. CASE u \notin accounts
    BY <1>3, <2>1, <2>2, <2>4 DEF CreateParent, Continue, Goto, SessionsTypeOK, At
  <2> QED BY <2>3, <2>4
<1>4. ASSUME NEW w \in Workers, IssueCode(w) PROVE SessionsTypeOK'
  <2>1. req[w].user \in Users
    BY <1>0, <1>4 DEF IssueCode, At, SessionReqs, Idle
  <2>2. CodeRow(req[w].user) \in CodeRows
    BY <2>1 DEF CodeRow, CodeRows
  <2> QED BY <1>0, <1>4, <2>2 DEF IssueCode, Succeed, Goto, SessionsTypeOK, At, Idle
<1>5. ASSUME NEW w \in Workers, NEW n \in CodeIds, CheckCode(w, n) PROVE SessionsTypeOK'
  <2>1. [at |-> "consume", with |-> Code(n)] \in SessionReqs /\ Code(n).kind = "code"
    BY DEF SessionReqs, Origins, Tickets, Code
  <2> QED BY <1>5, <2>1 DEF CheckCode, Continue, Goto, sessionVars, SessionsTypeOK, At
<1>6. ASSUME NEW w \in Workers, ConsumeCode(w) PROVE SessionsTypeOK'
  <2>1. req[w].with \in Origins /\ req[w].with.of \in CodeIds /\ Issued(req[w].with.of)
    BY <1>6, HeldRow DEF ConsumeCode, At, Holds
  <2>2. codes' \in [CodeIds -> CodeRows \cup {NoRow}]
    BY <1>6, <2>1, MarkCode DEF ConsumeCode
  <2>3. [at |-> "mint", with |-> req[w].with] \in SessionReqs
    BY <2>1 DEF SessionReqs
  <2> QED BY <1>6, <2>2, <2>3 DEF ConsumeCode, Continue, Goto, SessionsTypeOK, At
<1>7. ASSUME NEW w \in Workers, NEW t \in Tokens, CheckToken(w, t) PROVE SessionsTypeOK'
  <2>1. [at |-> "revoke", with |-> Token(t)] \in SessionReqs /\ Token(t).kind = "token"
    BY DEF SessionReqs, Origins, Tickets, Token
  <2> QED BY <1>7, <2>1 DEF CheckToken, Continue, Goto, sessionVars, SessionsTypeOK, At
<1>8. ASSUME NEW w \in Workers, RevokeToken(w) PROVE SessionsTypeOK'
  <2>1. req[w].with \in Origins /\ req[w].with.of \in Tokens /\ Minted(req[w].with.of)
    BY <1>8, HeldRow DEF RevokeToken, At, Holds
  <2>2. tokens' \in [Tokens -> TokenRows \cup {NoRow}]
    BY <1>8, <2>1, MarkToken DEF RevokeToken, Revoke
  <2>3. [at |-> "mint", with |-> req[w].with] \in SessionReqs
    BY <2>1 DEF SessionReqs
  <2> QED BY <1>8, <2>2, <2>3 DEF RevokeToken, Continue, Goto, SessionsTypeOK, At
<1>9. ASSUME NEW w \in Workers, Mint(w) PROVE SessionsTypeOK'
  <2>1. req[w].with \in Origins
    BY <1>9, HeldRow DEF Mint, At, Holds
  <2>2. TokenRow(req[w].with) \in TokenRows
    BY <2>1 DEF TokenRow, TokenRows
  <2> QED BY <1>0, <1>9, <2>2 DEF Mint, Succeed, Goto, SessionsTypeOK, At, Idle
<1>10. ASSUME NEW w \in Workers, Crash(w), UNCHANGED sessionVars PROVE SessionsTypeOK'
  BY <1>0, <1>10 DEF Crash, Fail, Goto, sessionVars, SessionsTypeOK, At, Idle
<1>11. ASSUME NEW t \in Tokens, Logout(t) PROVE SessionsTypeOK'
  <2>1. tokens' \in [Tokens -> TokenRows \cup {NoRow}]
    BY <1>11, MarkToken DEF Logout, Revoke
  <2> QED BY <1>11, <2>1 DEF Logout, SessionsTypeOK, At
<1>12. ASSUME Expire PROVE SessionsTypeOK'
  <2>1. codes' \in [CodeIds -> CodeRows \cup {NoRow}] /\ tokens' \in [Tokens -> TokenRows \cup {NoRow}]
    BY <1>12, MarkCode, MarkToken DEF Expire, SessionsTypeOK
  <2> QED BY <1>12, <2>1 DEF Expire, SessionsTypeOK, At
<1>13. ASSUME UNCHANGED sVars PROVE SessionsTypeOK'
  BY <1>13 DEF sVars, sessionVars, SessionsTypeOK, At
<1> QED BY <1>1, <1>2, <1>3, <1>4, <1>5, <1>6, <1>7, <1>8, <1>9, <1>10, <1>11, <1>12, <1>13
    DEF SessionsNext, SessionStep

-----------------------------------------------------------------------------
\* The row that Mint inserts is new.
LEMMA MintNew ==
  ASSUME SessionsTypeOK, HeldExists, NEW w \in Workers, Mint(w)
  PROVE  \E t \in Tokens : /\ ~Minted(t)
                          /\ tokens' = [tokens EXCEPT ![t] = TokenRow(req[w].with)]
                          /\ TokenRow(req[w].with) # NoRow
<1>1. PICK t \in Tokens : /\ {s \in Tokens : Minted(s)} = 1..t-1
                         /\ tokens' = [tokens EXCEPT ![t] = TokenRow(req[w].with)]
  BY DEF Mint
<1>2. t \in Nat /\ t \notin 1..t-1
  BY SessionsAssumption DEF Tokens
<1>3. TokenRow(req[w].with) # NoRow
  BY DEF TokenRow, NoRow
<1> QED BY <1>1, <1>2, <1>3

\* No step removes a row or clears a mark, and only Mint adds a session.
LEMMA RowsStay ==
  ASSUME SessionsTypeOK, HeldExists, [SessionsNext]_sVars
  PROVE  /\ \A n \in CodeIds : Issued(n) => Issued(n)'
         /\ \A t \in Tokens : Minted(t) => Minted(t)'
         /\ \A x : Spent(x) => Spent(x)'
         /\ (\A w \in Workers : ~Mint(w)) => \A x : SessionsFrom(x)' = SessionsFrom(x)
<1> DEFINE Goal ==
      /\ \A n \in CodeIds : Issued(n) => Issued(n)'
      /\ \A t \in Tokens : Minted(t) => Minted(t)'
      /\ \A x : Spent(x) => Spent(x)'
      /\ (\A w \in Workers : ~Mint(w)) => \A x : SessionsFrom(x)' = SessionsFrom(x)
<1> USE SessionsAssumption
<1>1. ASSUME UNCHANGED <<codes, tokens>> PROVE Goal
  BY <1>1 DEF Issued, Minted, Spent, SessionsFrom
<1>2. ASSUME NEW n \in CodeIds, Issued(n), UNCHANGED tokens,
             codes' = [codes EXCEPT ![n].consumed = TRUE] \/ codes' = [codes EXCEPT ![n].expired = TRUE]
      PROVE  Goal
  <2>1. /\ \A m \in CodeIds : Issued(m)' <=> Issued(m)
        /\ \A m \in CodeIds : Issued(m) /\ codes[m].consumed => codes'[m].consumed
    BY <1>2, MarkCode
  <2> QED BY <1>2, <2>1 DEF Minted, Spent, SessionsFrom
<1>3. ASSUME NEW t \in Tokens, Minted(t), UNCHANGED codes,
             tokens' = [tokens EXCEPT ![t].revoked = TRUE] \/ tokens' = [tokens EXCEPT ![t].expired = TRUE]
      PROVE  Goal
  <2>1. /\ \A s \in Tokens : Minted(s)' <=> Minted(s)
        /\ \A s \in Tokens : Minted(s) /\ tokens[s].revoked => tokens'[s].revoked
        /\ \A s \in Tokens : Minted(s) => tokens'[s].origin = tokens[s].origin
    BY <1>3, MarkToken
  <2>2. \A x : SessionsFrom(x)' = SessionsFrom(x)
    BY <2>1 DEF SessionsFrom
  <2> QED BY <1>3, <2>1, <2>2 DEF Issued, Spent
<1>4. ASSUME NEW w \in Workers, IssueCode(w) PROVE Goal
  <2>1. PICK n \in CodeIds : /\ {m \in CodeIds : Issued(m)} = 1..n-1
                            /\ codes' = [codes EXCEPT ![n] = CodeRow(req[w].user)]
    BY <1>4 DEF IssueCode
  <2>2. ~Issued(n)
    BY <2>1 DEF CodeIds
  <2>3. CodeRow(req[w].user) # NoRow
    BY DEF CodeRow, NoRow
  <2>4. \A m \in CodeIds : Issued(m) => codes'[m] = codes[m]
    BY <2>1, <2>2 DEF SessionsTypeOK
  <2>5. \A m \in CodeIds : Issued(m) => Issued(m)'
    BY <2>4 DEF Issued
  <2> QED BY <1>4, <2>4, <2>5 DEF IssueCode, Minted, Spent, SessionsFrom
<1>5. ASSUME NEW w \in Workers, Mint(w) PROVE Goal
  <2>1. PICK t \in Tokens : /\ ~Minted(t) /\ tokens' = [tokens EXCEPT ![t] = TokenRow(req[w].with)]
                           /\ TokenRow(req[w].with) # NoRow
    BY <1>5, MintNew
  <2>2. \A s \in Tokens : Minted(s) => tokens'[s] = tokens[s]
    BY <2>1 DEF SessionsTypeOK
  <2>3. \A s \in Tokens : Minted(s) => Minted(s)'
    BY <2>2 DEF Minted
  <2> QED BY <1>5, <2>2, <2>3 DEF Mint, Issued, Spent
<1>6. ASSUME NEW w \in Workers, ConsumeCode(w) PROVE Goal
  <2>1. req[w].with.of \in CodeIds /\ Issued(req[w].with.of)
    BY <1>6, HeldRow DEF ConsumeCode
  <2> QED BY <1>2, <1>6, <2>1 DEF ConsumeCode
<1>7. ASSUME NEW w \in Workers, RevokeToken(w) PROVE Goal
  <2>1. req[w].with.of \in Tokens /\ Minted(req[w].with.of)
    BY <1>7, HeldRow DEF RevokeToken
  <2> QED BY <1>3, <1>7, <2>1 DEF RevokeToken, Revoke
<1>8. ASSUME NEW t \in Tokens, Logout(t) PROVE Goal
  BY <1>3, <1>8 DEF Logout, Revoke
<1>9. ASSUME Expire PROVE Goal
  BY <1>2, <1>3, <1>9 DEF Expire
<1>10. ASSUME NEW w \in Workers,
              \/ \E u \in Users : RequestCode(w, u) \/ SignIn(w, u)
              \/ CreateParent(w) \/ (\E n \in CodeIds : CheckCode(w, n))
              \/ (\E t \in Tokens : CheckToken(w, t)) \/ (Crash(w) /\ UNCHANGED sessionVars)
       PROVE  Goal
  BY <1>1, <1>10 DEF RequestCode, SignIn, CreateParent, CheckCode, CheckToken, sessionVars
<1>11. ASSUME UNCHANGED sVars PROVE Goal
  BY <1>1, <1>11 DEF sVars, sessionVars
<1> QED BY <1>4, <1>5, <1>6, <1>7, <1>8, <1>9, <1>10, <1>11 DEF SessionsNext, SessionStep

-----------------------------------------------------------------------------
\* A request holds a ticket because it held it before, because it signs in with
\* a password, or because it has just checked the row.
LEMMA HolderStep ==
  ASSUME SessionsTypeOK, HeldExists, [SessionsNext]_sVars, NEW v \in Workers, Holds(v)'
  PROVE  \/ Holds(v) /\ req'[v].with = req[v].with
         \/ req'[v].with = Login
         \/ \E n \in CodeIds : CheckCode(v, n) /\ Issued(n) /\ req'[v].with = Code(n)
         \/ \E t \in Tokens : CheckToken(v, t) /\ Minted(t) /\ req'[v].with = Token(t)
<1> DEFINE Goal ==
         \/ Holds(v) /\ req'[v].with = req[v].with
         \/ req'[v].with = Login
         \/ \E n \in CodeIds : CheckCode(v, n) /\ Issued(n) /\ req'[v].with = Code(n)
         \/ \E t \in Tokens : CheckToken(v, t) /\ Minted(t) /\ req'[v].with = Token(t)
<1>0. req \in [Workers -> SessionReqs]
  BY DEF SessionsTypeOK
<1>1. ASSUME UNCHANGED req PROVE Goal
  BY <1>1 DEF Holds
<1>2. ASSUME NEW w \in Workers, NEW r, req' = [req EXCEPT ![w] = r],
             r.at \notin {"consume", "revoke", "mint"}
      PROVE  Goal
  BY <1>0, <1>2 DEF Holds
<1>3. ASSUME NEW w \in Workers, NEW u \in Users, RequestCode(w, u) PROVE Goal
  <2>1. CASE u \in Parents \ accounts
    BY <1>2, <1>3, <2>1 DEF RequestCode, Continue, Goto
  <2>2. CASE u \notin Parents \ accounts
    BY <1>2, <1>3, <2>2 DEF RequestCode, Continue, Goto
  <2> QED BY <2>1, <2>2
<1>4. ASSUME NEW w \in Workers, NEW u \in Users, SignIn(w, u) PROVE Goal
  BY <1>0, <1>4 DEF SignIn, Continue, Goto, Holds
<1>5. ASSUME NEW w \in Workers, CreateParent(w) PROVE Goal
  BY <1>2, <1>5 DEF CreateParent, Continue, Fail, Goto, Idle
<1>6. ASSUME NEW w \in Workers, IssueCode(w) \/ Mint(w) \/ Crash(w) PROVE Goal
  BY <1>2, <1>6 DEF IssueCode, Mint, Crash, Succeed, Fail, Goto, Idle
<1>7. ASSUME NEW w \in Workers, NEW n \in CodeIds, CheckCode(w, n) PROVE Goal
  BY <1>0, <1>7 DEF CheckCode, Candidate, Usable, Continue, Goto, Holds
<1>8. ASSUME NEW w \in Workers, NEW t \in Tokens, CheckToken(w, t) PROVE Goal
  BY <1>0, <1>8 DEF CheckToken, Continue, Goto, Holds
<1>9. ASSUME NEW w \in Workers, ConsumeCode(w) \/ RevokeToken(w) PROVE Goal
  BY <1>0, <1>9 DEF ConsumeCode, RevokeToken, Continue, Goto, Holds, At
<1>10. ASSUME NEW t \in Tokens, Logout(t) PROVE Goal
  BY <1>1, <1>10 DEF Logout
<1>11. ASSUME Expire \/ UNCHANGED sVars PROVE Goal
  BY <1>1, <1>11 DEF Expire, sVars
<1> QED BY <1>3, <1>4, <1>5, <1>6, <1>7, <1>8, <1>9, <1>10, <1>11
    DEF SessionsNext, SessionStep

LEMMA HeldExistsStep ==
  ASSUME SessionsTypeOK, HeldExists, [SessionsNext]_sVars
  PROVE  HeldExists'
<1> SUFFICES ASSUME NEW v \in Workers, Holds(v)'
             PROVE  /\ \A n \in CodeIds : req'[v].with = Code(n) => Issued(n)'
                    /\ \A t \in Tokens : req'[v].with = Token(t) => Minted(t)'
  BY DEF HeldExists
<1>1. /\ \A n \in CodeIds : Issued(n) => Issued(n)'
      /\ \A t \in Tokens : Minted(t) => Minted(t)'
  BY RowsStay
<1>2. \A n, m : Code(n) = Code(m) => n = m
  BY DEF Code
<1>3. \A t, s : Token(t) = Token(s) => t = s
  BY DEF Token
<1>4. \A n, t : Code(n) # Token(t) /\ Login # Code(n) /\ Login # Token(t)
  BY DEF Code, Token, Login
<1>5. CASE Holds(v) /\ req'[v].with = req[v].with
  BY <1>1, <1>5 DEF HeldExists
<1>6. CASE req'[v].with = Login
  BY <1>4, <1>6
<1>7. CASE \E n \in CodeIds : Issued(n) /\ req'[v].with = Code(n)
  BY <1>1, <1>2, <1>4, <1>7
<1>8. CASE \E t \in Tokens : Minted(t) /\ req'[v].with = Token(t)
  BY <1>1, <1>3, <1>4, <1>8
<1> QED BY <1>5, <1>6, <1>7, <1>8, HolderStep

-----------------------------------------------------------------------------
\* A request that minted, or is about to, has marked its ticket.
LEMMA MarkedFirstStep ==
  ASSUME SessionsTypeOK, HeldExists, MarkedFirst, [SessionsNext]_sVars
  PROVE  MarkedFirst'
<1> DEFINE Unminted(x) == SessionsFrom(x) = {} /\ \A w \in Workers : At(w, "mint") => req[w].with # x
<1> SUFFICES ASSUME NEW x \in Tickets, ~Spent(x)' PROVE Unminted(x)'
  BY DEF MarkedFirst
<1>0. req \in [Workers -> SessionReqs]
  BY DEF SessionsTypeOK
<1>1. ~Spent(x) /\ Unminted(x)
  BY RowsStay DEF MarkedFirst
<1>2. (\A w \in Workers : ~Mint(w)) => SessionsFrom(x)' = {}
  BY <1>1, RowsStay
<1>3. ASSUME NEW w \in Workers, Mint(w) PROVE Unminted(x)'
  <2>1. PICK t \in Tokens : tokens' = [tokens EXCEPT ![t] = TokenRow(req[w].with)]
    BY <1>3, MintNew
  <2>2. req[w].with # x /\ TokenRow(req[w].with).origin # x
    BY <1>1, <1>3 DEF Mint, TokenRow
  <2>3. SessionsFrom(x)' = {}
    BY <1>1, <2>1, <2>2 DEF SessionsFrom, SessionsTypeOK, Minted
  <2>4. \A v \in Workers : At(v, "mint")' => req'[v] = req[v]
    BY <1>0, <1>3 DEF Mint, Succeed, Goto, At, Idle
  <2> QED BY <1>1, <2>3, <2>4 DEF At
<1>4. ASSUME NEW w \in Workers, NEW u \in Users, SignIn(w, u) PROVE Unminted(x)'
  <2>1. x # Login
    BY DEF Tickets, Code, Token, Login
  <2>2. SessionsFrom(x)' = {}
    BY <1>1, <1>4 DEF SignIn, sessionVars, SessionsFrom, Minted
  <2> QED BY <1>0, <1>1, <1>4, <2>1, <2>2 DEF SignIn, Continue, Goto, At
<1>5. ASSUME NEW w \in Workers, ConsumeCode(w) PROVE Unminted(x)'
  <2>1. PICK n \in CodeIds : req[w].with = Code(n) /\ req[w].with.of = n /\ Issued(n)
    BY <1>5, HeldRow DEF ConsumeCode
  <2>2. Issued(n)' /\ codes'[n].consumed
    <3>1. Issued(n)'
      BY <2>1, RowsStay
    <3>2. codes[n] \in CodeRows
      BY <2>1 DEF Issued, SessionsTypeOK
    <3>3. \A r \in CodeRows : [r EXCEPT !.consumed = TRUE].consumed
      BY DEF CodeRows
    <3>4. codes'[n] = [codes[n] EXCEPT !.consumed = TRUE]
      BY <1>5, <2>1 DEF ConsumeCode, SessionsTypeOK
    <3> QED BY <3>1, <3>2, <3>3, <3>4
  <2>3. x # req[w].with
    BY <2>1, <2>2 DEF Spent
  <2>4. SessionsFrom(x)' = {}
    BY <1>1, <1>5 DEF ConsumeCode, SessionsFrom, Minted
  <2> QED BY <1>0, <1>1, <1>5, <2>3, <2>4 DEF ConsumeCode, Continue, Goto, At
<1>6. ASSUME NEW w \in Workers, RevokeToken(w) PROVE Unminted(x)'
  <2>1. PICK t \in Tokens : req[w].with = Token(t) /\ req[w].with.of = t /\ Minted(t)
    BY <1>6, HeldRow DEF RevokeToken
  <2>2. Minted(t)' /\ tokens'[t].revoked
    <3>1. Minted(t)'
      BY <2>1, RowsStay
    <3>2. tokens[t] \in TokenRows
      BY <2>1 DEF Minted, SessionsTypeOK
    <3>3. \A r \in TokenRows : [r EXCEPT !.revoked = TRUE].revoked
      BY DEF TokenRows
    <3>4. tokens'[t] = [tokens[t] EXCEPT !.revoked = TRUE]
      BY <1>6, <2>1 DEF RevokeToken, Revoke, SessionsTypeOK
    <3> QED BY <3>1, <3>2, <3>3, <3>4
  <2>3. x # req[w].with
    BY <2>1, <2>2 DEF Spent
  <2>4. (\A v \in Workers : ~Mint(v)) => SessionsFrom(x)' = {}
    BY <1>2
  <2>5. \A v \in Workers : At(v, "mint")' => req'[v].with # x
    BY <1>0, <1>1, <1>6, <2>3 DEF RevokeToken, Continue, Goto, At
  <2>6. CASE \A v \in Workers : ~Mint(v)
    BY <2>4, <2>5, <2>6
  <2> QED BY <1>3, <2>6
<1>7. ASSUME NEW w \in Workers,
             \/ \E u \in Users : RequestCode(w, u)
             \/ CreateParent(w) \/ IssueCode(w) \/ (\E n \in CodeIds : CheckCode(w, n))
             \/ (\E t \in Tokens : CheckToken(w, t)) \/ (Crash(w) /\ UNCHANGED sessionVars)
      PROVE  Unminted(x)'
  <2>1. \A v \in Workers : At(v, "mint")' => req'[v] = req[v]
    BY <1>0, <1>7 DEF RequestCode, CreateParent, IssueCode, CheckCode, CheckToken, Crash,
         Continue, Succeed, Fail, Goto, At, Idle
  <2>2. CASE \A v \in Workers : ~Mint(v)
    BY <1>1, <1>2, <2>1, <2>2 DEF At
  <2> QED BY <1>3, <2>2
<1>8. ASSUME (\E t \in Tokens : Logout(t)) \/ Expire \/ UNCHANGED sVars PROVE Unminted(x)'
  <2>1. req' = req
    BY <1>8 DEF Logout, Expire, sVars
  <2>2. CASE \A v \in Workers : ~Mint(v)
    BY <1>1, <1>2, <2>1, <2>2 DEF At
  <2> QED BY <1>3, <2>2
<1> QED BY <1>3, <1>4, <1>5, <1>6, <1>7, <1>8 DEF SessionsNext, SessionStep

\* A check adds one user of a ticket that has no session yet, and Mint turns a
\* user into a session.
LEMMA UsedOnceStep ==
  ASSUME SessionsInv, [SessionsNext]_sVars
  PROVE  UsedOnce'
<1> SUFFICES ASSUME NEW x \in Tickets
             PROVE  Cardinality(SessionsFrom(x)') + Cardinality(Using(x)') <= Cardinality(Workers)
  BY DEF UsedOnce
<1>0. SessionsTypeOK /\ SessionsTypeOK' /\ HeldExists /\ req \in [Workers -> SessionReqs]
  BY SessionsTypeStep DEF SessionsInv, SessionsTypeOK
<1>1. /\ IsFiniteSet(SessionsFrom(x)) /\ IsFiniteSet(Using(x))
      /\ Cardinality(SessionsFrom(x)) \in Nat /\ Cardinality(Using(x)) \in Nat
      /\ Cardinality(Workers) \in Nat
  BY <1>0, UsesFinite
<1>2. /\ IsFiniteSet(Using(x)') /\ Using(x)' \subseteq Workers
      /\ Cardinality(Using(x)') \in Nat /\ Cardinality(Using(x)') <= Cardinality(Workers)
  <2>1. IsFiniteSet(Workers) /\ Using(x)' \subseteq Workers
    BY RequestsAssumption DEF Using
  <2> QED BY <2>1, FS_Subset, FS_CardinalityType
<1>3. Cardinality(SessionsFrom(x)) + Cardinality(Using(x)) <= Cardinality(Workers)
  BY DEF SessionsInv, UsedOnce
<1>4. ASSUME NEW w \in Workers, Mint(w)
      PROVE  Cardinality(SessionsFrom(x)') + Cardinality(Using(x)') <= Cardinality(Workers)
  <2>1. PICK t \in Tokens : /\ ~Minted(t) /\ tokens' = [tokens EXCEPT ![t] = TokenRow(req[w].with)]
                           /\ TokenRow(req[w].with) # NoRow
    BY <1>0, <1>4, MintNew
  <2>2. t \notin SessionsFrom(x)
    BY <2>1 DEF SessionsFrom
  <2>3. TokenRow(req[w].with).origin = req[w].with
    BY DEF TokenRow
  <2>4. CASE req[w].with = x
    <3>1. SessionsFrom(x)' = SessionsFrom(x) \cup {t}
      BY <1>0, <2>1, <2>3, <2>4 DEF SessionsFrom, Minted, SessionsTypeOK
    <3>2. Using(x)' = Using(x) \ {w} /\ w \in Using(x)
      BY <1>0, <1>4, <2>4 DEF Mint, Succeed, Goto, Using, At, Idle
    <3>3. Cardinality(SessionsFrom(x)') = Cardinality(SessionsFrom(x)) + 1
      BY <1>1, <2>2, <3>1, FS_AddElement
    <3>4. Cardinality(Using(x)') = Cardinality(Using(x)) - 1
      BY <1>1, <3>2, FS_RemoveElement
    <3> QED BY <1>1, <1>3, <3>3, <3>4
  <2>5. CASE req[w].with # x
    <3>1. SessionsFrom(x)' = SessionsFrom(x)
      BY <1>0, <2>1, <2>2, <2>3, <2>5 DEF SessionsFrom, Minted, SessionsTypeOK
    <3>2. Using(x)' = Using(x)
      BY <1>0, <1>4, <2>5 DEF Mint, Succeed, Goto, Using, At, Idle
    <3> QED BY <1>3, <3>1, <3>2
  <2> QED BY <2>4, <2>5
<1>5. CASE /\ \A w \in Workers : ~Mint(w)
           /\ Using(x)' \subseteq Using(x)
  <2>1. SessionsFrom(x)' = SessionsFrom(x)
    BY <1>0, <1>5, RowsStay
  <2>2. Cardinality(Using(x)') <= Cardinality(Using(x))
    BY <1>1, <1>5, FS_Subset
  <2> QED BY <1>1, <1>2, <1>3, <2>1, <2>2
<1>6. CASE /\ \A w \in Workers : ~Mint(w)
           /\ ~Spent(x)
  <2>1. SessionsFrom(x)' = {}
    BY <1>0, <1>6, RowsStay DEF SessionsInv, MarkedFirst
  <2> QED BY <1>2, <2>1, FS_EmptySet
<1>7. ASSUME NEW v \in Workers, v \in Using(x)', v \notin Using(x) PROVE ~Spent(x)
  <2>1. Holds(v)' /\ req'[v].with = x
    BY <1>7 DEF Using, Holds
  <2>2. ~(Holds(v) /\ req'[v].with = req[v].with)
    BY <1>7, <2>1 DEF Using, Holds
  <2>3. x # Login
    BY DEF Tickets, Code, Token, Login
  <2>4. ASSUME NEW n \in CodeIds, CheckCode(v, n), x = Code(n) PROVE ~Spent(x)
    BY <2>4 DEF CheckCode, Candidate, Usable, Spent, Code, Token
  <2>5. ASSUME NEW t \in Tokens, CheckToken(v, t), x = Token(t) PROVE ~Spent(x)
    BY <2>5 DEF CheckToken, Spent, Code, Token
  <2> QED BY <1>0, <2>1, <2>2, <2>3, <2>4, <2>5, HolderStep
<1>8. Using(x)' \subseteq Using(x) \/ ~Spent(x)
  BY <1>2, <1>7
<1> QED BY <1>4, <1>5, <1>6, <1>8

-----------------------------------------------------------------------------
\* The inductive invariant of signing in.
THEOREM SessionsInductive == SessionsSpec => []SessionsInv
<1>1. SessionsInv /\ [SessionsNext]_sVars => SessionsInv'
  BY SessionsTypeStep, HeldExistsStep, MarkedFirstStep, UsedOnceStep DEF SessionsInv
<1> QED BY <1>1, SessionsInit0, PTL DEF SessionsSpec, sVars

\* A code or a token gives at most one session for each request that is served
\* at once (auth.routes.ts:206 and 212, otp.ts:21 and 27).
THEOREM SessionsPerTicket == SessionsSpec => [](SessionsTypeOK /\ UsedOnce)
<1>1. SessionsInv => SessionsTypeOK /\ UsedOnce
  BY DEF SessionsInv
<1> QED BY <1>1, SessionsInductive, PTL

-----------------------------------------------------------------------------
(* The session on a phone.                                                  *)

Writes == [writes : {Nobody} \cup OwnSessions, done : BOOLEAN]

\* The calls of SecureStore are executed in their order, and the disk holds what
\* the latest of those that were executed has written.
InOrder(q)   == \A i \in 1..Len(q) : \A j \in 1..i-1 : q[i].done => q[j].done
Latest(q, d) == \A i \in 1..Len(q) :
                  q[i].done /\ (i = Len(q) \/ ~q[i+1].done) => d = q[i].writes
\* None of them was executed.
Untouched(q) == q = <<>> \/ ~q[1].done

\* Before SecureStore is read the app has nothing; after that the disk holds the
\* session in memory, or below the support session, up to what was executed since.
HasNothing == /\ session = Nobody /\ backup = NoBackup /\ store = <<>>
              /\ \A c \in Calls : call[c] = NoCall
DiskAgrees == hydrated /\ ~apart /\ Untouched(store) => disk = Underneath

PhoneInv ==
  /\ PhoneTypeOK /\ BannerTells
  /\ InOrder(store) /\ Latest(store, disk)
  /\ ~hydrated => HasNothing
  /\ backup # NoBackup => apart \/ session \notin OwnSessions
  /\ DiskAgrees

\* A call of the app is added at the end.
LEMMA StoreGrows ==
  ASSUME NEW q \in Seq(Writes), NEW s \in {Nobody} \cup OwnSessions, NEW d,
         InOrder(q), Latest(q, d)
  PROVE  LET r == Append(q, Write(s)) IN
         /\ r \in Seq(Writes) /\ InOrder(r) /\ Latest(r, d)
         /\ Untouched(r) => Untouched(q)
<1> DEFINE r == Append(q, Write(s))
<1>1. Write(s) \in Writes /\ ~Write(s).done
  BY DEF Write, Writes
<1>2. /\ r \in Seq(Writes) /\ Len(r) = Len(q) + 1 /\ Len(q) \in Nat /\ r[Len(q) + 1] = Write(s)
      /\ \A i \in 1..Len(q) : r[i] = q[i]
  BY <1>1, AppendProperties, LenProperties
<1> HIDE DEF r
<1>3. InOrder(r)
  BY <1>1, <1>2 DEF InOrder
<1>4. Latest(r, d)
  <2> SUFFICES ASSUME NEW i \in 1..Len(r), r[i].done, i = Len(r) \/ ~r[i+1].done
               PROVE  d = r[i].writes
    BY DEF Latest
  <2>1. i \in 1..Len(q) /\ r[i] = q[i]
    BY <1>1, <1>2
  <2>2. i = Len(q) \/ ~q[i+1].done
    BY <1>2, <2>1
  <2> QED BY <2>1, <2>2 DEF Latest
<1>5. Untouched(r) => Untouched(q)
  <2> SUFFICES ASSUME q # <<>>, Untouched(r) PROVE ~q[1].done
    BY DEF Untouched
  <2>1. Len(q) > 0 /\ r # <<>>
    BY <1>2, EmptySeq
  <2> QED BY <1>2, <2>1 DEF Untouched
<1> QED BY <1>2, <1>3, <1>4, <1>5 DEF r

\* The app hears of the first call.
LEMMA StoreShrinks ==
  ASSUME NEW q \in Seq(Writes), q # <<>>, NEW d, InOrder(q), Latest(q, d)
  PROVE  /\ Tail(q) \in Seq(Writes) /\ InOrder(Tail(q)) /\ Latest(Tail(q), d)
         /\ q[1].done /\ Untouched(Tail(q)) => d = q[1].writes
<1> DEFINE r == Tail(q)
<1>1. /\ r \in Seq(Writes) /\ Len(r) = Len(q) - 1 /\ Len(q) \in Nat \ {0}
      /\ \A i \in 1..Len(r) : r[i] = q[i+1]
  BY HeadTailProperties, EmptySeq
<1> HIDE DEF r
<1>2. InOrder(r)
  <2> SUFFICES ASSUME NEW i \in 1..Len(r), NEW j \in 1..i-1, r[i].done PROVE r[j].done
    BY DEF InOrder
  <2>1. i + 1 \in 1..Len(q) /\ j + 1 \in 1..(i+1)-1 /\ r[i] = q[i+1] /\ r[j] = q[j+1]
    BY <1>1
  <2> QED BY <2>1 DEF InOrder
<1>3. Latest(r, d)
  <2> SUFFICES ASSUME NEW i \in 1..Len(r), r[i].done, i = Len(r) \/ ~r[i+1].done
               PROVE  d = r[i].writes
    BY DEF Latest
  <2>1. i + 1 \in 1..Len(q) /\ r[i] = q[i+1] /\ (i + 1 = Len(q) \/ ~q[(i+1)+1].done)
    BY <1>1
  <2> QED BY <2>1 DEF Latest
<1>4. ASSUME q[1].done, Untouched(r) PROVE d = q[1].writes
  <2>1. CASE r = <<>>
    <3>1. Len(q) = 1
      BY <1>1, <2>1, EmptySeq
    <3> QED BY <1>4, <3>1 DEF Latest
  <2>2. CASE r # <<>>
    <3>1. 1 \in 1..Len(r) /\ r[1] = q[2]
      BY <1>1, <2>2, EmptySeq
    <3>2. ~q[2].done /\ 1 \in 1..Len(q)
      BY <1>1, <1>4, <2>2, <3>1 DEF Untouched
    <3> QED BY <1>4, <3>2 DEF Latest
  <2> QED BY <2>1, <2>2
<1> QED BY <1>1, <1>2, <1>3, <1>4 DEF r

\* SecureStore executes the first call that it has not.
LEMMA StoreAdvances ==
  ASSUME NEW q \in Seq(Writes), InOrder(q), NEW i \in 1..Len(q),
         ~q[i].done, \A j \in 1..i-1 : q[j].done
  PROVE  LET r == [q EXCEPT ![i].done = TRUE] IN
         /\ r \in Seq(Writes) /\ InOrder(r) /\ Latest(r, q[i].writes) /\ ~Untouched(r)
<1> DEFINE r == [q EXCEPT ![i].done = TRUE]
<1>1. q[i] \in Writes /\ Len(q) \in Nat
  BY ElementOfSeq, LenProperties
<1> DEFINE e == [q[i] EXCEPT !.done = TRUE]
<1>2. e \in Writes /\ e.done /\ e.writes = q[i].writes
  BY <1>1 DEF Writes
<1>3. r = [q EXCEPT ![i] = e]
  OBVIOUS
<1>4. /\ r \in Seq(Writes) /\ Len(r) = Len(q)
      /\ \A j \in 1..Len(q) : r[j] = IF j = i THEN e ELSE q[j]
  BY <1>2, <1>3, ExceptSeq
<1> HIDE DEF r, e
<1>5. InOrder(r)
  <2> SUFFICES ASSUME NEW k \in 1..Len(r), NEW j \in 1..k-1, r[k].done PROVE r[j].done
    BY DEF InOrder
  <2>1. k \in 1..Len(q) /\ j \in 1..Len(q) /\ i \in Nat /\ k \in Nat /\ j \in Nat
    BY <1>1, <1>4
  <2>2. CASE j = i
    BY <2>1, <2>2, <1>2, <1>4
  <2>3. CASE k = i /\ j # i
    BY <2>1, <2>3, <1>4
  <2>4. CASE k # i /\ j # i
    BY <2>1, <2>4, <1>4 DEF InOrder
  <2> QED BY <2>2, <2>3, <2>4
<1>6. Latest(r, q[i].writes)
  <2> SUFFICES ASSUME NEW k \in 1..Len(r), r[k].done, k = Len(r) \/ ~r[k+1].done
               PROVE  q[i].writes = r[k].writes
    BY DEF Latest
  <2>1. k \in 1..Len(q) /\ k \in Nat /\ i \in Nat
    BY <1>4
  <2>2. CASE k > i
    <3>1. q[k].done /\ i \in 1..k-1
      BY <1>4, <2>1, <2>2
    <3> QED BY <2>1, <3>1 DEF InOrder
  <2>3. CASE k < i
    <3>1. k + 1 \in 1..Len(q) /\ k # Len(r) /\ r[k+1].done
      BY <1>1, <1>2, <1>4, <2>1, <2>3
    <3> QED BY <3>1
  <2>4. CASE k = i
    BY <1>2, <1>4, <2>1, <2>4
  <2> QED BY <2>1, <2>2, <2>3, <2>4
<1>7. ~Untouched(r)
  <2>1. 1 \in 1..Len(q) /\ r # <<>>
    BY <1>1, <1>4, EmptySeq
  <2>2. r[1].done
    BY <1>1, <1>2, <1>4, <2>1
  <2> QED BY <2>1, <2>2 DEF Untouched
<1> QED BY <1>4, <1>5, <1>6, <1>7 DEF r

\* The kinds of session are different.
LEMMA Kinds ==
  /\ Nobody \notin OwnSessions
  /\ \A n : Support(n) \notin OwnSessions /\ Support(n) # Nobody
  /\ \A n, m : Support(n) = Support(m) => n = m
  /\ \A s, n : Backup(s, n) # NoBackup /\ Backup(s, n).session = s /\ Backup(s, n).until = n
  BY DEF Nobody, OwnSessions, Own, Support, Backup, NoBackup

\* What lies under the session of a well-typed state, and what a backup holds.
LEMMA BackupHolds ==
  ASSUME PhoneTypeOK, backup # NoBackup
  PROVE  backup.session \in OwnSessions
  BY Kinds DEF PhoneTypeOK

\* A call that was answered was made by the running app.
LEMMA CallsAreMade ==
  ASSUME PhoneInv, NEW c \in Calls, call[c] # NoCall
  PROVE  hydrated
  BY DEF PhoneInv, HasNothing

\* Steps that neither memory nor disk nor SecureStore's queue sees.
LEMMA CallsStep ==
  ASSUME PhoneInv, UNCHANGED <<memoryVars, disk, store, apart>>, PhoneTypeOK',
         ~hydrated => \A c \in Calls : call'[c] = NoCall
  PROVE  PhoneInv'
  BY DEF PhoneInv, BannerTells, InOrder, Latest, HasNothing, DiskAgrees, Untouched,
     Underneath, memoryVars

\* Steps that only ask SecureStore to write.
LEMMA WriteStep ==
  ASSUME PhoneInv, hydrated, NEW s \in {Nobody} \cup OwnSessions, Waits(Write(s)),
         UNCHANGED <<memoryVars, disk, apart>>, PhoneTypeOK'
  PROVE  PhoneInv'
<1>1. /\ InOrder(store') /\ Latest(store', disk)
      /\ Untouched(store') => Untouched(store)
  <2>1. store \in Seq(Writes) /\ InOrder(store) /\ Latest(store, disk)
    BY DEF PhoneInv, PhoneTypeOK, Writes
  <2> QED BY <2>1, StoreGrows DEF Waits
<1>2. InOrder(store)' /\ Latest(store, disk)' /\ (Untouched(store)' => Untouched(store))
  BY <1>1
<1> QED BY <1>2 DEF PhoneInv, BannerTells, DiskAgrees, Underneath, memoryVars

\* The support session ends.
LEMMA EndStep ==
  ASSUME PhoneInv, hydrated, EndImpersonation,
         UNCHANGED <<hydrated, disk, store, apart>>, PhoneTypeOK'
  PROVE  PhoneInv'
<1>1. session' \in OwnSessions /\ backup' = NoBackup /\ Underneath' = Underneath
  BY BackupHolds DEF PhoneInv, EndImpersonation, Underneath
<1>2. BannerTells'
  BY <1>1, Kinds DEF BannerTells
<1>3. InOrder(store)' /\ Latest(store, disk)' /\ (Untouched(store)' = Untouched(store))
  BY DEF PhoneInv, InOrder, Latest, Untouched
<1> QED BY <1>1, <1>2, <1>3 DEF PhoneInv, DiskAgrees

\* A support session begins, or there is no session of one's own to begin it from.
LEMMA SupportStep ==
  ASSUME PhoneInv, hydrated, opened < MaxSupport, opened' = opened + 1,
         StartImpersonation(opened'), UNCHANGED <<hydrated, disk, store, apart>>, PhoneTypeOK'
  PROVE  PhoneInv'
<1>1. CASE session \in OwnSessions
  <2>1. session' = Support(opened') /\ backup' = Backup(session, opened')
    BY <1>1 DEF StartImpersonation
  <2>2. ~apart => Underneath' = Underneath
    BY <1>1, <2>1, Kinds DEF PhoneInv, Underneath
  <2>3. BannerTells' /\ session' \notin OwnSessions
    BY <2>1, Kinds DEF BannerTells
  <2>4. InOrder(store)' /\ Latest(store, disk)' /\ (Untouched(store)' = Untouched(store))
    BY DEF PhoneInv, InOrder, Latest, Untouched
  <2> QED BY <2>2, <2>3, <2>4 DEF PhoneInv, DiskAgrees
<1>2. CASE session \notin OwnSessions
  <2>1. UNCHANGED <<session, backup>>
    BY <1>2 DEF StartImpersonation
  <2> QED BY <2>1 DEF PhoneInv, BannerTells, InOrder, Latest, DiskAgrees, Untouched, Underneath
<1> QED BY <1>1, <1>2

\* SecureStore and the start and end of the app.
LEMMA StoreStep ==
  ASSUME PhoneInv, StoreExecutes \/ StoreFails \/ StoreAnswers \/ Hydrate \/ AppEnds, PhoneTypeOK'
  PROVE  PhoneInv'
<1>0. store \in Seq(Writes) /\ InOrder(store) /\ Latest(store, disk)
  BY DEF PhoneInv, PhoneTypeOK, Writes
<1>1. CASE StoreExecutes
  <2>1. PICK i \in 1..Len(store) :
          /\ ~store[i].done /\ \A j \in 1..i-1 : store[j].done
          /\ disk' = store[i].writes /\ store' = [store EXCEPT ![i].done = TRUE]
    BY <1>1 DEF StoreExecutes
  <2>2. InOrder(store') /\ Latest(store', disk') /\ ~Untouched(store')
    BY <1>0, <2>1, StoreAdvances
  <2>3. store # <<>>
    BY <2>1, EmptySeq
  <2>4. hydrated
    BY <2>3 DEF PhoneInv, HasNothing
  <2>5. InOrder(store)' /\ Latest(store, disk)' /\ ~Untouched(store)'
    BY <2>2
  <2> QED BY <1>1, <2>4, <2>5
      DEF StoreExecutes, PhoneInv, BannerTells, DiskAgrees, memoryVars
<1>2. CASE StoreFails
  <2>1. store # <<>> /\ store' = Tail(store) /\ Untouched(store) /\ UNCHANGED <<memoryVars, disk, apart>>
    BY <1>2 DEF StoreFails, Untouched
  <2>2. InOrder(store') /\ Latest(store', disk)
    BY <1>0, <2>1, StoreShrinks
  <2>3. InOrder(store)' /\ Latest(store, disk)' /\ hydrated
    BY <2>1, <2>2 DEF PhoneInv, HasNothing
  <2> QED BY <2>1, <2>3 DEF PhoneInv, BannerTells, DiskAgrees, Underneath, memoryVars
<1>3. CASE StoreAnswers
  <2>1. /\ store # <<>> /\ store[1].done /\ store' = Tail(store)
        /\ session' = store[1].writes /\ apart' = (backup' # NoBackup)
        /\ UNCHANGED <<hydrated, disk>>
    BY <1>3 DEF StoreAnswers
  <2>2. InOrder(store') /\ Latest(store', disk) /\ (Untouched(store') => disk = session')
    BY <1>0, <2>1, StoreShrinks
  <2>3. InOrder(store)' /\ Latest(store, disk)' /\ hydrated
    BY <2>1, <2>2 DEF PhoneInv, HasNothing
  <2>4. 1 \in 1..Len(store)
    BY <1>0, <2>1, EmptySeq
  <2>5. session' \in {Nobody} \cup OwnSessions
    <3>1. store[1] \in Writes
      BY <1>0, <2>4, ElementOfSeq
    <3> QED BY <2>1, <3>1 DEF Writes
  <2>6. BannerTells'
    BY <2>5, Kinds DEF BannerTells
  <2>7. DiskAgrees'
    BY <2>1, <2>2 DEF DiskAgrees, Underneath
  <2> QED BY <2>1, <2>3, <2>6, <2>7 DEF PhoneInv
<1>4. CASE Hydrate
  <2>1. /\ HasNothing /\ hydrated' /\ UNCHANGED <<backup, disk, store>>
        /\ (session' = disk /\ apart' = FALSE) \/ (session' = Nobody /\ apart' = TRUE)
    BY <1>4 DEF Hydrate, PhoneInv
  <2>2. session' \in {Nobody} \cup OwnSessions /\ backup' = NoBackup
    BY <2>1 DEF PhoneInv, PhoneTypeOK, HasNothing
  <2>3. BannerTells' /\ DiskAgrees'
    BY <2>1, <2>2, Kinds DEF BannerTells, DiskAgrees, Underneath
  <2>4. InOrder(store)' /\ Latest(store, disk)'
    BY <1>0, <2>1 DEF InOrder, Latest
  <2> QED BY <2>1, <2>2, <2>3, <2>4 DEF PhoneInv
<1>5. CASE AppEnds
  <2>1. ~hydrated' /\ HasNothing'
    BY <1>5 DEF AppEnds, HasNothing
  <2>2. InOrder(<<>>) /\ \A d : Latest(<<>>, d)
    BY EmptySeq DEF InOrder, Latest
  <2>3. BannerTells'
    BY <2>1, Kinds DEF BannerTells, HasNothing
  <2> QED BY <2>1, <2>2, <2>3 DEF PhoneInv, DiskAgrees, HasNothing
<1> QED BY <1>1, <1>2, <1>3, <1>4, <1>5

\* A call that is answered keeps the types of the others.
LEMMA CallTypesKept ==
  ASSUME PhoneTypeOK, NEW c \in Calls, NEW k \in CallTypes
  PROVE  [call EXCEPT ![c] = k] \in [Calls -> CallTypes]
  BY DEF PhoneTypeOK

LEMMA QueueTypes ==
  ASSUME PhoneTypeOK
  PROVE  /\ store \in Seq(Writes)
         /\ store # <<>> => Tail(store) \in Seq(Writes)
         /\ \A s \in {Nobody} \cup OwnSessions : Waits(Write(s)) => store' \in Seq(Writes)
         /\ \A i \in 1..Len(store) :
              store[i].writes \in {Nobody} \cup OwnSessions
                /\ [store EXCEPT ![i].done = TRUE] \in Seq(Writes)
<1>1. store \in Seq(Writes)
  BY DEF PhoneTypeOK, Writes
<1>2. store # <<>> => Tail(store) \in Seq(Writes)
  BY <1>1, HeadTailProperties
<1>3. \A s \in {Nobody} \cup OwnSessions : Waits(Write(s)) => store' \in Seq(Writes)
  BY <1>1, AppendProperties DEF Waits, Write, Writes
<1>4. ASSUME NEW i \in 1..Len(store)
      PROVE  store[i].writes \in {Nobody} \cup OwnSessions
                /\ [store EXCEPT ![i].done = TRUE] \in Seq(Writes)
  <2>1. store[i] \in Writes
    BY <1>1, ElementOfSeq
  <2>2. [store[i] EXCEPT !.done = TRUE] \in Writes
    BY <2>1 DEF Writes
  <2> QED BY <1>1, <2>1, <2>2, ExceptSeq DEF Writes
<1> QED BY <1>1, <1>2, <1>3, <1>4

\* Every step keeps the types.
LEMMA PhoneTypeStep ==
  ASSUME PhoneTypeOK, [PhoneNext]_phoneVars
  PROVE  PhoneTypeOK'
<1> DEFINE MemoryOK == /\ hydrated \in BOOLEAN /\ apart \in BOOLEAN /\ session \in AnySession
                       /\ backup \in {NoBackup} \cup
                            {Backup(s, n) : s \in OwnSessions, n \in SupportIds}
           CallsOK  == /\ call \in [Calls -> CallTypes] /\ opened \in 0..MaxSupport
                       /\ expired \subseteq OwnSessions \cup {Support(n) : n \in SupportIds}
           DiskOK   == disk \in {Nobody} \cup OwnSessions /\ store \in Seq(Writes)
<1>p. PhoneTypeOK <=> MemoryOK /\ CallsOK /\ DiskOK
  BY DEF PhoneTypeOK, Writes
<1>q. PhoneTypeOK' <=> MemoryOK' /\ CallsOK' /\ DiskOK'
  BY DEF PhoneTypeOK, Writes
<1>m. MemoryOK /\ CallsOK /\ DiskOK
  BY <1>p
<1>0. NoCall \in CallTypes /\ {Nobody} \cup OwnSessions \subseteq AnySession
  BY DEF CallTypes, AnySession
<1>1. ASSUME StoreExecutes \/ StoreFails \/ StoreAnswers PROVE PhoneTypeOK'
  <2>1. DiskOK'
    <3>1. CASE StoreExecutes
      <4>1. PICK i \in 1..Len(store) :
              disk' = store[i].writes /\ store' = [store EXCEPT ![i].done = TRUE]
        BY <3>1 DEF StoreExecutes
      <4> QED BY <4>1, QueueTypes
    <3>2. CASE StoreFails \/ StoreAnswers
      BY <3>2, <1>p, QueueTypes DEF StoreFails, StoreAnswers
    <3> QED BY <1>1, <3>1, <3>2
  <2>2. CallsOK'
    BY <1>1, <1>p DEF StoreExecutes, StoreFails, StoreAnswers
  <2>3. MemoryOK'
    <3>1. CASE StoreExecutes \/ StoreFails
      BY <3>1, <1>p DEF StoreExecutes, StoreFails, memoryVars
    <3>2. CASE StoreAnswers
      <4>1. 1 \in 1..Len(store)
        BY <3>2, <1>p, EmptySeq DEF StoreAnswers
      <4>2. session' \in AnySession
        BY <3>2, <4>1, <1>0, QueueTypes DEF StoreAnswers
      <4> QED BY <3>2, <4>2, <1>p DEF StoreAnswers
    <3> QED BY <1>1, <3>1, <3>2
  <2> QED BY <1>q, <2>1, <2>2, <2>3
<1>2. ASSUME Hydrate \/ AppEnds PROVE PhoneTypeOK'
  <2>1. DiskOK'
    <3>1. <<>> \in Seq(Writes)
      BY EmptySeq
    <3>2. disk' = disk /\ (store' = store \/ store' = <<>>)
      BY <1>2 DEF Hydrate, AppEnds
    <3>3. DiskOK
      BY <1>m
    <3>4. disk' \in {Nobody} \cup OwnSessions
      BY <3>2, <3>3
    <3>5. store' \in Seq(Writes)
      BY <3>1, <3>2, <3>3
    <3> QED BY <3>4, <3>5
  <2>2. CallsOK'
    BY <1>2, <1>p, <1>0 DEF Hydrate, AppEnds
  <2>3. MemoryOK'
    <3>1. disk \in AnySession /\ Nobody \in AnySession
      BY <1>p, <1>0
    <3>2. session' \in AnySession
      BY <1>2, <3>1 DEF Hydrate, AppEnds
    <3>3. hydrated' \in BOOLEAN /\ apart' \in BOOLEAN
      <4>1. CASE Hydrate
        BY <4>1 DEF Hydrate
      <4>2. CASE AppEnds
        <5>1. hydrated' = FALSE /\ apart' = apart
          BY <4>2 DEF AppEnds
        <5>2. apart \in BOOLEAN
          BY <1>m
        <5> QED BY <5>1, <5>2, Zenon
      <4> QED BY <1>2, <4>1, <4>2
    <3>4. backup' = backup \/ backup' = NoBackup
      BY <1>2 DEF Hydrate, AppEnds
    <3> QED BY <3>2, <3>3, <3>4, <1>m
  <2> QED BY <1>q, <2>1, <2>2, <2>3
<1>3. ASSUME NEW c \in Calls, LoadData(c) \/ AskSupport(c) \/ (\E u \in People : SendLogin(c, u))
      PROVE  PhoneTypeOK'
  <2>1. \E k \in CallTypes : Sends(c, k)
    <3>1. /\ [for |-> "data", token |-> session] \in CallTypes
          /\ [for |-> "support", token |-> session] \in CallTypes
          /\ \A u \in People : [for |-> "login", user |-> u] \in CallTypes
      BY <1>p DEF CallTypes
    <3>2. CASE LoadData(c)
      BY <3>1, <3>2 DEF LoadData
    <3>3. CASE AskSupport(c)
      BY <3>1, <3>3 DEF AskSupport
    <3>4. CASE \E u \in People : SendLogin(c, u)
      BY <3>1, <3>4 DEF SendLogin
    <3> QED BY <1>3, <3>2, <3>3, <3>4
  <2>2. CallsOK'
    BY <2>1, <1>p DEF Sends
  <2> QED BY <1>p, <1>q, <2>1, <2>2 DEF Sends, memoryVars
<1>4. ASSUME NEW c \in Calls, Returns(c) \/ LoginSucceeds(c) \/ SupportOpens(c) \/ Refused(c)
      PROVE  PhoneTypeOK'
  <2>1. call' \in [Calls -> CallTypes]
    BY <1>4, <1>p, <1>0 DEF Returns, LoginSucceeds, SupportOpens, Refused, Finished
  <2>2. CASE Returns(c)
    BY <2>1, <2>2, <1>p, <1>q DEF Returns, memoryVars
  <2>3. CASE LoginSucceeds(c)
    <3>1. call[c] \in CallTypes /\ call[c].for = "login"
      BY <2>3, <1>p DEF LoginSucceeds
    <3>2. call[c].user \in People
      BY <3>1 DEF CallTypes, NoCall
    <3>3. Own(call[c].user) \in OwnSessions
      BY <3>2 DEF OwnSessions
    <3>4. DiskOK'
      BY <2>3, <3>3, <1>p, QueueTypes DEF LoginSucceeds
    <3> QED BY <2>1, <2>3, <3>4, <1>p, <1>q DEF LoginSucceeds, memoryVars
  <2>4. CASE SupportOpens(c)
    <3>1. opened' = opened + 1 /\ opened' \in SupportIds
      BY <2>4, <1>p, PhoneAssumption DEF SupportOpens, SupportIds
    <3>2. CallsOK'
      BY <2>1, <2>4, <3>1, <1>p DEF SupportOpens, SupportIds
    <3>3. MemoryOK'
      BY <2>4, <3>1, <1>p DEF SupportOpens, StartImpersonation, AnySession
    <3> QED BY <2>4, <3>2, <3>3, <1>p, <1>q DEF SupportOpens
  <2>5. CASE Refused(c)
    <3>1. CallsOK'
      BY <2>1, <2>5, <1>p DEF Refused
    <3>2. CASE backup # NoBackup
      <4>1. EndImpersonation /\ UNCHANGED <<store, disk, hydrated, apart>>
        BY <2>5, <3>2 DEF Refused
      <4>2. MemoryOK'
        BY <4>1, <3>2, <1>p, <1>0, BackupHolds DEF EndImpersonation
      <4> QED BY <3>1, <4>1, <4>2, <1>p, <1>q
    <3>3. CASE backup = NoBackup
      <4>1. Clear /\ UNCHANGED <<session, backup, disk, hydrated, apart>>
        BY <2>5, <3>3 DEF Refused
      <4>2. DiskOK'
        BY <4>1, <1>p, QueueTypes DEF Clear
      <4> QED BY <3>1, <4>1, <4>2, <1>p, <1>q
    <3> QED BY <3>2, <3>3
  <2> QED BY <1>4, <2>2, <2>3, <2>4, <2>5
<1>5. ASSUME NEW s \in OwnSessions \cup {Support(n) : n \in SupportIds}, Expires(s)
      PROVE  PhoneTypeOK'
  BY <1>5, <1>p, <1>q DEF Expires, memoryVars
<1>6. ASSUME BannerEnds PROVE PhoneTypeOK'
  <2>1. MemoryOK'
    BY <1>6, <1>p, <1>0, BackupHolds DEF BannerEnds, EndImpersonation
  <2> QED BY <1>6, <2>1, <1>p, <1>q DEF BannerEnds
<1>7. ASSUME SignOut PROVE PhoneTypeOK'
  <2>1. DiskOK'
    BY <1>7, <1>p, QueueTypes DEF SignOut, Clear
  <2> QED BY <1>7, <2>1, <1>p, <1>q DEF SignOut, memoryVars
<1>8. ASSUME UNCHANGED phoneVars PROVE PhoneTypeOK'
  BY <1>8, <1>p, <1>q DEF phoneVars, memoryVars
<1> QED BY <1>1, <1>2, <1>3, <1>4, <1>5, <1>6, <1>7, <1>8 DEF PhoneNext

\* Every step keeps the invariant of the phone's session.
LEMMA PhoneStep ==
  ASSUME PhoneInv, [PhoneNext]_phoneVars
  PROVE  PhoneInv'
<1>0. PhoneTypeOK'
  BY PhoneTypeStep DEF PhoneInv
<1>1. CASE StoreExecutes \/ StoreFails \/ StoreAnswers \/ Hydrate \/ AppEnds
  BY <1>0, <1>1, StoreStep
<1>2. ASSUME NEW c \in Calls, LoadData(c) \/ AskSupport(c) \/ (\E u \in People : SendLogin(c, u))
      PROVE  PhoneInv'
  <2>1. hydrated /\ UNCHANGED <<memoryVars, disk, store, apart>>
    BY <1>2 DEF LoadData, AskSupport, SendLogin, Sends
  <2> QED BY <1>0, <2>1, CallsStep
<1>3. ASSUME NEW c \in Calls, Returns(c) \/ LoginSucceeds(c) \/ SupportOpens(c) \/ Refused(c)
      PROVE  PhoneInv'
  <2>1. call[c] # NoCall
    BY <1>3 DEF Returns, LoginSucceeds, SupportOpens, Refused, NoCall
  <2>2. hydrated
    BY <2>1, CallsAreMade
  <2>3. CASE Returns(c)
    BY <1>0, <2>2, <2>3, CallsStep DEF Returns
  <2>4. CASE LoginSucceeds(c)
    <3>1. call[c] \in CallTypes /\ call[c].for = "login"
      BY <2>4 DEF LoginSucceeds, PhoneInv, PhoneTypeOK
    <3>2. Own(call[c].user) \in OwnSessions
      BY <3>1 DEF CallTypes, NoCall, OwnSessions
    <3> QED BY <1>0, <2>2, <2>4, <3>2, WriteStep DEF LoginSucceeds
  <2>5. CASE SupportOpens(c)
    BY <1>0, <2>2, <2>5, SupportStep DEF SupportOpens
  <2>6. CASE Refused(c)
    <3>1. CASE backup # NoBackup
      BY <1>0, <2>2, <2>6, <3>1, EndStep DEF Refused
    <3>2. CASE backup = NoBackup
      <4>1. Waits(Write(Nobody)) /\ UNCHANGED <<memoryVars, disk, apart>>
        BY <2>6, <3>2 DEF Refused, Clear, memoryVars
      <4> QED BY <1>0, <2>2, <4>1, WriteStep
    <3> QED BY <3>1, <3>2
  <2> QED BY <1>3, <2>3, <2>4, <2>5, <2>6
<1>4. ASSUME NEW s \in OwnSessions \cup {Support(n) : n \in SupportIds}, Expires(s)
      PROVE  PhoneInv'
  <2>1. UNCHANGED <<memoryVars, disk, store, call, apart>>
    BY <1>4 DEF Expires
  <2> QED BY <1>0, <2>1, CallsStep DEF PhoneInv, HasNothing
<1>5. CASE BannerEnds
  <2>1. hydrated
    BY <1>5 DEF BannerEnds, EndImpersonation, PhoneInv, HasNothing
  <2> QED BY <1>0, <1>5, <2>1, EndStep DEF BannerEnds
<1>6. CASE SignOut
  <2>1. hydrated
    BY <1>6 DEF SignOut, PhoneInv, HasNothing
  <2> QED BY <1>0, <1>6, <2>1, WriteStep DEF SignOut, Clear
<1>7. CASE UNCHANGED phoneVars
  <2>1. UNCHANGED <<memoryVars, disk, store, call, apart>>
    BY <1>7 DEF phoneVars
  <2> QED BY <1>0, <2>1, CallsStep DEF PhoneInv, HasNothing
<1> QED BY <1>1, <1>2, <1>3, <1>4, <1>5, <1>6, <1>7 DEF PhoneNext

\* Disk, queue and memory stay in step in every reachable state.
THEOREM PhoneInductive == PhoneSpec => []PhoneInv
<1>1. PhoneInit => PhoneInv
  <2> SUFFICES ASSUME PhoneInit PROVE PhoneInv
    OBVIOUS
  <2>1. PhoneTypeOK
    <3>1. <<>> \in Seq(Writes) /\ NoCall \in CallTypes /\ Nobody \in AnySession
      BY EmptySeq DEF CallTypes, AnySession
    <3>2. store \in Seq(Writes) /\ call \in [Calls -> CallTypes] /\ opened \in 0..MaxSupport
      BY <3>1, PhoneAssumption DEF PhoneInit
    <3>3. hydrated \in BOOLEAN /\ apart \in BOOLEAN /\ session \in AnySession
      BY <3>1 DEF PhoneInit
    <3>4. disk \in {Nobody} \cup OwnSessions /\ expired = {} /\ backup = NoBackup
      BY DEF PhoneInit
    <3>5. expired \subseteq OwnSessions \cup {Support(n) : n \in SupportIds}
      BY <3>4
    <3>6. backup \in {NoBackup} \cup {Backup(s, n) : s \in OwnSessions, n \in SupportIds}
      BY <3>4
    <3> QED BY <3>2, <3>3, <3>4, <3>5, <3>6 DEF PhoneTypeOK, Writes
  <2>2. InOrder(store) /\ Latest(store, disk)
    BY EmptySeq DEF PhoneInit, InOrder, Latest
  <2> QED BY <2>1, <2>2, Kinds
      DEF PhoneInit, PhoneInv, BannerTells, HasNothing, DiskAgrees
<1>2. PhoneInv /\ [PhoneNext]_phoneVars => PhoneInv'
  BY PhoneStep
<1> QED BY <1>1, <1>2, PTL DEF PhoneSpec

\* session.ts:15: a restart comes back to the user in memory, or below the support
\* session, in whatever order logins, logouts and refusals have overlapped.
THEOREM RestartIsSafe == PhoneSpec => []RestartKeepsUser
<1>1. PhoneInv => RestartKeepsUser
  BY DEF PhoneInv, DiskAgrees, Untouched, RestartKeepsUser
<1> QED BY <1>1, PhoneInductive, PTL

\* ImpersonationBanner.tsx:8: no support session is shown without its banner.
THEOREM BannerIsShown == PhoneSpec => []BannerTells
<1>1. PhoneInv => BannerTells
  BY DEF PhoneInv
<1> QED BY <1>1, PhoneInductive, PTL
=============================================================================
