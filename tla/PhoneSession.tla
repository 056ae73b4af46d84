---------------------------- MODULE PhoneSession ----------------------------
(***************************************************************************)
(* The session that the Aman School app keeps on a phone, in memory and in *)
(* SecureStore (store/session.ts); what a 401 does to it (lib/api.ts,      *)
(* api-client/src/http.ts); and the support session that the owner opens   *)
(* as the admin of a school (impersonate.tsx, ImpersonationBanner.tsx).    *)
(*                                                                         *)
(* The app never uses a refresh token.  SecureStore executes the calls of  *)
(* the app in their order, on a queue of its own, and the app learns of    *)
(* each later.  The login screens are open to a phone that has a session:  *)
(* the screens of a role send everybody else there.                        *)
(***************************************************************************)
EXTENDS Naturals, Sequences

CONSTANTS
  People,       \* the users who sign in on this phone
  PhoneOwners,  \* those of them with the role owner
  Calls,        \* calls of the backend in flight at the same time
  MaxSupport,   \* bound: support sessions opened
  MaxStore      \* bound: calls of SecureStore in progress

ASSUME PhoneAssumption ==
  PhoneOwners \subseteq People /\ MaxSupport \in Nat /\ MaxStore \in Nat

\* A user who signed in has an access and a refresh token; a support session has
\* an access token only.
Nobody      == [kind |-> "nobody"]
Own(u)      == [kind |-> "own", user |-> u]
Support(n)  == [kind |-> "support", id |-> n]
OwnSessions == {Own(u) : u \in People}
SupportIds  == 1..MaxSupport

VARIABLES
  hydrated,  \* the app runs and has read SecureStore
  session,   \* accessToken, refreshToken and user
  backup,    \* impersonationBackup and impersonationExpiresAt
  disk,      \* what SecureStore holds
  store,     \* the calls of SecureStore the app waits for
  call,      \* the calls of the backend it waits for
  opened,    \* how many support sessions the backend has opened
  expired,   \* the users and support sessions whose access token has expired
  apart      \* history: SecureStore could not be read, or somebody signed in
             \* over a support session, so that disk and memory differ

memoryVars == <<hydrated, session, backup>>
phoneVars  == <<memoryVars, disk, store, call, opened, expired, apart>>

NoBackup == [kind |-> "none"]
Backup(s, n) == [kind |-> "backup", session |-> s, until |-> n]
NoCall   == [for |-> "nothing"]

PhoneInit ==
  /\ hydrated = FALSE /\ session = Nobody /\ backup = NoBackup
  /\ disk = Nobody /\ store = <<>>
  /\ call = [c \in Calls |-> NoCall]
  /\ opened = 0 /\ expired = {} /\ apart = FALSE

-----------------------------------------------------------------------------
(* store/session.ts.                                                        *)

Waits(op) ==
  /\ Len(store) < MaxStore
  /\ store' = Append(store, op)

Write(s) == [writes |-> s, done |-> FALSE]

StartImpersonation_Mutant(n) ==  \* get() after set()
  IF session \in OwnSessions
    THEN session' = Support(n) /\ backup' = Backup(Support(n), n)
    ELSE UNCHANGED <<session, backup>>

\* startImpersonation looks for a session with all three of its parts.
StartImpersonation(n) ==
  IF session \in OwnSessions
    THEN session' = Support(n) /\ backup' = Backup(session, n)
    ELSE UNCHANGED <<session, backup>>

EndImpersonation ==
  /\ backup # NoBackup
  /\ session' = backup.session /\ backup' = NoBackup

\* SecureStore executes the first call it has not yet executed ...
StoreExecutes ==
  \E i \in 1..Len(store) :
    /\ ~store[i].done /\ \A j \in 1..i-1 : store[j].done
    /\ disk' = store[i].writes
    /\ store' = [store EXCEPT ![i].done = TRUE]
    /\ UNCHANGED <<memoryVars, call, opened, expired, apart>>

\* ... or fails, and setSession or clear throws.
StoreFails ==
  /\ store # <<>> /\ ~store[1].done
  /\ store' = Tail(store)
  /\ UNCHANGED <<memoryVars, disk, call, opened, expired, apart>>

\* setSession goes on and keeps the backup, clear goes on and drops it.
StoreAnswers ==
  /\ store # <<>> /\ store[1].done
  /\ store' = Tail(store)
  /\ session' = store[1].writes
  /\ backup' = IF store[1].writes = Nobody THEN NoBackup ELSE backup
  /\ apart' = (backup' # NoBackup)
  /\ UNCHANGED <<hydrated, disk, call, opened, expired>>

Clear == Waits(Write(Nobody))

\* A corrupt value counts as no session.
Hydrate ==
  /\ ~hydrated /\ hydrated' = TRUE
  /\ \/ session' = disk /\ apart' = FALSE
     \/ session' = Nobody /\ apart' = TRUE
  /\ UNCHANGED <<backup, disk, store, call, opened, expired>>

\* The system ends the app, and what SecureStore has not executed is lost.
AppEnds ==
  /\ hydrated' = FALSE /\ session' = Nobody /\ backup' = NoBackup
  /\ store' = <<>> /\ call' = [c \in Calls |-> NoCall]
  /\ UNCHANGED <<disk, opened, expired, apart>>

-----------------------------------------------------------------------------
(* Calls of the backend: http.ts and lib/api.ts.                            *)

Sends(c, what) ==
  /\ hydrated /\ call[c] = NoCall
  /\ call' = [call EXCEPT ![c] = what]
  /\ UNCHANGED <<memoryVars, disk, store, opened, expired, apart>>

LoadData(c)   == session # Nobody /\ Sends(c, [for |-> "data", token |-> session])
SendLogin(c, u) == Sends(c, [for |-> "login", user |-> u])
AskSupport(c) ==
  /\ \E u \in PhoneOwners : session = Own(u)
  /\ opened < MaxSupport
  /\ Sends(c, [for |-> "support", token |-> session])

Finished(c) == call' = [call EXCEPT ![c] = NoCall]

\* Data, no connection, or an answer that is neither a session nor a 401.
Returns(c) ==
  /\ call[c] # NoCall
  /\ Finished(c)
  /\ UNCHANGED <<memoryVars, disk, store, opened, expired, apart>>

LoginSucceeds(c) ==
  /\ call[c].for = "login"
  /\ Finished(c)
  /\ Waits(Write(Own(call[c].user)))
  /\ expired' = expired \ {Own(call[c].user)}
  /\ UNCHANGED <<memoryVars, disk, opened, apart>>

SupportOpens(c) ==
  /\ call[c].for = "support" /\ call[c].token \notin expired
  /\ opened < MaxSupport
  /\ opened' = opened + 1
  /\ StartImpersonation(opened')
  /\ Finished(c)
  /\ UNCHANGED <<hydrated, disk, store, expired, apart>>

\* The backend refuses an expired token or a wrong password.  onUnauthorized
\* looks at the session of this moment, not at the one the call was sent with.
Refused(c) ==
  /\ \/ call[c].for = "login"
     \/ call[c].for \in {"data", "support"} /\ call[c].token \in expired
  /\ Finished(c)
  /\ IF backup # NoBackup THEN EndImpersonation /\ UNCHANGED store
     ELSE Clear /\ UNCHANGED <<session, backup>>
  /\ UNCHANGED <<hydrated, disk, opened, expired, apart>>

-----------------------------------------------------------------------------
Expires(s) ==
  /\ s \in OwnSessions \/ s \in {Support(n) : n \in 1..opened}
  /\ expired' = expired \cup {s}
  /\ UNCHANGED <<memoryVars, disk, store, call, opened, apart>>

\* The banner's button, or its timer when the session has expired.
BannerEnds ==
  /\ EndImpersonation
  /\ UNCHANGED <<hydrated, disk, store, call, opened, expired, apart>>

SignOut ==
  /\ session # Nobody
  /\ Clear
  /\ UNCHANGED <<memoryVars, disk, call, opened, expired, apart>>

PhoneNext ==
  \/ StoreExecutes \/ StoreFails \/ StoreAnswers
  \/ Hydrate \/ AppEnds
  \/ \E c \in Calls :
       \/ LoadData(c) \/ AskSupport(c) \/ (\E u \in People : SendLogin(c, u))
       \/ Returns(c) \/ LoginSucceeds(c) \/ SupportOpens(c) \/ Refused(c)
  \/ \E s \in OwnSessions \cup {Support(n) : n \in SupportIds} : Expires(s)
  \/ BannerEnds \/ SignOut

PhoneSpec == PhoneInit /\ [][PhoneNext]_phoneVars

-----------------------------------------------------------------------------
AnySession == {Nobody} \cup OwnSessions \cup {Support(n) : n \in SupportIds}
CallTypes  == {NoCall} \cup [for : {"data", "support"}, token : AnySession]
                       \cup [for : {"login"}, user : People]

\* The parts of the store, and the calls, hold what they are declared to hold.
PhoneTypeOK ==
  /\ hydrated \in BOOLEAN /\ apart \in BOOLEAN
  /\ session \in AnySession
  /\ backup \in {NoBackup} \cup {Backup(s, n) : s \in OwnSessions, n \in SupportIds}
  /\ disk \in {Nobody} \cup OwnSessions
  /\ store \in Seq([writes : {Nobody} \cup OwnSessions, done : BOOLEAN])
  /\ call \in [Calls -> CallTypes]
  /\ opened \in 0..MaxSupport
  /\ expired \subseteq OwnSessions \cup {Support(n) : n \in SupportIds}

\* "never persisted to SecureStore, so the *real* session underneath is left
\* untouched on disk and simply reloads on its own if the app restarts
\* mid-impersonation" (session.ts:15): with no call of SecureStore in progress, a
\* restart comes back to the session in memory, or to the one under the support
\* session, whatever logins, logouts and refusals overlapped before.
Underneath == IF backup = NoBackup THEN session ELSE backup.session
RestartKeepsUser == hydrated /\ store = <<>> /\ ~apart => disk = Underneath

\* ImpersonationBanner.tsx:8: a support session is on the screen only below the
\* banner that says so and ends it in time.
BannerTells ==
  \A n \in SupportIds : session = Support(n) => backup # NoBackup /\ backup.until = n

\* "If this 401 came from an expired impersonation token, fall back to the
\* owner's own session instead of signing them out entirely" (api.ts:9).
OwnerStaysSignedIn ==
  [][\A c \in Calls :
       Refused(c) /\ call[c].for = "data" /\ call[c].token \notin OwnSessions
         => store' = store]_phoneVars
=============================================================================
