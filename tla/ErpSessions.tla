---------------------------- MODULE ErpSessions ----------------------------
(***************************************************************************)
(* Logging in to and out of IDURAR: the row AdminPassword of one           *)
(* administrator, which lists the tokens that are logged in, and the       *)
(* browser, which keeps its token three times: in the Redux slice `auth`,  *)
(* in localStorage and in the default header of axios.  localStorage is    *)
(* shared by the tabs; the other two belong to a page and go with it.      *)
(*                                                                         *)
(* Nothing cancels a call: its answer is handled whatever the page shows   *)
(* by then, and an answer that says jwtExpired sends the page to /logout.  *)
(* A redirected page hears the answers that arrive until it is replaced,   *)
(* but nobody clicks on it.                                                *)
(***************************************************************************)
EXTENDS Naturals, FiniteSets

CONSTANTS
  Tabs,      \* tabs of the browser that are open
  Tokens,    \* tokens that are ever signed
  Fetches,   \* calls of the pages that are under way
  MaxLinks   \* bound: mails with a link to a new password

\* No token is mistaken for what stands for the lack of one, no tab for a closed page.
ASSUME LoginsAssumption ==
  /\ Tokens \cap {"absent", "tokenless", "null", "none"} = {}
  /\ "gone" \notin Tabs
  /\ MaxLinks \in Nat

VARIABLES
  password,  \* the row AdminPassword
  links,     \* the mails that were sent
  expired,   \* tokens whose 24 hours or 365 days are over
  page,      \* the document in each tab
  storage,   \* the browser's localStorage
  fetch      \* the calls under way

sessionsVars == <<password, links, expired, page, storage, fetch>>

-----------------------------------------------------------------------------
NoFetch == [kind |-> "none"]

\* What `auth` in localStorage holds: nothing, the user of a token, an object
\* without a token, or the user null.
Stored == Tokens \cup {"absent", "tokenless", "null"}

\* How the page of a tab starts (redux/store.js): the slice is what was stored,
\* whose isLoggedIn is always true.  A redirect leads to /logout, and the router
\* for those who are not logged in sends that to /login.
Loaded(t) ==
  [app |-> IF storage.auth = "absent" THEN "login" ELSE "mounting",
   isLoading |-> FALSE, settings |-> FALSE, header |-> "none", leaving |-> FALSE,
   logout |-> storage.auth # "absent" /\ (page[t].leaving \/ page[t].logout)]

\* Nobody is logged in, no link was sent.
NewPassword == [loggedSessions |-> {}, signed |-> {}, resetToken |-> 0]

SessionsInitially ==
  /\ password = NewPassword
  /\ links = 0 /\ expired = {}
  /\ storage = [auth |-> "absent", isLogout |-> FALSE]
  /\ page = [t \in Tabs |-> [app |-> "login", isLoading |-> FALSE, settings |-> FALSE,
                             header |-> "none", leaving |-> FALSE, logout |-> FALSE]]
  /\ fetch = [c \in Fetches |-> NoFetch]

-----------------------------------------------------------------------------
(* The pages send.                                                          *)

Here(t)      == ~page[t].leaving
LoginPage(t) == Here(t) /\ page[t].app = "login"
Screens(t)   == Here(t) /\ page[t].app = "mounted" /\ page[t].settings

\* request.js: the header is the stored token; it stays if nothing is stored, and
\* null has no token, which throws before anything is sent.
Throws(t) == storage.auth = "null"
Header(t) == IF storage.auth = "absent" THEN page[t].header ELSE storage.auth

SendFetch(c, f) == fetch[c] = NoFetch /\ fetch' = [fetch EXCEPT ![c] = f]

Fetch(t, c, kind) ==
  /\ page' = [page EXCEPT ![t].header = Header(t)]
  /\ SendFetch(c, [kind |-> kind, tab |-> t, at |-> "sent", token |-> Header(t)])

NotOnServer == UNCHANGED <<password, links, expired>>

SubmitLogin(t, c) ==
  /\ LoginPage(t) /\ ~page[t].isLoading
  /\ page' = [page EXCEPT ![t].isLoading = TRUE]
  /\ SendFetch(c, [kind |-> "login", tab |-> t, at |-> "sent"])
  /\ UNCHANGED storage /\ NotOnServer

\* The page that a link leads to.
SubmitReset(t, c, link) ==
  /\ LoginPage(t) /\ ~page[t].isLoading
  /\ page' = [page EXCEPT ![t].isLoading = TRUE]
  /\ SendFetch(c, [kind |-> "reset", tab |-> t, at |-> "sent", link |-> link])
  /\ UNCHANGED storage /\ NotOnServer

SubmitForget(t, c) ==
  /\ LoginPage(t) /\ ~Throws(t)
  /\ Fetch(t, c, "forget")
  /\ UNCHANGED storage /\ NotOnServer

\* ErpApp is mounted and asks for the settings, without which it shows a loader.
Mount(t, c) ==
  /\ Here(t) /\ page[t].app = "mounting"
  /\ IF Throws(t)
     THEN page' = [page EXCEPT ![t].app = "mounted", ![t].settings = FALSE] /\ UNCHANGED fetch
     ELSE /\ page' = [page EXCEPT ![t].app = "mounted", ![t].header = Header(t)]
          /\ SendFetch(c, [kind |-> "settings", tab |-> t, at |-> "sent", token |-> Header(t)])
  /\ UNCHANGED storage /\ NotOnServer

\* Any other call of a screen, and the form of the profile.  The page /logout that
\* a redirect leads to is no screen: it logs out as soon as it is shown.
UseScreen(t, c) ==
  /\ Screens(t) /\ ~page[t].logout /\ ~Throws(t)
  /\ \E kind \in {"request", "profile"} : Fetch(t, c, kind)
  /\ UNCHANGED storage /\ NotOnServer

Logout_Mutant(t, c) ==  \* what is stored is read after it was removed
  /\ Screens(t)
  /\ page' = [page EXCEPT ![t].app = "login", ![t].isLoading = FALSE, ![t].logout = FALSE]
  /\ storage' = [auth |-> "absent", isLogout |-> TRUE]
  /\ SendFetch(c, [kind |-> "logout", tab |-> t, at |-> "sent", token |-> page[t].header,
                   saved |-> "absent"])
  /\ NotOnServer

\* The page /logout, chosen from the menu or by a redirect: the slice and the
\* storage are emptied before the call, which goes out with the header there is.
Logout(t, c) ==
  /\ Screens(t)
  /\ page' = [page EXCEPT ![t].app = "login", ![t].isLoading = FALSE, ![t].logout = FALSE]
  /\ storage' = [auth |-> "absent", isLogout |-> TRUE]
  /\ SendFetch(c, [kind |-> "logout", tab |-> t, at |-> "sent", token |-> page[t].header,
                   saved |-> storage.auth])
  /\ NotOnServer

\* The document is replaced: by the redirect, or because the user reloads it.  No
\* one hears the answers to its calls any more, which the server still serves.
Reload(t) ==
  /\ page' = [page EXCEPT ![t] = Loaded(t)]
  /\ fetch' = [c \in Fetches |->
       IF fetch[c] # NoFetch /\ fetch[c].tab = t THEN [fetch[c] EXCEPT !.tab = "gone"] ELSE fetch[c]]
  /\ UNCHANGED storage /\ NotOnServer

-----------------------------------------------------------------------------
(* The server.                                                              *)

Arrived(c, kinds) == fetch[c].kind \in kinds /\ fetch[c].at = "sent"
Passed(c, kind) == fetch[c].kind = kind /\ fetch[c].at = "passed"
Pass(c)         == fetch' = [fetch EXCEPT ![c].at = "passed"]
Respond(c, outcome) == fetch' = [fetch EXCEPT ![c].at = outcome]
NotInBrowser    == UNCHANGED <<page, storage>>

\* isValidAuthToken: jwt.verify throws for a token that is none, and all three
\* other refusals say jwtExpired as well.
IsValidAuthToken(c) ==
  /\ Arrived(c, {"settings", "request", "profile", "logout"})
  /\ IF fetch[c].token \in password.loggedSessions \ expired THEN Pass(c)
     ELSE Respond(c, IF fetch[c].token = "tokenless" THEN "invalid" ELSE "refused")
  /\ NotInBrowser /\ NotOnServer

\* The handlers that do not touch the row.
ServeScreen(c) ==
  /\ Passed(c, "settings") \/ Passed(c, "request") \/ Passed(c, "profile")
  /\ Respond(c, "ok")
  /\ NotInBrowser /\ NotOnServer

ServeLogout(c) ==
  /\ Passed(c, "logout")
  /\ password' = [password EXCEPT !.loggedSessions = @ \ {fetch[c].token}]
  /\ Respond(c, "ok")
  /\ NotInBrowser /\ UNCHANGED <<links, expired>>

\* login.js and authUser.js: the password is right, or the answer is a failure.
CheckPassword(c) ==
  /\ Arrived(c, {"login"})
  /\ Pass(c) \/ Respond(c, "failed")
  /\ NotInBrowser /\ NotOnServer

\* resetPassword.js compares the link of a row that it has read.
CheckLink(c) ==
  /\ Arrived(c, {"reset"})
  /\ IF fetch[c].link = password.resetToken THEN Pass(c) ELSE Respond(c, "failed")
  /\ NotInBrowser /\ NotOnServer

\* A new token is signed and pushed; a used link is replaced by one nobody has.
PushToken(c, k) ==
  /\ Passed(c, "login") \/ Passed(c, "reset")
  /\ k \in Tokens \ password.signed
  /\ password' = [loggedSessions |-> password.loggedSessions \cup {k},
                  signed |-> password.signed \cup {k},
                  resetToken |-> IF fetch[c].kind = "reset" THEN 0 ELSE password.resetToken]
  /\ fetch' = [fetch EXCEPT ![c] = [kind |-> "login", tab |-> fetch[c].tab, at |-> "ok", token |-> k]]
  /\ NotInBrowser /\ UNCHANGED <<links, expired>>

ForgetPassword(c) ==
  /\ Arrived(c, {"forget"})
  /\ links < MaxLinks
  /\ links' = links + 1
  /\ password' = [password EXCEPT !.resetToken = links + 1]
  /\ Respond(c, "ok")
  /\ NotInBrowser /\ UNCHANGED expired

Expires(k) ==
  /\ k \in password.signed \ expired
  /\ expired' = expired \cup {k}
  /\ NotInBrowser /\ UNCHANGED <<password, links, fetch>>

-----------------------------------------------------------------------------
(* The page hears an answer.                                                *)

\* errorHandler.js: an answer with jwtExpired empties the storage, and the page is
\* sent to /logout unless nothing was stored there and nobody has logged out.
Ejects(outcome) ==
  \/ outcome = "invalid"
  \/ outcome = "refused" /\ (storage.auth # "absent" \/ storage.isLogout)

ErrorHandler(outcome) ==
  IF outcome \in {"refused", "invalid"} THEN [auth |-> "absent", isLogout |-> FALSE] ELSE storage

LoggedIn(p) == [p EXCEPT !.app = IF @ = "login" THEN "mounting" ELSE @, !.isLoading = FALSE]

\* redux/auth/actions.js, login and resetPassword: INITIAL_STATE on a failure.
HearLogin(p, f, outcome) ==
  IF outcome = "ok"
  THEN [page |-> LoggedIn(p), storage |-> [auth |-> f.token, isLogout |-> FALSE]]
  ELSE [page |-> [p EXCEPT !.app = "login", !.isLoading = FALSE], storage |-> storage]

\* logout: a failure puts back what was read, with the whole of it as the current
\* user.  An invalid token throws, since errorHandler returns nothing for it.
HearLogout(p, f, outcome) ==
  IF outcome \in {"ok", "invalid"}
  THEN [page |-> p, storage |-> ErrorHandler(outcome)]
  ELSE [page |-> LoggedIn(p),
        storage |-> [auth |-> IF f.saved = "absent" THEN "null" ELSE "tokenless", isLogout |-> FALSE]]

\* updateProfile logs in as the token that the call had, whatever has happened since.
HearProfile(p, f, outcome) ==
  IF outcome = "ok"
  THEN [page |-> LoggedIn(p), storage |-> [storage EXCEPT !.auth = f.token]]
  ELSE [page |-> p, storage |-> ErrorHandler(outcome)]

HearOther(p, f, outcome) ==
  [page |-> IF f.kind # "settings" \/ outcome = "invalid" THEN p
            ELSE [p EXCEPT !.settings = outcome = "ok"],
   storage |-> ErrorHandler(outcome)]

Hear(c, outcome) ==
  LET f == fetch[c]
      p == page[f.tab]
      h == CASE f.kind \in {"login", "reset"} -> HearLogin(p, f, outcome)
             [] f.kind = "logout"  -> HearLogout(p, f, outcome)
             [] f.kind = "profile" -> HearProfile(p, f, outcome)
             [] OTHER -> HearOther(p, f, outcome)
  IN /\ page' = [page EXCEPT ![f.tab] = [h.page EXCEPT !.leaving = @ \/ Ejects(outcome)]]
     /\ storage' = h.storage
     /\ NotOnServer

Outcomes == {"ok", "failed", "refused", "invalid"}

PageHears(c) ==
  /\ fetch[c] # NoFetch /\ fetch[c].at \in Outcomes
  /\ IF fetch[c].tab = "gone" THEN NotInBrowser /\ NotOnServer ELSE Hear(c, fetch[c].at)
  /\ fetch' = [fetch EXCEPT ![c] = NoFetch]

\* A statement fails, the connection is lost or the answer is: the page hears a
\* failure, and the server may go on with what it has received.
FetchFails(c) ==
  /\ fetch[c] # NoFetch
  /\ IF fetch[c].tab = "gone" THEN NotInBrowser /\ NotOnServer ELSE Hear(c, "failed")
  /\ \/ fetch' = [fetch EXCEPT ![c] = NoFetch]
     \/ /\ fetch[c].tab # "gone" /\ fetch[c].at \in {"sent", "passed"}
        /\ fetch' = [fetch EXCEPT ![c].tab = "gone"]

-----------------------------------------------------------------------------
SessionsStep ==
  \/ \E t \in Tabs :
       \/ Reload(t)
       \/ \E c \in Fetches :
            \/ SubmitLogin(t, c) \/ SubmitForget(t, c) \/ Mount(t, c)
            \/ UseScreen(t, c) \/ Logout(t, c)
            \/ \E link \in 1 .. links : SubmitReset(t, c, link)
  \/ \E c \in Fetches :
       \/ IsValidAuthToken(c) \/ ServeScreen(c) \/ ServeLogout(c)
       \/ CheckPassword(c) \/ CheckLink(c) \/ ForgetPassword(c)
       \/ \E k \in Tokens : PushToken(c, k)
       \/ PageHears(c) \/ FetchFails(c)
  \/ \E k \in Tokens : Expires(k)

SessionsSpecification == SessionsInitially /\ [][SessionsStep]_sessionsVars

-----------------------------------------------------------------------------
Headers == Tokens \cup {"none", "tokenless"}

FetchKinds ==
  {NoFetch}
    \cup [kind : {"login"}, tab : Tabs \cup {"gone"}, at : {"sent", "passed", "failed"}]
    \cup [kind : {"login"}, tab : Tabs \cup {"gone"}, at : {"ok"}, token : Tokens]
    \cup [kind : {"reset"}, tab : Tabs \cup {"gone"}, at : {"sent", "passed", "failed"}, link : 1 .. MaxLinks]
    \cup [kind : {"settings", "request", "profile", "forget"}, tab : Tabs \cup {"gone"},
          at : {"sent", "passed"} \cup Outcomes, token : Headers]
    \cup [kind : {"logout"}, tab : Tabs \cup {"gone"}, at : {"sent", "passed"} \cup Outcomes,
          token : Headers, saved : Stored]

\* The row, the pages, the storage and the calls are well formed; only a token
\* that was signed is logged in, or answered to have been.
LoginsTypeOK ==
  /\ password.loggedSessions \subseteq password.signed /\ password.signed \subseteq Tokens
  /\ links \in 0 .. MaxLinks /\ password.resetToken \in 0 .. links
  /\ expired \subseteq password.signed
  /\ storage \in [auth : Stored, isLogout : BOOLEAN]
  /\ page \in [Tabs -> [app : {"login", "mounting", "mounted"}, isLoading : BOOLEAN,
                        settings : BOOLEAN, header : Headers, leaving : BOOLEAN, logout : BOOLEAN]]
  /\ fetch \in [Fetches -> FetchKinds]

\* In a browser with one tab, a page that shows the app can always be made to
\* leave it: something is stored and it names a user, so that the next refusal of
\* a call redirects the page (errorHandler.js:41-50), and no reload ends with the
\* loader for good (request.js:23 reads auth.current.token), however logins,
\* logouts and failures of either overlap.
RefusalLeadsOut ==
  \A t \in Tabs :
    Here(t) /\ page[t].app # "login" => storage.auth \in Tokens \cup {"tokenless"}
=============================================================================
