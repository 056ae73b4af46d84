------------------------------ MODULE Routing ------------------------------
(***************************************************************************)
(* The way of a request through the routers of the Aman School backend     *)
(* (server.ts, auth/middleware.ts).  All of them are mounted at the root,  *)
(* so a router that does not have the path runs its blanket middleware     *)
(* before it passes the request on.                                        *)
(*                                                                         *)
(* Only signed-in requests are considered; health and auth, which come     *)
(* first and check nothing for other paths, are left out.                  *)
(***************************************************************************)
EXTENDS Naturals, Sequences

Roles == {"parent", "supervisor", "driver", "school_admin", "ops_room", "owner",
          "partner", "sysadmin", "regulator"}

\* app.use, in the order of server.ts.
Mounted == <<"consent", "students", "trips", "supervisor", "buses", "emergency",
             "parents", "notifications", "schools", "regulator", "operations",
             "owner", "partner", "subscriptions", "sysadmin">>

\* router.use(requireRole(...)): the roles that pass a router, whatever the path.
Blanket == [r \in {Mounted[i] : i \in DOMAIN Mounted} |->
  CASE r = "regulator"  -> {"regulator"}
    [] r = "operations" -> {"ops_room", "school_admin", "owner", "partner"}
    [] r = "owner"      -> {"owner"}
    [] r = "sysadmin"   -> {"sysadmin", "owner"}
    [] OTHER            -> Roles]

\* The narrower requireRole(...) of single routes, by router, behind regulator.
OwnRoles(r) ==
  CASE r = "partner"       -> {{"partner", "owner"}, {"partner"}}
    [] r = "subscriptions" -> {Roles, {"owner"}}
    [] OTHER               -> {Blanket[r]}

VARIABLES
  request,  \* who asks for which route: its router and the roles it admits
  at,       \* the router that has the request
  answer    \* none yet, the route's handler, or 403

vars == <<request, at, answer>>

Requests ==
  UNION {[role : Roles, router : {r}, admits : OwnRoles(r)] : r \in DOMAIN Blanket}

Init ==
  /\ request \in Requests
  /\ at = 1
  /\ answer = "none"

Here == Mounted[at]

\* requireRole answers 403 itself instead of passing the request on.
Forbid ==
  /\ answer = "none"
  /\ \/ request.role \notin Blanket[Here]
     \/ Here = request.router /\ request.role \notin request.admits
  /\ answer' = "forbidden"
  /\ UNCHANGED <<request, at>>

Handle ==
  /\ answer = "none"
  /\ Here = request.router
  /\ request.role \in Blanket[Here] \cap request.admits
  /\ answer' = "handled"
  /\ UNCHANGED <<request, at>>

Pass ==
  /\ answer = "none"
  /\ Here # request.router
  /\ request.role \in Blanket[Here]
  /\ at' = at + 1
  /\ UNCHANGED <<request, answer>>

Next == Forbid \/ Handle \/ Pass

Spec == Init /\ [][Next]_vars

-----------------------------------------------------------------------------
\* A role that a route and its router admit is not turned away on the way there:
\* the comment at server.ts:57 mounts regulatorRouter before the routers with a
\* blanket requireRole for that reason, and partner.routes.ts:10 announces "a
\* partner's own dashboard".
RolesReachTheirRoutes ==
  answer = "forbidden" => request.role \notin Blanket[request.router] \cap request.admits
=============================================================================
