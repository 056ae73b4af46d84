-------------------------------- MODULE Erp --------------------------------
(***************************************************************************)
(* Three areas of IDURAR: the ledger of invoices and payments on the       *)
(* server, the customer screen with the collection it edits, and logging   *)
(* in and out.  They share no collection and no slice of the store, so a   *)
(* behaviour has the traffic of one area, which is chosen at the start.    *)
(* What the screens do within one login is the business of the first two.  *)
(***************************************************************************)
EXTENDS ErpLedger, CrudModule, ErpSessions

VARIABLE area   \* the area the users work in

erpVars == <<area, vars, crudVars, sessionsVars>>

\* The users' discipline is about the ledger alone.
ErpInit ==
  /\ area \in {"ledger", "customers", "sessions"}
  /\ Init /\ CrudInit /\ SessionsInitially
  /\ area # "ledger" => discipline = CHOOSE d \in Disciplines : TRUE

ErpNext ==
  /\ UNCHANGED area
  /\ \/ area = "ledger" /\ Next /\ UNCHANGED <<crudVars, sessionsVars>>
     \/ area = "customers" /\ CrudNext /\ UNCHANGED <<vars, sessionsVars>>
     \/ area = "sessions" /\ SessionsStep /\ UNCHANGED <<vars, crudVars>>

ErpSpec == ErpInit /\ [][ErpNext]_erpVars

-----------------------------------------------------------------------------
\* The collections, requests and screens of the area in use keep their types.
ErpTypeOK ==
  CASE area = "ledger"    -> LedgerTypeOK
    [] area = "customers" -> CrudTypeOK
    [] area = "sessions"  -> LoginsTypeOK
=============================================================================
