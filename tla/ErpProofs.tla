----------------------------- MODULE ErpProofs -----------------------------
(***************************************************************************)
(* Proofs about two areas of IDURAR -- the customer screen with the        *)
(* collection it edits, and logging in and out -- and about the program    *)
(* with all three: each area's own specification is what a behaviour of    *)
(* Erp obeys, so what is proved of an area (here and in ErpLedgerProofs)   *)
(* holds in Erp.                                                           *)
(***************************************************************************)
EXTENDS Erp, ErpLedgerProofs, FiniteSetTheorems

-----------------------------------------------------------------------------
(* The customer screen: any number of records, pages, searches and calls.   *)

Stores == [current : Maybe, list : Tables, created : BOOLEAN, update : Maybe,
           updated : BOOLEAN, delete : Maybe, deleted : BOOLEAN]
Displays == [page : {"away", "fresh", "opened"}, panel : BOOLEAN, box : BOOLEAN,
            view : {"none", "read", "edit"}, modal : BOOLEAN, form : Maybe,
            displayItem : Maybe]
Replies == {"absent", "live", "removed"}

Forms  == {"create", "update"}
Writes == {"create", "update", "delete"}

\* What the dialog, the panel and the forms rely on.  The dialog is shown only
\* before its deletion was answered; a panel, and a record in it, only once the
\* drawer was opened; and an answer of a form has left its record behind.
DialogNames == screen.modal => /\ store.delete \in Records
                               /\ store.delete = screen.displayItem
                               /\ ~store.deleted /\ screen.page # "away"
FormSaves   == screen.view = "edit" => /\ store.update \in Records
                                       /\ store.update = screen.form
                                       /\ store.update = store.current
PanelShows  == /\ screen.view # "none" => store.current \in Records /\ screen.page = "opened"
               /\ screen.panel => screen.page = "opened"
AnswerLeft  == store.created \/ store.updated => store.current \in Records
Answers     == \A c \in Calls, k \in Forms : Answered(c, k) => call[c].result \in Records

Shown == DialogNames /\ FormSaves /\ PanelShows /\ AnswerLeft /\ Answers

\* A table with the answer to a recent list shows what the server has, unless a
\* write is on its way back; so does such an answer on its way to the table.
Excused  == \E c \in Calls, k \in Writes : Answered(c, k)
UpToDate(list) == list.rows = Rows(list.query) \/ Excused
CaughtUp == /\ "table" \in recent => UpToDate(store.list)
            /\ \A c \in Calls : c \in recent /\ Answered(c, "list") => UpToDate(call[c].result)

CrudInv == CrudTypeOK /\ Shown /\ CaughtUp

-----------------------------------------------------------------------------
(* What a request in flight holds, and what a list is after a write.        *)

LEMMA CallShape ==
  ASSUME CrudTypeOK, NEW c \in Calls
  PROVE  /\ Answered(c, "list") => call[c].result \in Tables
         /\ \A k \in Writes : Answered(c, k) => call[c].result \in Maybe
         /\ Serving(c, "list") => call[c].of \in SUBSET Records
  BY DEF CrudTypeOK, CallStates, Answered, Serving, NoCall, Writes

LEMMA RowsType ==
  ASSUME NEW q \in SUBSET Records PROVE [query |-> q, rows |-> Rows(q)] \in Tables
  BY DEF Rows, Tables

LEMMA OlderType ==
  ASSUME NEW list \in Tables, NEW r \in Records PROVE Older(list, r) \in Tables
  BY DEF Older, Tables

LEMMA NoRowsType == NoRows \in Tables
  BY DEF NoRows, Tables

LEMMA HiddenType ==
  ASSUME NEW sc \in Displays PROVE Hidden(sc) \in Displays
  BY DEF Hidden, Displays, Maybe

LEMMA SettleType ==
  ASSUME NEW st \in Stores PROVE Settle(st) \in Stores
  BY DEF Settle, Stores, Maybe

LEMMA SentType ==
  ASSUME NEW k \in Writes, NEW o \in Maybe, NEW q \in SUBSET Records
  PROVE  Sent(k, o) \in CallStates /\ Sent("list", q) \in CallStates
  BY DEF Sent, CallStates, Writes

-----------------------------------------------------------------------------
(* Types.                                                                   *)

LEMMA CrudInitHolds == CrudInit => CrudInv
<1> SUFFICES ASSUME CrudInit PROVE CrudInv
  OBVIOUS
<1>1. InitialStore \in Stores /\ InitialScreen("away") \in Displays
  BY NoRowsType DEF InitialStore, InitialScreen, Stores, Displays, Maybe
<1>2. CrudTypeOK
  BY <1>1, CrudAssumption
     DEF CrudInit, CrudTypeOK, CallStates, Stores, Displays, Serving, NoCall
<1>3. Shown
  BY DEF CrudInit, Shown, DialogNames, FormSaves, PanelShows, AnswerLeft, Answers, Answered,
         InitialStore, InitialScreen, NoCall, Forms
<1>4. CaughtUp
  BY CrudAssumption DEF CrudInit, CaughtUp, Answered, NoCall
<1> QED BY <1>2, <1>3, <1>4 DEF CrudInv

\* CrudTypeOK in parts.
CallOK ==
  /\ call \in [Calls -> CallStates]
  /\ \A c \in Calls : Serving(c, "update") \/ Serving(c, "delete") => call[c].of \in Records
  /\ recent \subseteq Calls \cup {"table"}
SliceOK == store \in Stores /\ screen \in Displays

LEMMA TypeParts ==
  CrudTypeOK <=> client \in [Records -> Replies] /\ CallOK /\ SliceOK
  BY DEF CrudTypeOK, CallOK, SliceOK, Stores, Displays, Replies

LEMMA TypePartsNext ==
  client' \in [Records -> Replies] /\ CallOK' /\ SliceOK' => CrudTypeOK'
  BY DEF CrudTypeOK, CallOK, SliceOK, Stores, Displays, Replies

LEMMA SendListsType ==
  ASSUME CallOK, NEW S \in SUBSET Calls, NEW q \in SUBSET Records, SendLists(S, q)
  PROVE  CallOK'
<1>1. Sent("list", q) \in CallStates
  BY DEF Sent, CallStates
<1>2. call' \in [Calls -> CallStates]
  BY <1>1 DEF SendLists, CallOK
<1>3. \A c \in Calls : Serving(c, "update")' \/ Serving(c, "delete")' => call'[c].of \in Records
  BY DEF SendLists, CallOK, Serving, Sent
<1>4. recent' \subseteq Calls \cup {"table"}
  BY DEF SendLists, CallOK
<1> QED BY <1>2, <1>3, <1>4 DEF CallOK

LEMMA OneCallType ==
  ASSUME CallOK, NEW c \in Calls, NEW x \in CallStates,
         x.key \in {"update", "delete"} /\ x.at = "sent" => x.of \in Records,
         call' = [call EXCEPT ![c] = x], recent' \subseteq Calls \cup {"table"}
  PROVE  CallOK'
<1>1. call' \in [Calls -> CallStates]
  BY DEF CallOK
<1>2. \A d \in Calls : Serving(d, "update")' \/ Serving(d, "delete")' => call'[d].of \in Records
  BY DEF CallOK, Serving
<1> QED BY <1>1, <1>2 DEF CallOK

LEMMA SendType ==
  ASSUME CallOK, NEW c \in Calls, NEW k \in Writes, NEW o \in Maybe, Send(c, k, o),
         k \in {"update", "delete"} => o \in Records
  PROVE  CallOK'
<1> DEFINE x == Sent(k, o)
<1>1. x \in CallStates /\ (x.key \in {"update", "delete"} /\ x.at = "sent" => x.of \in Records)
  BY SentType DEF Sent
<1>2. call' = [call EXCEPT ![c] = x] /\ recent' \subseteq Calls \cup {"table"}
  BY DEF Send, CallOK
<1> HIDE DEF x
<1> QED BY <1>1, <1>2, OneCallType

LEMMA OpenPanelType ==
  ASSUME CallOK, NEW st \in Stores, NEW sc \in Displays, OpenPanel(st, sc)
  PROVE  CallOK' /\ SliceOK' /\ UNCHANGED client
<1> DEFINE late == sc.page = "fresh" /\ Waiting(st) > 0
<1>1. PICK S \in SUBSET Calls : SendLists(S, Records)
  BY DEF OpenPanel
<1>2. CallOK'
  BY <1>1, SendListsType
<1>3. store' \in Stores
  BY SettleType DEF OpenPanel
<1>4. [sc EXCEPT !.page = "opened", !.panel = TRUE, !.view = IF late THEN "read" ELSE @,
                 !.box = IF late THEN TRUE ELSE @] \in Displays
  BY DEF Displays
<1>5. screen' \in Displays
  BY <1>4, HiddenType DEF OpenPanel
<1> QED BY <1>2, <1>3, <1>5 DEF SliceOK, OpenPanel

LEMMA ShowType ==
  ASSUME CrudTypeOK, NEW sc \in Displays, Show(sc)
  PROVE  CrudTypeOK'
<1>1. screen' \in Displays /\ UNCHANGED <<client, call, store, recent>>
  BY HiddenType DEF Show
<1>2. CallOK' /\ SliceOK'
  BY <1>1, TypeParts DEF CallOK, SliceOK, Serving
<1> QED BY <1>1, <1>2, TypeParts, TypePartsNext

LEMMA WriteType ==
  ASSUME CrudTypeOK, NEW c \in Calls, NEW r \in Records, NEW s \in Replies,
         call[c].key \in Writes, Write(c, r, s)
  PROVE  CrudTypeOK'
<1>0. Reply(c, r) \in CallStates
  BY DEF Reply, CallStates, Maybe, Writes
<1>1. client' \in [Records -> Replies]
  BY TypeParts DEF Write
<1>2. store \in Stores /\ store.list \in Tables
  BY TypeParts DEF SliceOK, Stores
<1>3. SliceOK'
  <2>1. store' \in Stores
    BY <1>2, OlderType DEF Write, Stores
  <2> QED BY <2>1, TypeParts DEF Write, SliceOK
<1>4. \A d \in Calls : Answered(d, "list") => [call[d] EXCEPT !.result = Older(@, r)] \in CallStates
  <2> SUFFICES ASSUME NEW d \in Calls, Answered(d, "list")
               PROVE  [call[d] EXCEPT !.result = Older(@, r)] \in CallStates
    OBVIOUS
  <2>1. Older(call[d].result, r) \in Tables
    BY CallShape, OlderType
  <2>2. call[d] \in [key : {"list"}, at : {"served"}, result : Tables]
    BY DEF CrudTypeOK, CallStates, Answered, NoCall
  <2> QED BY <2>1, <2>2 DEF CallStates
<1>5. call' \in [Calls -> CallStates]
  BY <1>0, <1>4, TypeParts DEF Write, CallOK
<1>6. \A d \in Calls : Serving(d, "update")' \/ Serving(d, "delete")' => call'[d].of \in Records
  BY TypeParts DEF Write, CallOK, Serving, Reply, Answered
<1>7. CallOK'
  BY <1>5, <1>6, TypeParts DEF Write, CallOK
<1> QED BY <1>1, <1>3, <1>7, TypePartsNext

LEMMA CrudTypeStep ==
  ASSUME CrudTypeOK, Shown, [CrudNext]_crudVars
  PROVE  CrudTypeOK'
<1> USE CrudAssumption
<1>0. /\ client \in [Records -> Replies] /\ CallOK
      /\ store \in Stores /\ screen \in Displays
      /\ \A r \in Records : r \in Maybe
      /\ NoRecord \in Maybe /\ NoCall \in CallStates
  BY TypeParts DEF SliceOK, Maybe, CallStates
<1>1. CASE UNCHANGED crudVars
  BY <1>1 DEF crudVars, CrudTypeOK, Serving
<1>2. ASSUME Enter PROVE CrudTypeOK'
  <2>1. CallOK'
    BY <1>0, <1>2, SendListsType DEF Enter
  <2>2. InitialStore \in Stores /\ InitialScreen("fresh") \in Displays
    BY <1>0, NoRowsType DEF InitialStore, InitialScreen, Stores, Displays
  <2> QED BY <1>0, <1>2, <2>1, <2>2, TypePartsNext DEF Enter, SliceOK
<1>3. ASSUME Leave PROVE CrudTypeOK'
  <2>1. InitialScreen("away") \in Displays
    BY <1>0 DEF InitialScreen, Displays
  <2>2. CallOK' /\ SliceOK'
    BY <1>0, <1>3, <2>1 DEF Leave, CallOK, SliceOK, Serving
  <2> QED BY <1>0, <1>3, <2>2, TypePartsNext DEF Leave
<1>4. ASSUME AddNewItem PROVE CrudTypeOK'
  <2>1. [screen EXCEPT !.box = FALSE] \in Displays
    BY <1>0 DEF Displays
  <2>2. CallOK' /\ SliceOK' /\ UNCHANGED client
    BY <1>0, <1>4, <2>1, OpenPanelType DEF AddNewItem
  <2> QED BY <1>0, <2>2, TypePartsNext
<1>5. ASSUME NEW r \in Maybe, OpenModal(r) PROVE CrudTypeOK'
  <2>1. CallOK' /\ SliceOK'
    BY <1>0, <1>5 DEF OpenModal, CallOK, SliceOK, Serving, Stores, Displays
  <2> QED BY <1>0, <1>5, <2>1, TypePartsNext DEF OpenModal
<1>6. CASE HandleDelete
  BY <1>0, <1>5, <1>6 DEF HandleDelete
<1>7. CASE RemoveItem
  <2>1. store.current \in Maybe
    BY <1>0 DEF Stores
  <2> QED BY <1>5, <1>7, <2>1 DEF RemoveItem
<1>8. CASE EditItem
  <2>1. CallOK' /\ SliceOK'
    BY <1>0, <1>8 DEF EditItem, CallOK, SliceOK, Serving, Stores, Displays
  <2> QED BY <1>0, <1>8, <2>1, TypePartsNext DEF EditItem
<1>9. CASE CancelEdit \/ CollapsePanel \/ CollapseBox \/ HandleCancel
  <2>1. /\ [screen EXCEPT !.view = "read"] \in Displays
        /\ [screen EXCEPT !.panel = FALSE] \in Displays
        /\ [screen EXCEPT !.box = ~@] \in Displays
        /\ [screen EXCEPT !.modal = FALSE] \in Displays
    BY <1>0 DEF Displays
  <2> QED BY <1>9, <2>1, ShowType DEF CancelEdit, CollapsePanel, CollapseBox, HandleCancel
<1>10. ASSUME NEW r \in Records, HandleRead(r) \/ HandleEdit(r) \/ OnSelect(r) PROVE CrudTypeOK'
  <2>1. /\ [store EXCEPT !.current = r] \in Stores
        /\ [store EXCEPT !.current = r, !.update = r, !.updated = FALSE] \in Stores
    BY <1>0 DEF Stores
  <2>2. /\ [screen EXCEPT !.box = TRUE, !.view = "read"] \in Displays
        /\ [screen EXCEPT !.box = TRUE, !.view = "edit", !.form = r] \in Displays
    BY <1>0 DEF Displays
  <2>3. CASE HandleRead(r)
    BY <1>0, <2>1, <2>2, <2>3, OpenPanelType, TypePartsNext DEF HandleRead
  <2>4. CASE HandleEdit(r)
    BY <1>0, <2>1, <2>2, <2>4, OpenPanelType, TypePartsNext DEF HandleEdit
  <2>5. CASE OnSelect(r)
    <3>1. CallOK' /\ SliceOK'
      BY <1>0, <2>1, <2>2, <2>5, HiddenType DEF OnSelect, CallOK, SliceOK, Serving
    <3> QED BY <1>0, <2>5, <3>1, TypePartsNext DEF OnSelect
  <2> QED BY <1>10, <2>3, <2>4, <2>5
<1>11. ASSUME NEW c \in Calls, NEW q \in Queries, Filter(c, q) PROVE CrudTypeOK'
  <2>1. q \in SUBSET Records /\ {c} \in SUBSET Calls
    OBVIOUS
  <2>2. CallOK'
    BY <1>0, <1>11, <2>1, SendListsType DEF Filter
  <2> QED BY <1>0, <1>11, <2>2, TypePartsNext DEF Filter, SliceOK
<1>12. ASSUME NEW c \in Calls, SubmitCreate(c) \/ SubmitUpdate(c) PROVE CrudTypeOK'
  <2>1. CASE SubmitCreate(c)
    <3>1. CallOK'
      BY <1>0, <2>1, SendType DEF SubmitCreate, Writes
    <3> QED BY <1>0, <2>1, <3>1, TypePartsNext DEF SubmitCreate, SliceOK
  <2>2. CASE SubmitUpdate(c)
    <3>0. store.update \in Records
      BY <2>2 DEF SubmitUpdate, Shown, FormSaves
    <3>1. CallOK'
      BY <1>0, <2>2, <3>0, SendType DEF SubmitUpdate, Writes
    <3> QED BY <1>0, <2>2, <3>1, TypePartsNext DEF SubmitUpdate, SliceOK
  <2> QED BY <1>12, <2>1, <2>2
<1>13. ASSUME NEW c \in Calls, HandleOk(c) PROVE CrudTypeOK'
  <2>0. store.delete \in Records
    BY <1>13 DEF HandleOk, Shown, DialogNames
  <2>1. CallOK'
    BY <1>0, <1>13, <2>0, SendType DEF HandleOk, Writes
  <2>2. store' \in Stores
    BY <1>0, <1>13 DEF HandleOk, Stores
  <2>3. [screen EXCEPT !.modal = FALSE, !.panel = FALSE,
                       !.view = IF @ = "read" THEN "none" ELSE @] \in Displays
    BY <1>0 DEF Displays
  <2>4. screen' \in Displays
    BY <1>13, <2>3, HiddenType DEF HandleOk
  <2> QED BY <1>0, <1>13, <2>1, <2>2, <2>4, TypePartsNext DEF HandleOk, SliceOK
<1>14. ASSUME NEW c \in Calls, ServeList(c) PROVE CrudTypeOK'
  <2>1. call[c].of \in SUBSET Records
    BY <1>14, CallShape DEF ServeList
  <2>2. Reply(c, [query |-> call[c].of, rows |-> Rows(call[c].of)]) \in CallStates
    BY <1>14, <2>1, RowsType DEF ServeList, Serving, Reply, CallStates
  <2>3. CallOK'
    BY <1>0, <1>14, <2>2, OneCallType DEF ServeList, Serving, Reply, CallOK
  <2> QED BY <1>0, <1>14, <2>3, TypePartsNext DEF ServeList, SliceOK
<1>15. ASSUME NEW c \in Calls, ServeCreate(c) \/ ServeUpdate(c) \/ ServeDelete(c) PROVE CrudTypeOK'
  <2>1. PICK r \in Records, s \in Replies : Write(c, r, s)
    <3>1. "live" \in Replies /\ "removed" \in Replies
      BY DEF Replies
    <3>2. Serving(c, "update") \/ Serving(c, "delete") => call[c].of \in Records
      BY <1>0 DEF CallOK
    <3> QED BY <1>15, <3>1, <3>2 DEF ServeCreate, ServeUpdate, ServeDelete
  <2>2. call[c].key \in Writes
    BY <1>15 DEF ServeCreate, ServeUpdate, ServeDelete, Serving, Writes
  <2> QED BY <2>1, <2>2, WriteType
<1>16. ASSUME NEW c \in Calls, NEW x \in {NoCall, Sent("list", Records)},
              call' = [call EXCEPT ![c] = x], recent' \subseteq Calls \cup {"table"}
       PROVE  CallOK'
  <2>1. x \in CallStates /\ x.key \notin {"update", "delete"}
    BY <1>0 DEF NoCall, Sent, CallStates
  <2> QED BY <1>0, <1>16, <2>1, OneCallType
<1>17. ASSUME NEW c \in Calls, ListAnswer(c) PROVE CrudTypeOK'
  <2>1. store' \in Stores
    BY <1>0, <1>17, CallShape DEF ListAnswer, Stores
  <2>2. recent' \subseteq Calls \cup {"table"}
    BY <1>0, <1>17 DEF ListAnswer, CallOK
  <2> QED BY <1>0, <1>16, <1>17, <2>1, <2>2, TypePartsNext DEF ListAnswer, Done, SliceOK
<1>18. ASSUME NEW c \in Calls, FormAnswer(c) PROVE CrudTypeOK'
  <2>1. call[c].result \in Maybe
    BY <1>18, CallShape DEF FormAnswer, Writes
  <2>2. store' \in Stores
    BY <1>0, <1>18, <2>1 DEF FormAnswer, Stores
  <2>3. [screen EXCEPT !.panel = TRUE, !.box = TRUE, !.view = "read"] \in Displays
    BY <1>0 DEF Displays
  <2>4. screen' \in Displays
    BY <1>0, <1>18, <2>3, HiddenType DEF FormAnswer
  <2>5. CallOK'
    <3>1. CASE Refresh(c)
      BY <1>0, <1>16, <3>1 DEF Refresh
    <3>2. CASE NotRefreshed(c)
      BY <1>0, <1>16, <3>2 DEF NotRefreshed, Done, CallOK
    <3> QED BY <1>18, <3>1, <3>2 DEF FormAnswer
  <2> QED BY <1>0, <1>18, <2>2, <2>4, <2>5, TypePartsNext DEF FormAnswer, SliceOK
<1>19. ASSUME NEW c \in Calls, DeleteAnswer(c) PROVE CrudTypeOK'
  <2>1. store' \in Stores
    BY <1>0, <1>19 DEF DeleteAnswer, Stores
  <2>2. [screen EXCEPT !.modal = FALSE] \in Displays
    BY <1>0 DEF Displays
  <2>3. screen' \in Displays
    BY <1>0, <1>19, <2>2, HiddenType DEF DeleteAnswer
  <2>4. CallOK'
    <3>1. CASE Refresh(c)
      BY <1>0, <1>16, <3>1 DEF Refresh
    <3>2. CASE NotRefreshed(c)
      BY <1>0, <1>16, <3>2 DEF NotRefreshed, Done, CallOK
    <3> QED BY <1>19, <3>1, <3>2 DEF DeleteAnswer
  <2> QED BY <1>0, <1>19, <2>1, <2>3, <2>4, TypePartsNext DEF DeleteAnswer, SliceOK
<1>20. ASSUME NEW c \in Calls, CallFails(c) PROVE CrudTypeOK'
  <2>1. store' \in Stores
    BY <1>0, <1>20 DEF CallFails, Stores
  <2>2. CallOK'
    BY <1>0, <1>16, <1>20 DEF CallFails, Done, CallOK
  <2> QED BY <1>0, <1>20, <2>1, <2>2, TypePartsNext DEF CallFails, SliceOK
<1> QED
  BY <1>1, <1>2, <1>3, <1>4, <1>6, <1>7, <1>8, <1>9, <1>10, <1>11, <1>12, <1>13, <1>14, <1>15,
     <1>17, <1>18, <1>19, <1>20 DEF CrudNext

-----------------------------------------------------------------------------
(* The screen: every step keeps Shown.                                      *)

\* A step that changes neither what is shown nor what the answers of forms hold.
LEMMA AnswersKept ==
  ASSUME Answers, NEW c \in Calls, NEW x, call \in [Calls -> CallStates],
         call' = [call EXCEPT ![c] = x],
         \A k \in Forms : x.key = k /\ x.at = "served" => x.result \in Records
  PROVE  Answers'
  BY DEF Answers, Answered

LEMMA AnswersSent ==
  ASSUME Answers, NEW S \in SUBSET Calls, NEW q, SendLists(S, q)
  PROVE  Answers'
  BY DEF Answers, Answered, SendLists, Sent, Forms

LEMMA OpenPanelShown ==
  ASSUME Answers, NEW st \in Stores, NEW sc \in Displays, OpenPanel(st, sc),
         ~sc.modal,
         sc.view # "none" => st.current \in Records,
         sc.view = "edit" => st.update \in Records /\ st.update = sc.form /\ st.update = st.current,
         st.created \/ st.updated => st.current \in Records
  PROVE  Shown'
<1> DEFINE late == sc.page = "fresh" /\ Waiting(st) > 0
           shown == [sc EXCEPT !.page = "opened", !.panel = TRUE,
                               !.view = IF late THEN "read" ELSE @,
                               !.box = IF late THEN TRUE ELSE @]
<1>1. store' = (IF late THEN Settle(st) ELSE st) /\ screen' = Hidden(shown)
  BY DEF OpenPanel
<1>2. Answers'
  BY AnswersSent DEF OpenPanel
<1>3. late => st.current \in Records
  BY DEF Waiting, Stores
<1>4. /\ screen'.page = "opened" /\ ~screen'.modal
      /\ screen'.view = (IF late THEN "read" ELSE sc.view)
      /\ screen'.view = "edit" => screen'.form = sc.form
  BY <1>1 DEF Hidden, Displays
<1>5. store'.current = st.current /\ (store'.created \/ store'.updated => st.created \/ st.updated)
  BY <1>1 DEF Settle, Stores
<1>6. ~late => store' = st
  BY <1>1
<1> QED
  BY <1>2, <1>3, <1>4, <1>5, <1>6 DEF Shown, DialogNames, FormSaves, PanelShows, AnswerLeft

LEMMA ShownStep ==
  ASSUME CrudTypeOK, Shown, [CrudNext]_crudVars
  PROVE  Shown'
<1> USE DEF DialogNames, FormSaves, PanelShows, AnswerLeft
<1>0. /\ store \in Stores /\ screen \in Displays /\ call \in [Calls -> CallStates]
      /\ Answers /\ NoRecord \notin Records
  BY TypeParts, CrudAssumption DEF SliceOK, CallOK, Shown
<1>1. CASE UNCHANGED crudVars
  BY <1>1 DEF crudVars, Shown, Answers, Answered
<1>2. CASE Enter
  <2>1. Answers'
    BY <1>0, <1>2, AnswersSent DEF Enter
  <2> QED BY <1>2, <2>1 DEF Enter, Shown, InitialStore, InitialScreen
<1>3. CASE Leave
  BY <1>0, <1>3 DEF Leave, Shown, InitialScreen, Answers, Answered
<1>4. CASE AddNewItem
  <2>1. [screen EXCEPT !.box = FALSE] \in Displays
    BY <1>0 DEF Displays
  <2> QED BY <1>0, <1>4, <2>1, OpenPanelShown DEF AddNewItem, Shown, OnTable, Displays
<1>5. ASSUME NEW r \in Records, OpenModal(r), screen.page # "away" PROVE Shown'
  <2>1. Answers'
    BY <1>0, <1>5 DEF OpenModal, Answers, Answered
  <2> QED BY <1>0, <1>5, <2>1 DEF OpenModal, Shown, Stores, Displays
<1>6. CASE HandleDelete
  BY <1>5, <1>6 DEF HandleDelete, OnTable
<1>7. CASE RemoveItem
  BY <1>5, <1>7 DEF RemoveItem, OnTop, OnPanel, Shown
<1>8. CASE EditItem
  <2>1. Answers'
    BY <1>0, <1>8 DEF EditItem, Answers, Answered
  <2> QED BY <1>0, <1>8, <2>1 DEF EditItem, Shown, Stores, Displays, OnTop, OnPanel
<1>9. CASE CancelEdit \/ CollapsePanel \/ CollapseBox \/ HandleCancel
  <2>1. Answers' /\ store' = store
    BY <1>0, <1>9
       DEF CancelEdit, CollapsePanel, CollapseBox, HandleCancel, Show, Answers, Answered
  <2>2. /\ screen'.page = screen.page
        /\ screen'.view # "none" => screen.view # "none"
        /\ screen'.view = "edit" => screen.view = "edit" /\ screen'.form = screen.form
        /\ screen'.panel => screen.panel
        /\ screen'.modal => screen.modal /\ screen'.displayItem = screen.displayItem
    BY <1>0, <1>9
       DEF CancelEdit, CollapsePanel, CollapseBox, HandleCancel, Show, Hidden, Displays
  <2> QED BY <2>1, <2>2 DEF Shown
<1>10. ASSUME NEW r \in Records, HandleRead(r) PROVE Shown'
  <2> DEFINE st == [store EXCEPT !.current = r]
             sc == [screen EXCEPT !.box = TRUE, !.view = "read"]
  <2>1. st \in Stores /\ sc \in Displays /\ st.current = r /\ sc.view = "read" /\ ~sc.modal
    BY <1>0, <1>10 DEF Stores, Displays, Maybe, HandleRead, OnTable
  <2>2. OpenPanel(st, sc)
    BY <1>10 DEF HandleRead
  <2> HIDE DEF st, sc
  <2> QED BY <1>0, <2>1, <2>2, OpenPanelShown
<1>11. ASSUME NEW r \in Records, HandleEdit(r) PROVE Shown'
  <2> DEFINE st == [store EXCEPT !.current = r, !.update = r, !.updated = FALSE]
             sc == [screen EXCEPT !.box = TRUE, !.view = "edit", !.form = r]
  <2>1. /\ st \in Stores /\ sc \in Displays /\ st.current = r /\ st.update = r
        /\ sc.form = r /\ ~sc.modal
    BY <1>0, <1>11 DEF Stores, Displays, Maybe, HandleEdit, OnTable
  <2>2. OpenPanel(st, sc)
    BY <1>11 DEF HandleEdit
  <2> HIDE DEF st, sc
  <2> QED BY <1>0, <2>1, <2>2, OpenPanelShown
<1>12. ASSUME NEW r \in Records, OnSelect(r) PROVE Shown'
  <2>1. Answers'
    BY <1>0, <1>12 DEF OnSelect, Answers, Answered
  <2> QED BY <1>0, <1>12, <2>1 DEF OnSelect, Shown, Stores, Displays, Hidden, OnPanel
<1>13. ASSUME NEW c \in Calls, NEW q \in Queries, Filter(c, q) PROVE Shown'
  <2>1. Answers'
    BY <1>0, <1>13, AnswersSent DEF Filter
  <2> QED BY <1>13, <2>1 DEF Filter, Shown
<1>14. ASSUME NEW c \in Calls, NEW k, NEW o, Send(c, k, o) PROVE Answers'
  BY <1>0, <1>14 DEF Answers, Answered, Send, Sent
<1>15. ASSUME NEW c \in Calls, SubmitCreate(c) \/ SubmitUpdate(c) PROVE Shown'
  BY <1>14, <1>15 DEF SubmitCreate, SubmitUpdate, Shown
<1>16. ASSUME NEW c \in Calls, HandleOk(c) PROVE Shown'
  <2>1. Answers'
    BY <1>14, <1>16 DEF HandleOk
  <2>2. /\ store'.current = store.current /\ store'.update = store.update
        /\ store'.created = store.created /\ store'.updated = store.updated
    BY <1>0, <1>16 DEF HandleOk, Stores
  <2>3. /\ ~screen'.modal /\ ~screen'.panel /\ screen'.page = screen.page
        /\ screen'.view # "none" => screen.view # "none"
        /\ screen'.view = "edit" => screen.view = "edit" /\ screen'.form = screen.form
    BY <1>0, <1>16 DEF HandleOk, Hidden, Displays
  <2> QED BY <2>1, <2>2, <2>3 DEF Shown
<1>17. ASSUME NEW c \in Calls, ServeList(c) PROVE Shown'
  <2>1. Answers'
    BY <1>0, <1>17 DEF ServeList, Serving, Reply, Answers, Answered, Forms
  <2> QED BY <1>17, <2>1 DEF ServeList, Shown
<1>18. ASSUME NEW c \in Calls, NEW r \in Records, NEW s, Write(c, r, s) PROVE Shown'
  <2>1. Answers'
    BY <1>0, <1>18 DEF Write, Reply, Answers, Answered, Forms
  <2>2. /\ store'.current = store.current /\ store'.update = store.update
        /\ store'.created = store.created /\ store'.updated = store.updated
        /\ store'.delete = store.delete /\ store'.deleted = store.deleted
    BY <1>0, <1>18 DEF Write, Stores
  <2> QED BY <1>18, <2>1, <2>2 DEF Write, Shown
<1>19. ASSUME NEW c \in Calls, ServeCreate(c) \/ ServeUpdate(c) \/ ServeDelete(c) PROVE Shown'
  <2>1. Serving(c, "update") \/ Serving(c, "delete") => call[c].of \in Records
    BY DEF CrudTypeOK
  <2> QED BY <1>18, <1>19, <2>1 DEF ServeCreate, ServeUpdate, ServeDelete
<1>20. ASSUME NEW c \in Calls, Done(c) \/ Refresh(c) PROVE Answers'
  BY <1>0, <1>20 DEF Done, Refresh, Sent, NoCall, Answers, Answered, Forms
<1>21. ASSUME NEW c \in Calls, ListAnswer(c) PROVE Shown'
  <2>1. /\ store'.current = store.current /\ store'.update = store.update
        /\ store'.created = store.created /\ store'.updated = store.updated
        /\ store'.delete = store.delete /\ store'.deleted = store.deleted
    BY <1>0, <1>21 DEF ListAnswer, Stores
  <2>2. Answers'
    BY <1>20, <1>21 DEF ListAnswer
  <2> QED BY <1>21, <2>1, <2>2 DEF ListAnswer, Shown
<1>22. ASSUME NEW c \in Calls, FormAnswer(c) PROVE Shown'
  <2>1. call[c].result \in Records
    BY <1>0, <1>22 DEF FormAnswer, Answers, Forms
  <2>2. Answers'
    BY <1>20, <1>22 DEF FormAnswer, NotRefreshed
  <2>3. /\ store'.current = call[c].result
        /\ store'.delete = store.delete /\ store'.deleted = store.deleted
    BY <1>0, <1>22 DEF FormAnswer, Stores
  <2>4. CASE screen.page = "opened"
    <3>1. /\ screen'.view = "read" /\ screen'.page = "opened" /\ screen'.modal = screen.modal
          /\ screen'.modal => screen'.displayItem = screen.displayItem
      BY <1>0, <1>22, <2>4 DEF FormAnswer, Hidden, Displays
    <3> QED BY <2>1, <2>2, <2>3, <2>4, <3>1 DEF Shown
  <2>5. CASE screen.page # "opened"
    <3>1. screen' = screen /\ screen.view = "none"
      BY <1>0, <1>22, <2>5 DEF FormAnswer, Shown
    <3> QED BY <2>1, <2>2, <2>3, <2>5, <3>1 DEF Shown
  <2> QED BY <2>4, <2>5
<1>23. ASSUME NEW c \in Calls, DeleteAnswer(c) PROVE Shown'
  <2>1. Answers'
    BY <1>20, <1>23 DEF DeleteAnswer, NotRefreshed
  <2>2. /\ store'.current = store.current /\ store'.update = store.update
        /\ store'.created = store.created /\ store'.updated = store.updated
    BY <1>0, <1>23 DEF DeleteAnswer, Stores
  <2>3. /\ ~screen'.modal /\ screen'.panel = screen.panel /\ screen'.page = screen.page
        /\ screen'.view = screen.view
        /\ screen'.view = "edit" => screen'.form = screen.form
    BY <1>0, <1>23 DEF DeleteAnswer, Hidden, Displays, Shown
  <2> QED BY <2>1, <2>2, <2>3 DEF Shown
<1>24. ASSUME NEW c \in Calls, CallFails(c) PROVE Shown'
  <2>1. Answers'
    BY <1>20, <1>24 DEF CallFails
  <2>2. /\ store'.current = store.current /\ store'.update = store.update
        /\ store'.created => store.created
        /\ store'.updated => store.updated
        /\ store'.delete = store.delete /\ (store'.deleted => store.deleted)
    BY <1>0, <1>24 DEF CallFails, Stores
  <2> QED BY <1>24, <2>1, <2>2 DEF CallFails, Shown
<1> QED
  BY <1>1, <1>2, <1>3, <1>4, <1>6, <1>7, <1>8, <1>9, <1>10, <1>11, <1>12, <1>13, <1>15, <1>16,
     <1>17, <1>19, <1>21, <1>22, <1>23, <1>24 DEF CrudNext

-----------------------------------------------------------------------------
(* The table: every step keeps CaughtUp.                                    *)

LEMMA RowsKept ==
  ASSUME UNCHANGED client, NEW q PROVE Rows(q)' = Rows(q)
  BY DEF Rows, Live

\* The steps on the screen change none of it.
LEMMA NothingAsked ==
  ASSUME CaughtUp, UNCHANGED <<client, call, recent>>, store'.list = store.list
  PROVE  CaughtUp'
<1>1. Excused' = Excused
  BY DEF Excused, Answered
<1>2. \A q : Rows(q)' = Rows(q)
  BY RowsKept
<1> QED BY <1>1, <1>2 DEF CaughtUp, UpToDate, Answered

\* Lists are asked for in free slots; the table stays, or is emptied.
LEMMA ListsAsked ==
  ASSUME CaughtUp, NEW S \in SUBSET Calls, NEW q, SendLists(S, q), UNCHANGED client,
         store'.list = store.list \/ store'.list.rows = Rows(store'.list.query)
  PROVE  CaughtUp'
<1>1. Excused => Excused'
  BY DEF Excused, Answered, SendLists, Open, NoCall, Writes
<1>2. \A r : Rows(r)' = Rows(r)
  BY RowsKept
<1>3. \A c \in Calls : Answered(c, "list")' => c \notin S /\ Answered(c, "list") /\ call'[c] = call[c]
  BY DEF Answered, SendLists, Sent
<1>4. \A x : x \in recent' /\ x \notin S => x \in recent
  BY DEF SendLists
<1>5. "table" \notin S
  BY CrudAssumption
<1>6. "table" \in recent' => UpToDate(store.list)'
  BY <1>1, <1>2, <1>4, <1>5 DEF CaughtUp, UpToDate
<1>7. ASSUME NEW c \in Calls, c \in recent', Answered(c, "list")' PROVE UpToDate(call[c].result)'
  BY <1>1, <1>2, <1>3, <1>4, <1>7 DEF CaughtUp, UpToDate
<1> QED BY <1>6, <1>7 DEF CaughtUp

\* When a write was answered, the lists from before it are not recent any more;
LEMMA AskedAgain ==
  ASSUME NEW c \in Calls, call \in [Calls -> CallStates], Refresh(c) \/ NotRefreshed(c)
  PROVE  CaughtUp'
<1>1. CASE Refresh(c)
  <2>1. recent' = {c} /\ call'[c].at = "sent"
    BY <1>1 DEF Refresh, Sent
  <2> QED BY <2>1, CrudAssumption DEF CaughtUp, Answered
<1>2. CASE NotRefreshed(c)
  BY <1>2 DEF NotRefreshed, CaughtUp
<1> QED BY <1>1, <1>2

\* and until it is answered, nothing is claimed of them.
LEMMA NowExcused == Excused' => CaughtUp'
  BY DEF CaughtUp, UpToDate

\* A call that is no answered write is sent or ends.
LEMMA OtherCall ==
  ASSUME CaughtUp, call \in [Calls -> CallStates], NEW c \in Calls, NEW x,
         \A k \in Writes : ~Answered(c, k),
         call' = [call EXCEPT ![c] = x],
         x.key = "list" => x.at = "sent",
         recent' \subseteq recent, UNCHANGED client, store'.list = store.list
  PROVE  CaughtUp'
<1>1. Excused => Excused'
  BY DEF Excused, Answered
<1>2. \A q : Rows(q)' = Rows(q)
  BY RowsKept
<1>3. \A d \in Calls : Answered(d, "list")' => Answered(d, "list") /\ call'[d] = call[d]
  BY DEF Answered
<1> QED BY <1>1, <1>2, <1>3 DEF CaughtUp, UpToDate

LEMMA OpenPanelCatchesUp ==
  ASSUME CaughtUp, NEW st \in Stores, NEW sc \in Displays, OpenPanel(st, sc), st.list = store.list
  PROVE  CaughtUp'
<1>1. PICK S \in SUBSET Calls : SendLists(S, Records)
  BY DEF OpenPanel
<1>2. store'.list = store.list /\ UNCHANGED client
  BY DEF OpenPanel, Settle, Stores
<1> QED BY <1>1, <1>2, ListsAsked

LEMMA CaughtUpStep ==
  ASSUME CrudTypeOK, CaughtUp, [CrudNext]_crudVars
  PROVE  CaughtUp'
<1>0. /\ store \in Stores /\ screen \in Displays /\ call \in [Calls -> CallStates]
      /\ "table" \notin Calls
  BY TypeParts, CrudAssumption DEF SliceOK, CallOK
<1>1. CASE UNCHANGED crudVars
  BY <1>1, NothingAsked DEF crudVars
<1>2. CASE Enter
  <2>1. PICK S \in SUBSET Calls : SendLists(S, Records)
    BY <1>2 DEF Enter
  <2>2. store'.list.rows = Rows(store'.list.query) /\ UNCHANGED client
    BY <1>2 DEF Enter, InitialStore, NoRows, Rows
  <2> QED BY <2>1, <2>2, ListsAsked
<1>3. CASE Leave
  BY <1>3, NothingAsked DEF Leave
<1>4. CASE AddNewItem
  <2>1. [screen EXCEPT !.box = FALSE] \in Displays
    BY <1>0 DEF Displays
  <2> QED BY <1>0, <1>4, <2>1, OpenPanelCatchesUp DEF AddNewItem
<1>5. CASE HandleDelete \/ RemoveItem
  <2>1. PICK r : OpenModal(r)
    BY <1>5 DEF HandleDelete, RemoveItem
  <2>2. store'.list = store.list
    BY <1>0, <2>1 DEF OpenModal, Stores
  <2> QED BY <2>1, <2>2, NothingAsked DEF OpenModal
<1>6. CASE EditItem
  <2>1. store'.list = store.list
    BY <1>0, <1>6 DEF EditItem, Stores
  <2> QED BY <1>6, <2>1, NothingAsked DEF EditItem
<1>7. CASE CancelEdit \/ CollapsePanel \/ CollapseBox \/ HandleCancel
  BY <1>7, NothingAsked DEF CancelEdit, CollapsePanel, CollapseBox, HandleCancel, Show
<1>8. ASSUME NEW r \in Records, HandleRead(r) \/ HandleEdit(r) \/ OnSelect(r) PROVE CaughtUp'
  <2>1. /\ [store EXCEPT !.current = r] \in Stores
        /\ [store EXCEPT !.current = r, !.update = r, !.updated = FALSE] \in Stores
        /\ [store EXCEPT !.current = r].list = store.list
        /\ [store EXCEPT !.current = r, !.update = r, !.updated = FALSE].list = store.list
    BY <1>0 DEF Stores, Maybe
  <2>2. /\ [screen EXCEPT !.box = TRUE, !.view = "read"] \in Displays
        /\ [screen EXCEPT !.box = TRUE, !.view = "edit", !.form = r] \in Displays
    BY <1>0 DEF Displays, Maybe
  <2>3. CASE HandleRead(r)
    BY <1>0, <2>1, <2>2, <2>3, OpenPanelCatchesUp DEF HandleRead
  <2>4. CASE HandleEdit(r)
    BY <1>0, <2>1, <2>2, <2>4, OpenPanelCatchesUp DEF HandleEdit
  <2>5. CASE OnSelect(r)
    BY <2>1, <2>5, NothingAsked DEF OnSelect
  <2> QED BY <1>8, <2>3, <2>4, <2>5
<1>9. ASSUME NEW c \in Calls, NEW q \in Queries, Filter(c, q) PROVE CaughtUp'
  <2>1. {c} \in SUBSET Calls /\ SendLists({c}, q)
    BY <1>9 DEF Filter
  <2> QED BY <1>9, <2>1, ListsAsked DEF Filter
<1>10. ASSUME NEW c \in Calls, NEW k \in Writes, NEW o, Send(c, k, o),
              UNCHANGED client, store'.list = store.list
       PROVE  CaughtUp'
  <2>1. Sent(k, o).key # "list" /\ \A j \in Writes : ~Answered(c, j)
    BY <1>10 DEF Sent, Send, Open, NoCall, Answered, Writes
  <2>2. call' = [call EXCEPT ![c] = Sent(k, o)] /\ recent' = recent
    BY <1>10 DEF Send
  <2> QED BY <1>0, <1>10, <2>1, <2>2, OtherCall
<1>11. ASSUME NEW c \in Calls, SubmitCreate(c) \/ SubmitUpdate(c) \/ HandleOk(c) PROVE CaughtUp'
  <2>1. store'.list = store.list
    BY <1>0, <1>11 DEF SubmitCreate, SubmitUpdate, HandleOk, Stores
  <2> QED BY <1>10, <1>11, <2>1 DEF SubmitCreate, SubmitUpdate, HandleOk, Writes
<1>12. ASSUME NEW c \in Calls, ServeList(c) PROVE CaughtUp'
  <2> DEFINE x == Reply(c, [query |-> call[c].of, rows |-> Rows(call[c].of)])
  <2>1. call' = [call EXCEPT ![c] = x] /\ UNCHANGED <<client, store, recent>>
    BY <1>12 DEF ServeList
  <2>2. x.result.rows = Rows(x.result.query)
    BY DEF Reply
  <2>3. Excused => Excused'
    BY <1>0, <1>12, <2>1 DEF Excused, Answered, ServeList, Serving, Writes
  <2>4. \A q : Rows(q)' = Rows(q)
    BY <2>1, RowsKept
  <2>5. \A d \in Calls : d # c => call'[d] = call[d]
    BY <1>0, <2>1
  <2>6. call'[c] = x
    BY <1>0, <2>1
  <2> HIDE DEF x
  <2> QED BY <2>1, <2>2, <2>3, <2>4, <2>5, <2>6 DEF CaughtUp, UpToDate, Answered
<1>13. ASSUME NEW c \in Calls, ServeCreate(c) \/ ServeUpdate(c) \/ ServeDelete(c) PROVE CaughtUp'
  <2>1. PICK r, s : Write(c, r, s)
    BY <1>13 DEF ServeCreate, ServeUpdate, ServeDelete
  <2>2. call[c].key \in Writes
    BY <1>13 DEF ServeCreate, ServeUpdate, ServeDelete, Serving, Writes
  <2>3. Answered(c, call[c].key)'
    BY <2>1 DEF Write, Reply, Answered
  <2>4. Excused'
    <3>1. call'[c].key = call[c].key /\ call'[c].at = "served"
      BY <2>1 DEF Write, Reply
    <3> QED BY <2>2, <3>1 DEF Excused, Answered
  <2> QED BY <2>4, NowExcused
<1>14. ASSUME NEW c \in Calls, ListAnswer(c) PROVE CaughtUp'
  <2>1. Excused => Excused'
    BY <1>0, <1>14 DEF ListAnswer, Done, Excused, Answered, Writes
  <2>2. \A q : Rows(q)' = Rows(q)
    BY <1>14, RowsKept DEF ListAnswer
  <2>3. store'.list = call[c].result
    BY <1>0, <1>14 DEF ListAnswer, Stores
  <2>4. \A d \in Calls : Answered(d, "list")' => Answered(d, "list") /\ call'[d] = call[d]
    BY <1>0, <1>14 DEF ListAnswer, Done, Answered, NoCall
  <2>5. "table" \in recent' => c \in recent
    BY <1>0, <1>14 DEF ListAnswer
  <2>6. \A d \in Calls : d \in recent' => d \in recent
    BY <1>0, <1>14 DEF ListAnswer
  <2>7. "table" \in recent' => UpToDate(store.list)'
    BY <1>14, <2>1, <2>2, <2>3, <2>5 DEF CaughtUp, UpToDate, ListAnswer
  <2> QED BY <2>1, <2>2, <2>4, <2>6, <2>7 DEF CaughtUp, UpToDate
<1>17. ASSUME NEW c \in Calls, FormAnswer(c) \/ DeleteAnswer(c) PROVE CaughtUp'
  BY <1>0, <1>17, AskedAgain DEF FormAnswer, DeleteAnswer
<1>18. ASSUME NEW c \in Calls, CallFails(c) PROVE CaughtUp'
  <2>1. CASE \E k \in Writes : Answered(c, k)
    <3>1. recent' = {}
      BY <1>18, <2>1 DEF CallFails, Writes
    <3> QED BY <3>1 DEF CaughtUp
  <2>2. CASE \A k \in Writes : ~Answered(c, k)
    <3>1. store'.list = store.list /\ recent' \subseteq recent /\ UNCHANGED client
      BY <1>0, <1>18, <2>2 DEF CallFails, Stores, Writes
    <3>2. call' = [call EXCEPT ![c] = NoCall] /\ NoCall.key # "list"
      BY <1>18 DEF CallFails, Done, NoCall
    <3> QED BY <1>0, <2>2, <3>1, <3>2, OtherCall
  <2> QED BY <2>1, <2>2
<1> QED
  BY <1>1, <1>2, <1>3, <1>4, <1>5, <1>6, <1>7, <1>8, <1>9, <1>11, <1>12, <1>13, <1>14, <1>17,
     <1>18 DEF CrudNext

-----------------------------------------------------------------------------
\* CrudInv is an inductive invariant of the customer screen.
THEOREM CrudInductive == CrudSpec => []CrudInv
<1>1. CrudInv /\ [CrudNext]_crudVars => CrudInv'
  BY CrudTypeStep, ShownStep, CaughtUpStep DEF CrudInv
<1> QED BY CrudInitHolds, <1>1, PTL DEF CrudSpec

\* What the forms and the dialog act on is what they show, for any number of
\* requests whose answers arrive meanwhile.
THEOREM ButtonsActOnShown == CrudSpec => []ActsOnWhatIsShown
<1>1. CrudInv => ActsOnWhatIsShown
  BY DEF CrudInv, Shown, DialogNames, FormSaves, PanelShows, ActsOnWhatIsShown
<1> QED BY CrudInductive, <1>1, PTL

\* When nothing is being written, a table with the answer to a list that was asked
\* for after the last write was answered shows what the server has, for any number
\* of lists and overlapping writes and any order of their answers.
THEOREM TableConverges == CrudSpec => []TableCatchesUp
<1>1. CrudInv => TableCatchesUp
  BY DEF CrudInv, CaughtUp, UpToDate, Excused, Answered, Writes, Writing, TableCatchesUp
<1> QED BY CrudInductive, <1>1, PTL

-----------------------------------------------------------------------------
(* Logging in and out.                                                      *)

\* A call that isValidAuthToken let through carries a token that was signed.
Authenticated ==
  \A c \in Fetches :
    fetch[c].kind \in {"settings", "request", "profile", "logout"} /\ fetch[c].at \in {"passed", "ok"}
      => fetch[c].token \in Tokens

Passwords == [loggedSessions : SUBSET Tokens, signed : SUBSET Tokens, resetToken : Nat]

LoginsInv == LoginsTypeOK /\ password \in Passwords /\ Authenticated

\* The fields of a call, by its kind.
LEMMA FetchFields ==
  ASSUME NEW f \in FetchKinds
  PROVE  \/ f = NoFetch
         \/ /\ f.tab \in Tabs \cup {"gone"}
            /\ \/ /\ f.kind = "login" /\ f.at \in {"sent", "passed", "failed"}
                  /\ f = [kind |-> "login", tab |-> f.tab, at |-> f.at]
               \/ /\ f.kind = "login" /\ f.at = "ok" /\ f.token \in Tokens
                  /\ f = [kind |-> "login", tab |-> f.tab, at |-> "ok", token |-> f.token]
               \/ /\ f.kind = "reset" /\ f.at \in {"sent", "passed", "failed"}
                  /\ f.link \in 1 .. MaxLinks
                  /\ f = [kind |-> "reset", tab |-> f.tab, at |-> f.at, link |-> f.link]
               \/ /\ f.kind \in {"settings", "request", "profile", "forget"}
                  /\ f.at \in {"sent", "passed"} \cup Outcomes /\ f.token \in Headers
                  /\ f = [kind |-> f.kind, tab |-> f.tab, at |-> f.at, token |-> f.token]
               \/ /\ f.kind = "logout"
                  /\ f.at \in {"sent", "passed"} \cup Outcomes /\ f.token \in Headers
                  /\ f.saved \in Stored
                  /\ f = [kind |-> "logout", tab |-> f.tab, at |-> f.at, token |-> f.token,
                          saved |-> f.saved]
BY DEF FetchKinds

\* A call stays well formed when its page is closed, and when it gets on its way to
\* an answer of its kind.
LEMMA FetchMoves ==
  ASSUME NEW f \in FetchKinds, f # NoFetch
  PROVE  /\ [f EXCEPT !.tab = "gone"] \in FetchKinds
         /\ f.at = "sent" => [f EXCEPT !.at = "passed"] \in FetchKinds
         /\ f.at = "sent" /\ f.kind \in {"login", "reset"}
              => [f EXCEPT !.at = "failed"] \in FetchKinds
         /\ f.kind \notin {"login", "reset"}
              => \A outcome \in Outcomes : [f EXCEPT !.at = outcome] \in FetchKinds
<1>1. CASE f.kind = "login" /\ f.at \in {"sent", "passed", "failed"}
  BY <1>1, FetchFields DEF FetchKinds, NoFetch
<1>2. CASE f.kind = "login" /\ f.at = "ok"
  BY <1>2, FetchFields DEF FetchKinds, NoFetch
<1>3. CASE f.kind = "reset"
  BY <1>3, FetchFields DEF FetchKinds, NoFetch
<1>4. CASE f.kind \in {"settings", "request", "profile", "forget"}
  BY <1>4, FetchFields DEF FetchKinds, NoFetch
<1>5. CASE f.kind = "logout"
  BY <1>5, FetchFields DEF FetchKinds, NoFetch
<1> QED BY <1>1, <1>2, <1>3, <1>4, <1>5, FetchFields

Pages == [app : {"login", "mounting", "mounted"}, isLoading : BOOLEAN,
          settings : BOOLEAN, header : Headers, leaving : BOOLEAN, logout : BOOLEAN]

Storages == [auth : Stored, isLogout : BOOLEAN]

\* A call that is sent has a header, or none is stored for it.
LEMMA HeaderKept ==
  ASSUME LoginsTypeOK, NEW t \in Tabs, ~Throws(t)
  PROVE  Header(t) \in Headers
BY DEF LoginsTypeOK, Throws, Header, Headers, Stored

\* The parts of the state that a handler of the server, or a page that sends, may
\* touch are tied together by the invariant one by one.
LEMMA LoginsRest ==
  ASSUME LoginsInv, NotOnServer, page' \in [Tabs -> Pages], storage' \in Storages,
         fetch' \in [Fetches -> FetchKinds], Authenticated'
  PROVE  LoginsInv'
BY DEF LoginsInv, LoginsTypeOK, NotOnServer, Pages, Storages

\* A call begins or is answered.
LEMMA FetchSet ==
  ASSUME LoginsInv, NEW c \in Fetches, NEW f \in FetchKinds,
         fetch' = [fetch EXCEPT ![c] = f],
         f.kind \in {"settings", "request", "profile", "logout"} /\ f.at \in {"passed", "ok"}
           => f.token \in Tokens
  PROVE  fetch' \in [Fetches -> FetchKinds] /\ Authenticated'
BY DEF LoginsInv, LoginsTypeOK, Authenticated

\* What a page that hears an answer becomes, and what is stored.
LEMMA HearKept ==
  ASSUME LoginsInv, NEW c \in Fetches, fetch[c] # NoFetch, fetch[c].tab # "gone",
         NEW outcome \in Outcomes, outcome = "ok" => fetch[c].at = "ok", Hear(c, outcome)
  PROVE  page' \in [Tabs -> Pages] /\ storage' \in Storages /\ NotOnServer
<1> DEFINE f == fetch[c]
           p == page[f.tab]
<1>1. f \in FetchKinds /\ f.tab \in Tabs /\ p \in Pages /\ storage \in Storages
  <2>1. f \in FetchKinds
    BY DEF LoginsInv, LoginsTypeOK
  <2>2. f.tab \in Tabs
    BY <2>1, FetchFields
  <2> QED BY <2>1, <2>2 DEF LoginsInv, LoginsTypeOK, Pages, Storages
<1>2. f.kind = "profile" /\ outcome = "ok" => f.token \in Tokens
  BY DEF LoginsInv, Authenticated
<1>3. f.kind \in {"login", "reset"} /\ outcome = "ok" => f.token \in Tokens
  BY <1>1, FetchFields
<1>4. f.kind \in {"login", "reset", "logout", "profile", "settings", "request", "forget"}
  BY <1>1, FetchFields
<1>5. /\ HearLogin(p, f, outcome).page \in Pages
      /\ f.kind \in {"login", "reset"} => HearLogin(p, f, outcome).storage \in Storages
  BY <1>1, <1>3 DEF HearLogin, LoggedIn, Pages, Storages, Stored
<1>6. HearLogout(p, f, outcome).page \in Pages /\ HearLogout(p, f, outcome).storage \in Storages
  BY <1>1 DEF HearLogout, ErrorHandler, LoggedIn, Pages, Storages, Stored
<1>7. /\ HearProfile(p, f, outcome).page \in Pages
      /\ f.kind = "profile" => HearProfile(p, f, outcome).storage \in Storages
  BY <1>1, <1>2 DEF HearProfile, ErrorHandler, LoggedIn, Pages, Storages, Stored
<1>8. HearOther(p, f, outcome).page \in Pages /\ HearOther(p, f, outcome).storage \in Storages
  BY <1>1 DEF HearOther, ErrorHandler, Pages, Storages, Stored
<1> DEFINE h == CASE f.kind \in {"login", "reset"} -> HearLogin(p, f, outcome)
                  [] f.kind = "logout"  -> HearLogout(p, f, outcome)
                  [] f.kind = "profile" -> HearProfile(p, f, outcome)
                  [] OTHER -> HearOther(p, f, outcome)
<1>9. h.page \in Pages /\ h.storage \in Storages
  <2>1. CASE f.kind \in {"login", "reset"}
    <3>1. h = HearLogin(p, f, outcome)
      BY <2>1
    <3> QED BY <2>1, <3>1, <1>5
  <2>2. CASE f.kind = "logout"
    <3>1. h = HearLogout(p, f, outcome)
      BY <2>2
    <3> QED BY <3>1, <1>6
  <2>3. CASE f.kind = "profile"
    <3>1. h = HearProfile(p, f, outcome)
      BY <2>3
    <3> QED BY <2>3, <3>1, <1>7
  <2>4. CASE f.kind \in {"settings", "request", "forget"}
    <3>1. h = HearOther(p, f, outcome)
      BY <2>4
    <3> QED BY <3>1, <1>8
  <2> QED BY <2>1, <2>2, <2>3, <2>4, <1>4
<1>10. /\ page' = [page EXCEPT ![f.tab] = [h.page EXCEPT !.leaving = @ \/ Ejects(outcome)]]
       /\ storage' = h.storage
       /\ NotOnServer
  BY DEF Hear
<1> HIDE DEF h, p, f
<1>11. Ejects(outcome) \in BOOLEAN
  BY DEF Ejects
<1>12. [h.page EXCEPT !.leaving = @ \/ Ejects(outcome)] \in Pages
  BY <1>9, <1>11 DEF Pages
<1>13. page \in [Tabs -> Pages]
  BY DEF LoginsInv, LoginsTypeOK, Pages
<1> QED BY <1>1, <1>9, <1>10, <1>12, <1>13

LEMMA LoginsStart == SessionsInitially => LoginsInv
<1> SUFFICES ASSUME SessionsInitially PROVE LoginsInv
  OBVIOUS
<1>1. NoFetch \in FetchKinds /\ NoFetch.kind = "none"
  BY DEF FetchKinds, NoFetch
<1> QED BY <1>1, LoginsAssumption
  DEF SessionsInitially, LoginsInv, LoginsTypeOK, Authenticated, NewPassword, Passwords, Stored,
      Headers

LEMMA LoginsPagesStep ==
  ASSUME LoginsInv, NEW t \in Tabs, NEW c \in Fetches,
         \/ Reload(t) \/ SubmitLogin(t, c) \/ SubmitForget(t, c) \/ Mount(t, c)
         \/ UseScreen(t, c) \/ Logout(t, c)
         \/ \E link \in 1 .. links : SubmitReset(t, c, link)
  PROVE  LoginsInv'
<1>1. /\ page \in [Tabs -> Pages] /\ page[t] \in Pages /\ storage \in Storages
      /\ fetch \in [Fetches -> FetchKinds] /\ Authenticated
      /\ links \in 0 .. MaxLinks
  BY DEF LoginsInv, LoginsTypeOK, Pages, Storages
<1>2. ~Throws(t) => Header(t) \in Headers
  BY HeaderKept DEF LoginsInv
<1>3. UNCHANGED storage => storage' \in Storages
  BY <1>1
<1>4. ASSUME NEW kind \in {"request", "profile", "forget"}, ~Throws(t), Fetch(t, c, kind),
             UNCHANGED storage, NotOnServer
      PROVE  LoginsInv'
  <2> DEFINE f == [kind |-> kind, tab |-> t, at |-> "sent", token |-> Header(t)]
  <2>1. f \in FetchKinds
    BY <1>2, <1>4 DEF FetchKinds
  <2>2. fetch' = [fetch EXCEPT ![c] = f] /\ page' = [page EXCEPT ![t].header = Header(t)]
    BY <1>4 DEF Fetch, SendFetch
  <2>3. page' \in [Tabs -> Pages]
    BY <1>1, <1>2, <1>4, <2>2 DEF Pages
  <2>4. fetch' \in [Fetches -> FetchKinds] /\ Authenticated'
    BY <2>1, <2>2, FetchSet
  <2> QED BY <2>3, <2>4, <1>3, <1>4, LoginsRest
<1>5. CASE Reload(t)
  <2>1. Loaded(t) \in Pages
    BY <1>1 DEF Loaded, Pages, Headers
  <2>2. page' \in [Tabs -> Pages] /\ UNCHANGED storage /\ NotOnServer
    BY <1>1, <1>5, <2>1 DEF Reload
  <2>3. ASSUME NEW d \in Fetches
        PROVE  /\ fetch'[d] \in FetchKinds
               /\ fetch'[d] # fetch[d]
                    => /\ fetch'[d].kind = fetch[d].kind /\ fetch'[d].at = fetch[d].at
                       /\ fetch[d].kind \in {"settings", "request", "profile", "logout"}
                            => fetch'[d].token = fetch[d].token
    <3>1. fetch[d] \in FetchKinds
      BY <1>1
    <3>0. fetch'[d] = IF fetch[d] # NoFetch /\ fetch[d].tab = t
                      THEN [fetch[d] EXCEPT !.tab = "gone"] ELSE fetch[d]
      BY <1>5, Zenon DEF Reload
    <3>2. \/ fetch'[d] = fetch[d]
          \/ fetch[d] # NoFetch /\ fetch'[d] = [fetch[d] EXCEPT !.tab = "gone"]
      BY <3>0, Zenon
    <3>3. CASE fetch'[d] = fetch[d]
      BY <3>1, <3>3
    <3>4. CASE fetch[d] # NoFetch /\ fetch'[d] = [fetch[d] EXCEPT !.tab = "gone"]
      <4>1. fetch'[d] \in FetchKinds
        BY <3>1, <3>4, FetchMoves
      <4>2. /\ fetch'[d].kind = fetch[d].kind /\ fetch'[d].at = fetch[d].at
            /\ fetch[d].kind \in {"settings", "request", "profile", "logout"}
                 => fetch'[d].token = fetch[d].token
        BY <3>1, <3>4, FetchFields
      <4> QED BY <4>1, <4>2
    <3> QED BY <3>2, <3>3, <3>4
  <2>4. fetch' = [d \in Fetches |-> fetch'[d]]
    BY <1>5 DEF Reload
  <2>5. fetch' \in [Fetches -> FetchKinds]
    BY <2>3, <2>4
  <2>6. Authenticated'
    BY <1>1, <2>3 DEF Authenticated
  <2> QED BY <1>3, <2>2, <2>5, <2>6, LoginsRest
<1>6. CASE SubmitLogin(t, c)
  <2> DEFINE f == [kind |-> "login", tab |-> t, at |-> "sent"]
  <2>1. f \in FetchKinds
    BY DEF FetchKinds
  <2>2. fetch' = [fetch EXCEPT ![c] = f] /\ UNCHANGED storage /\ NotOnServer
    BY <1>6 DEF SubmitLogin, SendFetch
  <2>3. page' \in [Tabs -> Pages]
    BY <1>1, <1>6 DEF SubmitLogin, Pages
  <2>4. fetch' \in [Fetches -> FetchKinds] /\ Authenticated'
    BY <2>1, <2>2, FetchSet
  <2> QED BY <1>3, <2>2, <2>3, <2>4, LoginsRest
<1>7. CASE SubmitForget(t, c)
  BY <1>4, <1>7 DEF SubmitForget
<1>8. CASE Mount(t, c)
  <2>1. UNCHANGED storage /\ NotOnServer
    BY <1>8 DEF Mount
  <2>2. CASE Throws(t)
    <3>1. page' \in [Tabs -> Pages]
      BY <1>1, <1>8, <2>2 DEF Mount, Pages
    <3>2. UNCHANGED fetch
      BY <1>8, <2>2 DEF Mount
    <3>3. fetch' \in [Fetches -> FetchKinds] /\ Authenticated'
      BY <1>1, <3>2 DEF Authenticated
    <3> QED BY <1>3, <2>1, <3>1, <3>3, LoginsRest
  <2>3. CASE ~Throws(t)
    <3> DEFINE f == [kind |-> "settings", tab |-> t, at |-> "sent", token |-> Header(t)]
    <3>1. f \in FetchKinds
      BY <1>2, <2>3 DEF FetchKinds
    <3>2. fetch' = [fetch EXCEPT ![c] = f]
      BY <1>8, <2>3 DEF Mount, SendFetch
    <3>3. page' \in [Tabs -> Pages]
      BY <1>1, <1>2, <1>8, <2>3 DEF Mount, Pages
    <3>4. fetch' \in [Fetches -> FetchKinds] /\ Authenticated'
      BY <3>1, <3>2, FetchSet
    <3> QED BY <1>3, <2>1, <3>3, <3>4, LoginsRest
  <2> QED BY <2>2, <2>3
<1>9. CASE UseScreen(t, c)
  BY <1>4, <1>9 DEF UseScreen
<1>10. CASE Logout(t, c)
  <2> DEFINE f == [kind |-> "logout", tab |-> t, at |-> "sent", token |-> page[t].header,
                   saved |-> storage.auth]
  <2>1. f \in FetchKinds
    BY <1>1 DEF FetchKinds, Pages, Storages
  <2>2. fetch' = [fetch EXCEPT ![c] = f] /\ NotOnServer /\ storage' \in Storages
    BY <1>10 DEF Logout, SendFetch, Storages, Stored
  <2>3. page' \in [Tabs -> Pages]
    BY <1>1, <1>10 DEF Logout, Pages
  <2>4. fetch' \in [Fetches -> FetchKinds] /\ Authenticated'
    BY <2>1, <2>2, FetchSet
  <2> QED BY <2>2, <2>3, <2>4, LoginsRest
<1>11. CASE \E link \in 1 .. links : SubmitReset(t, c, link)
  <2> PICK link \in 1 .. links : SubmitReset(t, c, link)
    BY <1>11
  <2> DEFINE f == [kind |-> "reset", tab |-> t, at |-> "sent", link |-> link]
  <2>1. link \in 1 .. MaxLinks
    BY <1>1, LoginsAssumption
  <2>2. f \in FetchKinds
    BY <2>1 DEF FetchKinds
  <2>3. fetch' = [fetch EXCEPT ![c] = f] /\ UNCHANGED storage /\ NotOnServer
    BY DEF SubmitReset, SendFetch
  <2>4. page' \in [Tabs -> Pages]
    BY <1>1 DEF SubmitReset, Pages
  <2>5. fetch' \in [Fetches -> FetchKinds] /\ Authenticated'
    BY <2>2, <2>3, FetchSet
  <2> QED BY <1>3, <2>3, <2>4, <2>5, LoginsRest
<1> QED BY <1>5, <1>6, <1>7, <1>8, <1>9, <1>10, <1>11

LEMMA LoginsServerStep ==
  ASSUME LoginsInv, NEW c \in Fetches,
         \/ IsValidAuthToken(c) \/ ServeScreen(c) \/ ServeLogout(c)
         \/ CheckPassword(c) \/ CheckLink(c) \/ ForgetPassword(c)
         \/ \E k \in Tokens : PushToken(c, k)
  PROVE  LoginsInv'
<1> DEFINE f == fetch[c]
<1>1. f \in FetchKinds /\ password.loggedSessions \subseteq Tokens
  BY DEF LoginsInv, LoginsTypeOK
<1>2. LoginsInv /\ Authenticated /\ LoginsTypeOK
  BY DEF LoginsInv
<1>3. ASSUME NEW g \in FetchKinds, fetch' = [fetch EXCEPT ![c] = g],
             g.kind \in {"settings", "request", "profile", "logout"} /\ g.at \in {"passed", "ok"}
               => g.token \in Tokens,
             UNCHANGED <<password, links, expired, page, storage>>
      PROVE  LoginsInv'
  <2>1. fetch' \in [Fetches -> FetchKinds] /\ Authenticated'
    BY <1>3, FetchSet
  <2>2. NotOnServer /\ page' \in [Tabs -> Pages] /\ storage' \in Storages
    BY <1>2, <1>3 DEF LoginsTypeOK, NotOnServer, Pages, Storages
  <2> QED BY <2>1, <2>2, LoginsRest
<1>4. f.kind \in {"settings", "request", "profile", "logout"} =>
        /\ f # NoFetch
        /\ [f EXCEPT !.at = "passed"] \in FetchKinds \/ f.at # "sent"
        /\ \A outcome \in Outcomes : [f EXCEPT !.at = outcome] \in FetchKinds
        /\ \A at \in {"passed"} \cup Outcomes :
             /\ [f EXCEPT !.at = at].token = f.token
             /\ [f EXCEPT !.at = at].at = at
             /\ [f EXCEPT !.at = at].kind = f.kind
  <2> SUFFICES ASSUME f.kind \in {"settings", "request", "profile", "logout"}
               PROVE  /\ f # NoFetch
                      /\ [f EXCEPT !.at = "passed"] \in FetchKinds \/ f.at # "sent"
                      /\ \A outcome \in Outcomes : [f EXCEPT !.at = outcome] \in FetchKinds
                      /\ \A at \in {"passed"} \cup Outcomes :
                           /\ [f EXCEPT !.at = at].token = f.token
                           /\ [f EXCEPT !.at = at].at = at
                           /\ [f EXCEPT !.at = at].kind = f.kind
    OBVIOUS
  <2>1. f # NoFetch
    BY DEF NoFetch
  <2>2. \A at \in {"passed"} \cup Outcomes :
           /\ [f EXCEPT !.at = at].token = f.token
           /\ [f EXCEPT !.at = at].at = at
           /\ [f EXCEPT !.at = at].kind = f.kind
    BY <1>1, <2>1, FetchFields
  <2> QED BY <1>1, <2>1, <2>2, FetchMoves
<1>5. CASE IsValidAuthToken(c)
  <2>1. f.kind \in {"settings", "request", "profile", "logout"} /\ f.at = "sent"
    BY <1>5 DEF IsValidAuthToken, Arrived
  <2>2. UNCHANGED <<password, links, expired, page, storage>>
    BY <1>5 DEF IsValidAuthToken, NotInBrowser, NotOnServer
  <2>3. \/ f.token \in password.loggedSessions /\ fetch' = [fetch EXCEPT ![c] = [f EXCEPT !.at = "passed"]]
        \/ \E outcome \in {"refused", "invalid"} :
             fetch' = [fetch EXCEPT ![c] = [f EXCEPT !.at = outcome]]
    BY <1>5 DEF IsValidAuthToken, Pass, Respond
  <2>4. CASE f.token \in password.loggedSessions
               /\ fetch' = [fetch EXCEPT ![c] = [f EXCEPT !.at = "passed"]]
    <3> DEFINE g == [f EXCEPT !.at = "passed"]
    <3>1. g \in FetchKinds /\ g.token \in Tokens /\ fetch' = [fetch EXCEPT ![c] = g]
      BY <1>1, <1>4, <2>1, <2>4
    <3> QED BY <1>3, <2>2, <3>1
  <2>5. ASSUME NEW outcome \in {"refused", "invalid"},
               fetch' = [fetch EXCEPT ![c] = [f EXCEPT !.at = outcome]]
        PROVE  LoginsInv'
    <3> DEFINE g == [f EXCEPT !.at = outcome]
    <3>1. g \in FetchKinds /\ g.at = outcome /\ fetch' = [fetch EXCEPT ![c] = g]
      BY <1>4, <2>1, <2>5 DEF Outcomes
    <3> HIDE DEF g
    <3> QED BY <1>3, <2>2, <3>1
  <2> QED BY <2>3, <2>4, <2>5
<1>6. CASE ServeScreen(c)
  <2> DEFINE g == [f EXCEPT !.at = "ok"]
  <2>1. f.kind \in {"settings", "request", "profile"} /\ f.at = "passed"
    BY <1>6 DEF ServeScreen, Passed
  <2>2. f.token \in Tokens
    BY <1>2, <2>1 DEF Authenticated
  <2>3. g \in FetchKinds /\ g.token \in Tokens
    BY <1>4, <2>1, <2>2 DEF Outcomes
  <2>4. fetch' = [fetch EXCEPT ![c] = g] /\ UNCHANGED <<password, links, expired, page, storage>>
    BY <1>6 DEF ServeScreen, Respond, NotInBrowser, NotOnServer
  <2> HIDE DEF g
  <2> QED BY <1>3, <2>3, <2>4
<1>7. CASE ServeLogout(c)
  <2> DEFINE g == [f EXCEPT !.at = "ok"]
  <2>1. f.kind = "logout" /\ f.at = "passed"
    BY <1>7 DEF ServeLogout, Passed
  <2>2. f.token \in Tokens
    BY <1>2, <2>1 DEF Authenticated
  <2>3. g \in FetchKinds /\ g.token \in Tokens
    BY <1>4, <2>1, <2>2 DEF Outcomes
  <2>4. /\ fetch' = [fetch EXCEPT ![c] = g]
        /\ password' = [password EXCEPT !.loggedSessions = @ \ {f.token}]
        /\ UNCHANGED <<links, expired, page, storage>>
    BY <1>7 DEF ServeLogout, Respond, NotInBrowser
  <2> HIDE DEF g
  <2>5. fetch' \in [Fetches -> FetchKinds] /\ Authenticated'
    BY <2>3, <2>4, FetchSet
  <2>6. /\ password'.loggedSessions \subseteq password.loggedSessions
        /\ password'.signed = password.signed /\ password'.resetToken = password.resetToken
    BY <1>2, <2>4 DEF LoginsInv, Passwords
  <2>7. password' \in Passwords
    BY <1>2, <2>4 DEF LoginsInv, Passwords
  <2> QED BY <1>2, <2>4, <2>5, <2>6, <2>7 DEF LoginsInv, LoginsTypeOK
<1>8. CASE CheckPassword(c)
  <2>1. f.kind = "login" /\ f.at = "sent"
    BY <1>8 DEF CheckPassword, Arrived
  <2>2. PICK at \in {"passed", "failed"} :
          /\ fetch' = [fetch EXCEPT ![c].at = at]
          /\ UNCHANGED <<password, links, expired, page, storage>>
    BY <1>8 DEF CheckPassword, Pass, Respond, NotInBrowser, NotOnServer
  <2> DEFINE g == [f EXCEPT !.at = at]
  <2>8. f # NoFetch
    BY <2>1 DEF NoFetch
  <2>3. g \in FetchKinds /\ g.kind = "login"
    <3>1. g.kind = "login"
      BY <1>1, <2>1, <2>8, FetchFields
    <3>2. CASE at = "passed"
      BY <1>1, <2>1, <2>8, <3>1, <3>2, FetchMoves
    <3>3. CASE at = "failed"
      BY <1>1, <2>1, <2>8, <3>1, <3>3, FetchMoves
    <3> QED BY <3>2, <3>3
  <2>4. fetch' = [fetch EXCEPT ![c] = g]
    BY <2>2
  <2> HIDE DEF g
  <2> QED BY <1>3, <2>2, <2>3, <2>4
<1>9. CASE CheckLink(c)
  <2>1. f.kind = "reset" /\ f.at = "sent"
    BY <1>9 DEF CheckLink, Arrived
  <2>2. PICK at \in {"passed", "failed"} :
          /\ fetch' = [fetch EXCEPT ![c].at = at]
          /\ UNCHANGED <<password, links, expired, page, storage>>
    BY <1>9 DEF CheckLink, Pass, Respond, NotInBrowser, NotOnServer
  <2> DEFINE g == [f EXCEPT !.at = at]
  <2>8. f # NoFetch
    BY <2>1 DEF NoFetch
  <2>3. g \in FetchKinds /\ g.kind = "reset"
    <3>1. g.kind = "reset"
      BY <1>1, <2>1, <2>8, FetchFields
    <3>2. CASE at = "passed"
      BY <1>1, <2>1, <2>8, <3>1, <3>2, FetchMoves
    <3>3. CASE at = "failed"
      BY <1>1, <2>1, <2>8, <3>1, <3>3, FetchMoves
    <3> QED BY <3>2, <3>3
  <2>4. fetch' = [fetch EXCEPT ![c] = g]
    BY <2>2
  <2> HIDE DEF g
  <2> QED BY <1>3, <2>2, <2>3, <2>4
<1>10. CASE ForgetPassword(c)
  <2> DEFINE g == [f EXCEPT !.at = "ok"]
  <2>1. f.kind = "forget" /\ f.at = "sent"
    BY <1>10 DEF ForgetPassword, Arrived
  <2>8. f # NoFetch
    BY <2>1 DEF NoFetch
  <2>9. g.kind = "forget"
    BY <1>1, <2>1, <2>8, FetchFields
  <2>2. g \in FetchKinds /\ g.kind = "forget"
    BY <1>1, <2>1, <2>8, <2>9, FetchMoves DEF Outcomes
  <2>3. /\ fetch' = [fetch EXCEPT ![c] = g] /\ links < MaxLinks /\ links' = links + 1
        /\ password' = [password EXCEPT !.resetToken = links + 1]
        /\ UNCHANGED <<expired, page, storage>>
    BY <1>10 DEF ForgetPassword, Respond, NotInBrowser
  <2> HIDE DEF g
  <2>4. fetch' \in [Fetches -> FetchKinds] /\ Authenticated'
    BY <2>2, <2>3, FetchSet
  <2>5. /\ password'.loggedSessions = password.loggedSessions
        /\ password'.signed = password.signed
        /\ password'.resetToken \in 0 .. links' /\ password' \in Passwords
        /\ links' \in 0 .. MaxLinks
    BY <1>2, <2>3, LoginsAssumption DEF LoginsInv, LoginsTypeOK, Passwords
  <2> QED BY <1>2, <2>3, <2>4, <2>5, LoginsAssumption DEF LoginsInv, LoginsTypeOK
<1>11. CASE \E k \in Tokens : PushToken(c, k)
  <2> PICK k \in Tokens : PushToken(c, k)
    BY <1>11
  <2> DEFINE g == [kind |-> "login", tab |-> f.tab, at |-> "ok", token |-> k]
  <2>1. f.kind \in {"login", "reset"} /\ f.at = "passed"
    BY DEF PushToken, Passed
  <2>2. g \in FetchKinds /\ g.kind = "login"
    BY <1>1, <2>1, FetchFields DEF FetchKinds, NoFetch
  <2>3. /\ fetch' = [fetch EXCEPT ![c] = g]
        /\ password' = [loggedSessions |-> password.loggedSessions \cup {k},
                        signed |-> password.signed \cup {k},
                        resetToken |-> IF f.kind = "reset" THEN 0 ELSE password.resetToken]
        /\ UNCHANGED <<links, expired, page, storage>>
    BY DEF PushToken, NotInBrowser
  <2> HIDE DEF g
  <2>4. fetch' \in [Fetches -> FetchKinds] /\ Authenticated'
    BY <2>2, <2>3, FetchSet
  <2>5. /\ password'.loggedSessions \subseteq password'.signed
        /\ password'.signed \subseteq Tokens /\ password' \in Passwords
        /\ password'.resetToken \in 0 .. links /\ password.signed \subseteq password'.signed
    BY <1>2, <2>3, LoginsAssumption DEF LoginsInv, LoginsTypeOK, Passwords
  <2> QED BY <1>2, <2>3, <2>4, <2>5 DEF LoginsInv, LoginsTypeOK
<1> QED BY <1>5, <1>6, <1>7, <1>8, <1>9, <1>10, <1>11

LEMMA LoginsAnswersStep ==
  ASSUME LoginsInv, NEW c \in Fetches, PageHears(c) \/ FetchFails(c)
  PROVE  LoginsInv'
<1>1. LoginsTypeOK /\ fetch[c] \in FetchKinds /\ NoFetch \in FetchKinds /\ NoFetch.kind = "none"
  BY DEF LoginsInv, LoginsTypeOK, FetchKinds, NoFetch
<1>2. fetch[c] # NoFetch
  BY DEF PageHears, FetchFails
<1>3. /\ page' \in [Tabs -> Pages] /\ storage' \in Storages /\ NotOnServer
  <2>1. CASE fetch[c].tab = "gone"
    <3>1. NotInBrowser /\ NotOnServer
      BY <2>1 DEF PageHears, FetchFails
    <3> QED BY <1>1, <3>1 DEF LoginsTypeOK, NotInBrowser, Pages, Storages
  <2>2. CASE fetch[c].tab # "gone"
    <3>1. \/ fetch[c].at \in Outcomes /\ Hear(c, fetch[c].at)
          \/ Hear(c, "failed")
      BY <2>2 DEF PageHears, FetchFails
    <3> QED BY <1>2, <2>2, <3>1, HearKept DEF Outcomes
  <2> QED BY <2>1, <2>2
<1>4. \/ fetch' = [fetch EXCEPT ![c] = NoFetch]
      \/ fetch[c].at # "ok" /\ fetch' = [fetch EXCEPT ![c] = [fetch[c] EXCEPT !.tab = "gone"]]
  BY DEF PageHears, FetchFails
<1>5. fetch' \in [Fetches -> FetchKinds] /\ Authenticated'
  <2>1. CASE fetch' = [fetch EXCEPT ![c] = NoFetch]
    BY <1>1, <2>1, FetchSet
  <2>2. CASE fetch[c].at # "ok" /\ fetch' = [fetch EXCEPT ![c] = [fetch[c] EXCEPT !.tab = "gone"]]
    <3> DEFINE g == [fetch[c] EXCEPT !.tab = "gone"]
    <3>1. g \in FetchKinds
      BY <1>1, <1>2, FetchMoves
    <3>2. g.kind = fetch[c].kind /\ g.at = fetch[c].at
      BY <1>1, <1>2, FetchFields
    <3>3. g.kind \in {"settings", "request", "profile", "logout"} => g.token = fetch[c].token
      BY <1>1, <1>2, FetchFields
    <3>4. fetch' = [fetch EXCEPT ![c] = g]
      BY <2>2
    <3> HIDE DEF g
    <3>5. g.kind \in {"settings", "request", "profile", "logout"} /\ g.at \in {"passed", "ok"}
            => g.token \in Tokens
      BY <3>2, <3>3 DEF LoginsInv, Authenticated
    <3> QED BY <3>1, <3>4, <3>5, FetchSet
  <2> QED BY <1>4, <2>1, <2>2
<1> QED BY <1>3, <1>5, LoginsRest

LEMMA LoginsStep ==
  ASSUME LoginsInv, SessionsStep \/ UNCHANGED sessionsVars
  PROVE  LoginsInv'
<1>1. ASSUME NEW t \in Tabs, Reload(t)
      PROVE  LoginsInv'
  <2>1. CASE Fetches # {}
    BY <1>1, <2>1, LoginsPagesStep
  <2>2. CASE Fetches = {}
    <3>1. page \in [Tabs -> Pages] /\ storage \in Storages
      BY DEF LoginsInv, LoginsTypeOK, Pages, Storages
    <3>2. Loaded(t) \in Pages
      BY <3>1 DEF Loaded, Pages, Headers, Storages
    <3>3. page' \in [Tabs -> Pages] /\ UNCHANGED storage /\ NotOnServer
      BY <1>1, <3>1, <3>2 DEF Reload
    <3>4. fetch' \in [Fetches -> FetchKinds] /\ Authenticated'
      BY <1>1, <2>2 DEF Reload, Authenticated
    <3> QED BY <3>1, <3>3, <3>4, LoginsRest
  <2> QED BY <2>1, <2>2
<1>2. ASSUME NEW t \in Tabs, NEW c \in Fetches,
             \/ SubmitLogin(t, c) \/ SubmitForget(t, c) \/ Mount(t, c)
             \/ UseScreen(t, c) \/ Logout(t, c)
             \/ \E link \in 1 .. links : SubmitReset(t, c, link)
      PROVE  LoginsInv'
  BY <1>2, LoginsPagesStep
<1>3. ASSUME NEW c \in Fetches,
             \/ IsValidAuthToken(c) \/ ServeScreen(c) \/ ServeLogout(c)
             \/ CheckPassword(c) \/ CheckLink(c) \/ ForgetPassword(c)
             \/ \E k \in Tokens : PushToken(c, k)
      PROVE  LoginsInv'
  BY <1>3, LoginsServerStep
<1>4. ASSUME NEW c \in Fetches, PageHears(c) \/ FetchFails(c)
      PROVE  LoginsInv'
  BY <1>4, LoginsAnswersStep
<1>5. ASSUME NEW k \in Tokens, Expires(k)
      PROVE  LoginsInv'
  BY <1>5 DEF LoginsInv, LoginsTypeOK, Authenticated, Expires, NotInBrowser
<1>6. CASE UNCHANGED sessionsVars
  BY <1>6 DEF LoginsInv, LoginsTypeOK, Authenticated, sessionsVars
<1> QED BY <1>1, <1>2, <1>3, <1>4, <1>5, <1>6 DEF SessionsStep

\* The row, the pages, the storage and the calls of IDURAR's login are well formed,
\* whatever the tabs do, for any number of tabs, tokens and calls.
THEOREM LoginsTypeCorrect == SessionsSpecification => []LoginsTypeOK
<1>1. LoginsInv /\ [SessionsStep]_sessionsVars => LoginsInv'
  BY LoginsStep
<1>2. LoginsInv => LoginsTypeOK
  BY DEF LoginsInv
<1> QED BY LoginsStart, <1>1, <1>2, PTL DEF SessionsSpecification

-----------------------------------------------------------------------------
(* One tab.                                                                 *)

\* Whoever is shown the app is stored, so a logout keeps a user to put back if it
\* fails, and the user null is never stored.
OneTabInv ==
  /\ LoginsInv
  /\ RefusalLeadsOut
  /\ storage.auth # "null"
  /\ \A c \in Fetches : fetch[c].kind = "logout" => fetch[c].saved \in Tokens \cup {"tokenless"}

\* What the page and the storage become as an answer is heard.
LEMMA HearsOneTab ==
  ASSUME NEW A, Tabs = {A}, OneTabInv, NEW c \in Fetches, fetch[c] # NoFetch,
         fetch[c].tab # "gone", NEW outcome \in Outcomes,
         outcome = fetch[c].at \/ outcome = "failed", Hear(c, outcome)
  PROVE  RefusalLeadsOut' /\ storage'.auth # "null"
<1> DEFINE f == fetch[c]
           p == page[A]
           Leaves(q, s) == ~q.leaving /\ ~Ejects(outcome) /\ q.app # "login"
                             => s.auth \in Tokens \cup {"tokenless"}
           Fine(h) == /\ h.page \in Pages /\ h.storage \in Storages
                      /\ Leaves(h.page, h.storage) /\ h.storage.auth # "null"
<1>1. /\ f \in FetchKinds /\ f.tab = A /\ p \in Pages /\ storage \in Storages
      /\ page \in [Tabs -> Pages]
  <2>1. f \in FetchKinds
    BY DEF OneTabInv, LoginsInv, LoginsTypeOK
  <2>2. f.tab = A
    BY <2>1, FetchFields
  <2> QED BY <2>1, <2>2 DEF OneTabInv, LoginsInv, LoginsTypeOK, Pages, Storages
<1>2. /\ ~p.leaving /\ p.app # "login" => storage.auth \in Tokens \cup {"tokenless"}
      /\ storage.auth # "null"
      /\ f.kind = "logout" => f.saved \in Tokens \cup {"tokenless"}
  BY DEF OneTabInv, RefusalLeadsOut, Here
<1>3. f.kind = "profile" /\ outcome = "ok" => f.token \in Tokens
  BY DEF OneTabInv, LoginsInv, Authenticated
<1>4. f.kind \in {"login", "reset"} =>
        outcome \in {"ok", "failed"} /\ (outcome = "ok" => f.token \in Tokens)
  BY <1>1, FetchFields DEF Outcomes
<1>5. f.kind \in {"login", "reset", "logout", "profile", "settings", "request", "forget"}
  BY <1>1, FetchFields
<1>6. f.kind \in {"login", "reset"} => Fine(HearLogin(p, f, outcome))
  BY <1>1, <1>2, <1>4, LoginsAssumption DEF HearLogin, LoggedIn, Pages, Storages, Stored
<1>7. f.kind = "logout" => Fine(HearLogout(p, f, outcome))
  BY <1>1, <1>2, LoginsAssumption
  DEF HearLogout, ErrorHandler, Ejects, LoggedIn, Pages, Storages, Stored, Outcomes
<1>8. f.kind = "profile" => Fine(HearProfile(p, f, outcome))
  BY <1>1, <1>2, <1>3, LoginsAssumption
  DEF HearProfile, ErrorHandler, Ejects, LoggedIn, Pages, Storages, Stored, Outcomes
<1>9. Fine(HearOther(p, f, outcome))
  BY <1>1, <1>2, LoginsAssumption
  DEF HearOther, ErrorHandler, Ejects, Pages, Storages, Stored, Outcomes
<1> DEFINE h == CASE f.kind \in {"login", "reset"} -> HearLogin(p, f, outcome)
                  [] f.kind = "logout"  -> HearLogout(p, f, outcome)
                  [] f.kind = "profile" -> HearProfile(p, f, outcome)
                  [] OTHER -> HearOther(p, f, outcome)
<1>10. Fine(h)
  <2> HIDE DEF Fine
  <2>1. CASE f.kind \in {"login", "reset"}
    <3>1. h = HearLogin(p, f, outcome)
      BY <2>1
    <3> HIDE DEF h
    <3> QED BY <2>1, <3>1, <1>6
  <2>2. CASE f.kind = "logout"
    <3>1. h = HearLogout(p, f, outcome)
      BY <2>2
    <3> HIDE DEF h
    <3> QED BY <2>2, <3>1, <1>7
  <2>3. CASE f.kind = "profile"
    <3>1. h = HearProfile(p, f, outcome)
      BY <2>3
    <3> HIDE DEF h
    <3> QED BY <2>3, <3>1, <1>8
  <2>4. CASE f.kind \in {"settings", "request", "forget"}
    <3>1. h = HearOther(p, f, outcome)
      BY <2>4
    <3> HIDE DEF h
    <3> QED BY <3>1, <1>9
  <2> QED BY <2>1, <2>2, <2>3, <2>4, <1>5
<1>11. /\ page' = [page EXCEPT ![A] = [h.page EXCEPT !.leaving = @ \/ Ejects(outcome)]]
       /\ storage' = h.storage
  BY <1>1 DEF Hear
<1> HIDE DEF h, p, f
<1>12. page'[A] = [h.page EXCEPT !.leaving = @ \/ Ejects(outcome)]
  BY <1>1, <1>11
<1>13. page'[A].app = h.page.app
  BY <1>10, <1>12 DEF Pages
<1>14. page'[A].leaving = (h.page.leaving \/ Ejects(outcome))
  BY <1>10, <1>12 DEF Pages
<1>15. (RefusalLeadsOut)' <=> (~page'[A].leaving /\ page'[A].app # "login"
                                 => storage'.auth \in Tokens \cup {"tokenless"})
  BY DEF RefusalLeadsOut, Here
<1> QED BY <1>10, <1>11, <1>13, <1>14, <1>15

LEMMA OneTabStep ==
  ASSUME NEW A, Tabs = {A}, OneTabInv, SessionsStep \/ UNCHANGED sessionsVars
  PROVE  OneTabInv'
<1> DEFINE Saved(f) == f.kind = "logout" => f.saved \in Tokens \cup {"tokenless"}
           Rest == /\ RefusalLeadsOut' /\ storage'.auth # "null"
                   /\ \A c \in Fetches : Saved(fetch'[c])
<1>1. /\ LoginsInv /\ LoginsInv' /\ RefusalLeadsOut /\ storage.auth # "null"
      /\ \A c \in Fetches : Saved(fetch[c])
  BY LoginsStep DEF OneTabInv
<1>2. /\ page \in [Tabs -> Pages] /\ page[A] \in Pages /\ storage \in Storages
      /\ fetch \in [Fetches -> FetchKinds]
  BY <1>1 DEF LoginsInv, LoginsTypeOK, Pages, Storages
<1>3. Saved(NoFetch)
  BY DEF NoFetch
<1>4. ASSUME NEW f \in FetchKinds, f # NoFetch, Saved(f)
      PROVE  /\ Saved([f EXCEPT !.tab = "gone"])
             /\ \A at \in {"passed"} \cup Outcomes : Saved([f EXCEPT !.at = at])
  BY <1>4, FetchFields
<1>5. ASSUME NEW c \in Fetches, NEW f, Saved(f), fetch' = [fetch EXCEPT ![c] = f]
      PROVE  \A d \in Fetches : Saved(fetch'[d])
  <2> HIDE DEF Saved
  <2> QED BY <1>1, <1>2, <1>5
<1>6. ASSUME UNCHANGED <<page, storage>>
      PROVE  RefusalLeadsOut' /\ storage'.auth # "null"
  BY <1>1, <1>6 DEF RefusalLeadsOut, Here
<1>7. ASSUME UNCHANGED storage, page'[A].app = page[A].app \/ page'[A].app = "login"
                                  \/ page[A].app = "mounting",
             page'[A].leaving = page[A].leaving
      PROVE  RefusalLeadsOut' /\ storage'.auth # "null"
  BY <1>1, <1>7 DEF RefusalLeadsOut, Here
<1>8. ASSUME Reload(A)
      PROVE  Rest
  <2>1. page'[A] = Loaded(A) /\ UNCHANGED storage
    BY <1>2, <1>8 DEF Reload
  <2>2. RefusalLeadsOut' /\ storage'.auth # "null"
    BY <1>1, <1>2, <2>1 DEF RefusalLeadsOut, Here, Loaded, Storages, Stored
  <2>3. ASSUME NEW d \in Fetches
        PROVE  Saved(fetch'[d])
    <3>1. fetch'[d] = IF fetch[d] # NoFetch /\ fetch[d].tab = A
                      THEN [fetch[d] EXCEPT !.tab = "gone"] ELSE fetch[d]
      BY <1>8, Zenon DEF Reload
    <3> HIDE DEF Saved
    <3> QED BY <1>1, <1>2, <1>4, <3>1
  <2> QED BY <2>2, <2>3
<1>9. ASSUME NEW c \in Fetches,
             \/ SubmitLogin(A, c) \/ SubmitForget(A, c) \/ Mount(A, c) \/ UseScreen(A, c)
             \/ \E link \in 1 .. links : SubmitReset(A, c, link)
      PROVE  Rest
  <2>1. /\ UNCHANGED storage /\ page'[A].leaving = page[A].leaving
        /\ \/ page'[A].app = page[A].app
           \/ page[A].app = "mounting"
    BY <1>2, <1>9 DEF SubmitLogin, SubmitForget, Mount, UseScreen, SubmitReset, Fetch, Pages
  <2>2. \/ UNCHANGED fetch
        \/ \E f : Saved(f) /\ fetch' = [fetch EXCEPT ![c] = f]
    <3>1. CASE SubmitLogin(A, c)
      BY <3>1 DEF SubmitLogin, SendFetch
    <3>2. CASE SubmitForget(A, c)
      BY <3>2 DEF SubmitForget, Fetch, SendFetch
    <3>3. CASE Mount(A, c)
      BY <3>3 DEF Mount, SendFetch
    <3>4. CASE UseScreen(A, c)
      BY <3>4 DEF UseScreen, Fetch, SendFetch
    <3>5. CASE \E link \in 1 .. links : SubmitReset(A, c, link)
      BY <3>5 DEF SubmitReset, SendFetch
    <3> QED BY <1>9, <3>1, <3>2, <3>3, <3>4, <3>5
  <2>3. \A d \in Fetches : Saved(fetch'[d])
    <3> HIDE DEF Saved
    <3> QED BY <1>1, <1>5, <2>2
  <2> QED BY <1>7, <2>1, <2>3
<1>10. ASSUME NEW c \in Fetches, Logout(A, c)
       PROVE  Rest
  <2> DEFINE f == [kind |-> "logout", tab |-> A, at |-> "sent", token |-> page[A].header,
                   saved |-> storage.auth]
  <2>1. storage.auth \in Tokens \cup {"tokenless"}
    BY <1>1, <1>10 DEF Logout, Screens, Here, RefusalLeadsOut
  <2>2. Saved(f) /\ fetch' = [fetch EXCEPT ![c] = f]
    BY <1>10, <2>1 DEF Logout, SendFetch
  <2>3. page'[A].app = "login" /\ storage'.auth = "absent"
    BY <1>2, <1>10 DEF Logout, Pages
  <2>4. \A d \in Fetches : Saved(fetch'[d])
    <3> HIDE DEF Saved, f
    <3> QED BY <1>5, <2>2
  <2> QED BY <2>3, <2>4 DEF RefusalLeadsOut, Here
<1>11. ASSUME NEW c \in Fetches,
              \/ IsValidAuthToken(c) \/ ServeScreen(c) \/ ServeLogout(c)
              \/ CheckPassword(c) \/ CheckLink(c) \/ ForgetPassword(c)
              \/ \E k \in Tokens : PushToken(c, k)
       PROVE  Rest
  <2>1. UNCHANGED <<page, storage>>
    BY <1>11 DEF IsValidAuthToken, ServeScreen, ServeLogout, CheckPassword, CheckLink,
                 ForgetPassword, PushToken, NotInBrowser
  <2>2. fetch[c] # NoFetch
    BY <1>11 DEF IsValidAuthToken, ServeScreen, ServeLogout, CheckPassword, CheckLink,
                 ForgetPassword, PushToken, Arrived, Passed, NoFetch
  <2>3. \/ \E at \in {"passed"} \cup Outcomes : fetch' = [fetch EXCEPT ![c] = [fetch[c] EXCEPT !.at = at]]
        \/ \E k \in Tokens : fetch' = [fetch EXCEPT ![c] =
             [kind |-> "login", tab |-> fetch[c].tab, at |-> "ok", token |-> k]]
    <3>1. CASE IsValidAuthToken(c)
      BY <3>1 DEF IsValidAuthToken, Pass, Respond, Outcomes
    <3>2. CASE ServeScreen(c) \/ ServeLogout(c) \/ CheckPassword(c) \/ CheckLink(c) \/ ForgetPassword(c)
      BY <3>2 DEF ServeScreen, ServeLogout, CheckPassword, CheckLink, ForgetPassword, Pass,
                  Respond, Outcomes
    <3>3. CASE \E k \in Tokens : PushToken(c, k)
      BY <3>3, Zenon DEF PushToken
    <3> QED BY <1>11, <3>1, <3>2, <3>3
  <2>4. \E f : Saved(f) /\ fetch' = [fetch EXCEPT ![c] = f]
    <3>1. CASE \E at \in {"passed"} \cup Outcomes : fetch' = [fetch EXCEPT ![c] = [fetch[c] EXCEPT !.at = at]]
      <4> HIDE DEF Saved
      <4> QED BY <1>1, <1>2, <1>4, <2>2, <3>1
    <3>2. CASE \E k \in Tokens : fetch' = [fetch EXCEPT ![c] =
                 [kind |-> "login", tab |-> fetch[c].tab, at |-> "ok", token |-> k]]
      BY <3>2
    <3> QED BY <2>3, <3>1, <3>2
  <2>5. \A d \in Fetches : Saved(fetch'[d])
    <3> HIDE DEF Saved
    <3> QED BY <1>5, <2>4
  <2> QED BY <1>6, <2>1, <2>5
<1>12. ASSUME NEW c \in Fetches, PageHears(c) \/ FetchFails(c)
       PROVE  Rest
  <2>1. fetch[c] # NoFetch
    BY <1>12 DEF PageHears, FetchFails
  <2>2. RefusalLeadsOut' /\ storage'.auth # "null"
    <3>1. CASE fetch[c].tab = "gone"
      BY <1>6, <1>12, <3>1 DEF PageHears, FetchFails, NotInBrowser
    <3>2. CASE fetch[c].tab # "gone"
      <4>1. \/ fetch[c].at \in Outcomes /\ Hear(c, fetch[c].at)
            \/ Hear(c, "failed")
        BY <1>12, <3>2 DEF PageHears, FetchFails
      <4> QED BY <2>1, <3>2, <4>1, HearsOneTab DEF Outcomes
    <3> QED BY <3>1, <3>2
  <2>3. \/ fetch' = [fetch EXCEPT ![c] = NoFetch]
        \/ fetch' = [fetch EXCEPT ![c] = [fetch[c] EXCEPT !.tab = "gone"]]
    BY <1>12 DEF PageHears, FetchFails
  <2>4. Saved([fetch[c] EXCEPT !.tab = "gone"])
    <3> HIDE DEF Saved
    <3> QED BY <1>1, <1>2, <1>4, <2>1
  <2>5. \A d \in Fetches : Saved(fetch'[d])
    <3> HIDE DEF Saved
    <3> QED BY <1>3, <1>5, <2>3, <2>4
  <2> QED BY <2>2, <2>5
<1>13. ASSUME UNCHANGED <<page, storage, fetch>>
       PROVE  Rest
  BY <1>1, <1>6, <1>13
<1>14. Rest
  <2> HIDE DEF Rest
  <2>1. ASSUME SessionsStep
        PROVE  Rest
    <3>1. ASSUME NEW k \in Tokens, Expires(k)
          PROVE  UNCHANGED <<page, storage, fetch>>
      BY <3>1 DEF Expires, NotInBrowser
    <3> QED BY <2>1, <3>1, <1>8, <1>9, <1>10, <1>11, <1>12, <1>13 DEF SessionsStep
  <2>2. ASSUME UNCHANGED sessionsVars
        PROVE  Rest
    BY <2>2, <1>13 DEF sessionsVars
  <2> QED BY <2>1, <2>2
<1> QED BY <1>1, <1>14 DEF OneTabInv

\* In a browser with one tab, a page that shows the app can always be made to leave
\* it, for any number of calls, tokens and mails: something is stored and it names a
\* user (errorHandler.js:41-50, request.js:23).
THEOREM OneTabLeadsOut ==
  ASSUME NEW A, Tabs = {A}
  PROVE  SessionsSpecification => []RefusalLeadsOut
<1>1. SessionsInitially => OneTabInv
  <2> SUFFICES ASSUME SessionsInitially PROVE OneTabInv
    OBVIOUS
  <2>1. LoginsInv
    BY LoginsStart
  <2> QED BY <2>1 DEF SessionsInitially, OneTabInv, RefusalLeadsOut, NoFetch
<1>2. OneTabInv /\ [SessionsStep]_sessionsVars => OneTabInv'
  BY OneTabStep
<1>3. OneTabInv => RefusalLeadsOut
  BY DEF OneTabInv
<1> QED BY <1>1, <1>2, <1>3, PTL DEF SessionsSpecification

-----------------------------------------------------------------------------
(* The three areas together.                                                *)

\* Each area of IDURAR is what its own module says, whichever of them is used, so
\* that everything proved of an area holds in the whole.
THEOREM AreasTogether == ErpSpec => Spec /\ CrudSpec /\ SessionsSpecification
<1>1. ErpInit => Init /\ CrudInit /\ SessionsInitially
  BY DEF ErpInit
<1>2. [ErpNext]_erpVars => [Next]_vars
  BY DEF ErpNext, erpVars
<1>3. [ErpNext]_erpVars => [CrudNext]_crudVars
  BY DEF ErpNext, erpVars
<1>4. [ErpNext]_erpVars => [SessionsStep]_sessionsVars
  BY DEF ErpNext, erpVars
<1> QED BY <1>1, <1>2, <1>3, <1>4, PTL DEF ErpSpec, Spec, CrudSpec, SessionsSpecification

\* The collections, the requests, the screens and the login of IDURAR keep their
\* types.
THEOREM ErpTypeCorrect == ErpSpec => []ErpTypeOK
<1>1. ErpInit => area \in {"ledger", "customers", "sessions"}
  BY DEF ErpInit
<1>2. area \in {"ledger", "customers", "sessions"} /\ [ErpNext]_erpVars
        => (area \in {"ledger", "customers", "sessions"})'
  BY DEF ErpNext, erpVars
<1>3. CrudInv => CrudTypeOK
  BY DEF CrudInv
<1>4. area \in {"ledger", "customers", "sessions"} /\ LedgerTypeOK /\ CrudTypeOK /\ LoginsTypeOK
        => ErpTypeOK
  BY DEF ErpTypeOK
<1> QED BY <1>1, <1>2, <1>3, <1>4, AreasTogether, LedgerTypeCorrect, CrudInductive,
           LoginsTypeCorrect, PTL DEF ErpSpec

\* What is proved of the areas holds of the whole: the credit and the list of an
\* invoice, its status, its removal and its total, and the buttons and the table of
\* the customer screen.
THEOREM ErpKeeps ==
  ErpSpec => /\ [](/\ CreditIsSum /\ ListsLivePayments /\ StatusAgrees /\ RemovedTogether
                   /\ ActsOnWhatIsShown /\ TableCatchesUp)
             /\ NeverOverpaid
BY AreasTogether, CreditFollows, ListExact, StatusFollows, PaymentsFollow, ButtonsActOnShown,
   TableConverges, CreditWithinTotal, PTL
=============================================================================
