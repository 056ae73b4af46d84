----------------------------- MODULE CrudModule -----------------------------
(***************************************************************************)
(* The customer screen of the IDURAR front end: a table, a side panel that *)
(* shows, edits and creates a record, and a dialog that deletes one        *)
(* (modules/CrudModule and the components it uses), over the Redux slice   *)
(* of redux/crud and the generic handlers of the backend's                 *)
(* createCRUDController.  A call carries no id: its answer is put into the *)
(* slice whatever has been clicked since, and effects react to the slice.  *)
(*                                                                         *)
(* A dispatch and the effects it causes are one step, since React renders  *)
(* store updates synchronously and then flushes the effects.  The loading  *)
(* flags are left out: they drive spinners, which stop a mouse but not the *)
(* Enter key.  The dialog and the panel cover what is below them, and what *)
(* is drawn with opacity 0 is not pressed.                                 *)
(***************************************************************************)
EXTENDS Naturals, FiniteSets

CONSTANTS
  Records,     \* documents of collection Client that are ever created
  Initially,   \* those that exist from the start
  Queries,     \* what a filter or a page of the table asks for: the matching records
  Calls,       \* requests of the browser in flight
  NoRecord

ASSUME CrudAssumption ==
  /\ Initially \subseteq Records /\ NoRecord \notin Records
  /\ Queries \subseteq SUBSET Records
  /\ IsFiniteSet(Calls)
  /\ "table" \notin Calls

VARIABLES
  client,    \* collection Client: absent, live, or with removed: true
  call,      \* the requests in flight
  store,     \* the slice `crud` of the Redux store
  screen,    \* the context, the forms, and which of them are mounted
  recent     \* history: the lists asked for since the last write was answered:
             \* those in flight, and "table" if the table shows one (or was emptied)

crudVars == <<client, call, store, screen, recent>>

NoCall == [key |-> "none"]
Sent(key, of) == [key |-> key, of |-> of, at |-> "sent"]

Open(c) == call[c] = NoCall
Live == {r \in Records : client[r] = "live"}

\* A row of the table shows a document as it is, or as it was before a write.
Rows(q) == [r \in Records |-> IF r \in q \cap Live THEN "current" ELSE "none"]
Older(list, r) == [list EXCEPT !.rows[r] = IF @ = "none" THEN @ ELSE "old"]
NoRows == [query |-> {}, rows |-> [r \in Records |-> "none"]]

\* INITIAL_STATE of the reducer.  Of `create` only isSuccess is read, of `update`
\* and `delete` isSuccess and current; `read` and `search` are left out.
InitialStore ==
  [current |-> NoRecord, list |-> NoRows, created |-> FALSE, update |-> NoRecord, updated |-> FALSE,
   delete |-> NoRecord, deleted |-> FALSE]

\* The context's initial state, with every form empty.
InitialScreen(page) ==
  [page |-> page, panel |-> FALSE, box |-> FALSE, view |-> "none", modal |-> FALSE,
   form |-> NoRecord, displayItem |-> NoRecord]

\* What a form or dialog holds while it is not shown is left out, and so is which
\* half of a closed panel is open: both are set whenever they are shown.
Hidden(sc) == [sc EXCEPT !.form = IF sc.view = "edit" THEN @ ELSE NoRecord,
                         !.displayItem = IF sc.modal THEN @ ELSE NoRecord,
                         !.box = sc.panel /\ @]

CrudInit ==
  /\ client = [r \in Records |-> IF r \in Initially THEN "live" ELSE "absent"]
  /\ call = [c \in Calls |-> NoCall]
  /\ store = InitialStore
  /\ screen = InitialScreen("away")
  /\ recent = {}

-----------------------------------------------------------------------------
(* Sending.                                                                 *)

\* The lists in slots S are sent: the table is brought up to date.
SendLists(S, q) ==
  /\ \A c \in S : Open(c)
  /\ call' = [c \in Calls |-> IF c \in S THEN Sent("list", q) ELSE call[c]]
  /\ recent' = recent \cup S

Send(c, key, of) ==
  /\ Open(c)
  /\ call' = [call EXCEPT ![c] = Sent(key, of)]
  /\ UNCHANGED recent

\* The drawer renders its content when it is opened first.  The effects of the
\* two forms then run, and see answers that came before: readBox, collapsedBox
\* and panel are opened, the form is reset and the list is asked for again.
Waiting(st) == (IF st.created THEN 1 ELSE 0) + (IF st.updated THEN 1 ELSE 0)

Settle(st) == [st EXCEPT !.created = FALSE, !.updated = FALSE,
                         !.update = IF st.updated THEN NoRecord ELSE @]

OpenPanel(st, sc) ==
  LET late == sc.page = "fresh" /\ Waiting(st) > 0
  IN /\ \E S \in SUBSET Calls :
          /\ Cardinality(S) = IF late THEN Waiting(st) ELSE 0
          /\ SendLists(S, Records)
     /\ store' = IF late THEN Settle(st) ELSE st
     /\ screen' = Hidden([sc EXCEPT !.page = "opened", !.panel = TRUE,
                                    !.view = IF late THEN "read" ELSE @,
                                    !.box = IF late THEN TRUE ELSE @])
     /\ UNCHANGED client

-----------------------------------------------------------------------------
(* The page, its table and its panel.                                       *)

\* CrudModule resets the slice in a layout effect; DataTable asks for the list
\* and so does DeleteModal if a deletion was the last thing seen.
Enter ==
  /\ screen.page = "away"
  /\ \E S \in SUBSET Calls :
       /\ Cardinality(S) = IF store.deleted THEN 2 ELSE 1
       /\ SendLists(S, Records)
  /\ store' = InitialStore
  /\ screen' = InitialScreen("fresh")
  /\ UNCHANGED client

Leave ==
  /\ screen.page # "away"
  /\ screen' = InitialScreen("away")
  /\ UNCHANGED <<client, call, store, recent>>

OnTable == screen.page # "away" /\ ~screen.panel /\ ~screen.modal
OnPanel == screen.panel /\ ~screen.modal
OnTop   == OnPanel /\ screen.box

\* The filter, a page of the table, the refresh button.
Filter(c, q) ==
  /\ OnTable
  /\ Open(c) /\ SendLists({c}, q)
  /\ UNCHANGED <<client, store, screen>>

InTable(r) == store.list.rows[r] # "none"

AddNewItem ==
  /\ OnTable
  /\ OpenPanel(store, [screen EXCEPT !.box = FALSE])

HandleRead(r) ==
  /\ OnTable /\ InTable(r)
  /\ OpenPanel([store EXCEPT !.current = r],
               [screen EXCEPT !.box = TRUE, !.view = "read"])

HandleEdit(r) ==
  /\ OnTable /\ InTable(r)
  /\ OpenPanel([store EXCEPT !.current = r, !.update = r, !.updated = FALSE],
               [screen EXCEPT !.box = TRUE, !.view = "edit", !.form = r])

OpenModal(r) ==
  /\ store' = [store EXCEPT !.delete = r, !.deleted = FALSE]
  /\ screen' = [screen EXCEPT !.modal = TRUE, !.displayItem = r]
  /\ UNCHANGED <<client, call, recent>>

\* The table's menu, and the button of the panel.
HandleDelete == \E r \in Records : OnTable /\ InTable(r) /\ OpenModal(r)
RemoveItem   == OnTop /\ screen.view # "none" /\ OpenModal(store.current)

EditItem ==
  /\ OnTop /\ screen.view # "none"
  /\ store' = [store EXCEPT !.update = store.current, !.updated = FALSE]
  /\ screen' = [screen EXCEPT !.view = "edit", !.form = store.current]
  /\ UNCHANGED <<client, call, recent>>

\* Local buttons: cancel of the form, the two collapse buttons, the plus.
Show(sc) == screen' = Hidden(sc) /\ UNCHANGED <<client, call, store, recent>>

CancelEdit    == OnTop /\ screen.view = "edit" /\ Show([screen EXCEPT !.view = "read"])
CollapsePanel == OnPanel /\ Show([screen EXCEPT !.panel = FALSE])
CollapseBox   == OnPanel /\ Show([screen EXCEPT !.box = ~@])
HandleCancel  == screen.modal /\ Show([screen EXCEPT !.modal = FALSE])

SubmitCreate(c) ==
  /\ OnPanel /\ ~screen.box
  /\ Send(c, "create", NoRecord)
  /\ UNCHANGED <<client, store, screen>>

SubmitUpdate(c) ==
  /\ OnTop /\ screen.view = "edit"
  /\ Send(c, "update", store.update)
  /\ UNCHANGED <<client, store, screen>>

\* The id is read before the slice is reset; an edit box stays as it is.
HandleOk(c) ==
  /\ screen.modal
  /\ Send(c, "delete", store.delete)
  /\ store' = [store EXCEPT !.delete = NoRecord, !.deleted = FALSE]
  /\ screen' = Hidden([screen EXCEPT !.modal = FALSE, !.panel = FALSE,
                                     !.view = IF @ = "read" THEN "none" ELSE @])
  /\ UNCHANGED client

\* The search of the panel is abstracted to the record that is chosen from its
\* options, which the server once had.
OnSelect(r) ==
  /\ OnPanel /\ client[r] # "absent"
  /\ store' = [store EXCEPT !.current = r]
  /\ screen' = Hidden([screen EXCEPT !.box = TRUE, !.view = "read"])
  /\ UNCHANGED <<client, call, recent>>

-----------------------------------------------------------------------------
(* The server: paginatedList, create, update and remove.                    *)

Answered(c, key) == call[c].key = key /\ call[c].at = "served"
Serving(c, key) == call[c].key = key /\ call[c].at = "sent"
Reply(c, result) == [key |-> call[c].key, at |-> "served", result |-> result]

ServeList(c) ==
  /\ Serving(c, "list")
  /\ call' = [call EXCEPT ![c] = Reply(c, [query |-> call[c].of, rows |-> Rows(call[c].of)])]
  /\ UNCHANGED <<client, store, screen, recent>>

\* A document is written: lists that were read before show it as it was.
Write(c, r, state) ==
  /\ client' = [client EXCEPT ![r] = state]
  /\ store' = [store EXCEPT !.list = Older(@, r)]
  /\ call' = [d \in Calls |->
       IF d = c THEN Reply(c, r)
       ELSE IF Answered(d, "list") THEN [call[d] EXCEPT !.result = Older(@, r)] ELSE call[d]]
  /\ UNCHANGED <<screen, recent>>

ServeCreate(c) ==
  /\ Serving(c, "create")
  /\ \E r \in Records : client[r] = "absent" /\ Write(c, r, "live")

\* A document that has been removed is not found: CallFails is the answer.
ServeUpdate(c) ==
  /\ Serving(c, "update")
  /\ call[c].of \in Live /\ Write(c, call[c].of, "live")

\* By id only: the answer is a success for a document that is removed already.
ServeDelete(c) == Serving(c, "delete") /\ Write(c, call[c].of, "removed")

-----------------------------------------------------------------------------
(* The answer: the thunk dispatches, the reducer stores, the effects follow. *)

Done(c) == call' = [call EXCEPT ![c] = NoCall]

\* The effect asks for the list in the slot of the call that was answered.  The
\* lists asked for before may not know the write.
Refresh(c) == call' = [call EXCEPT ![c] = Sent("list", Records)] /\ recent' = {c}

NotRefreshed(c) == Done(c) /\ recent' = {}

\* The reducer stores whatever list is answered, in the order of the answers.
ListAnswer(c) ==
  /\ Answered(c, "list")
  /\ store' = [store EXCEPT !.list = call[c].result]
  /\ recent' = IF c \in recent THEN (recent \ {c}) \cup {"table"} ELSE recent \ {"table"}
  /\ Done(c)
  /\ UNCHANGED <<client, screen>>

FormAnswer_Mutant(c) ==  \* the list is not asked for
  /\ Answered(c, "create") \/ Answered(c, "update")
  /\ store' = [store EXCEPT !.current = call[c].result,
                            !.update = IF call[c].key = "update" THEN NoRecord ELSE @]
  /\ screen' = Hidden([screen EXCEPT !.view = "read"])
  /\ Done(c)
  /\ UNCHANGED <<client, recent>>

\* The form that is mounted shows the record, resets the slice and asks for the
\* list; a form that is not leaves the slice as it is.
FormAnswer(c) ==
  LET update  == call[c].key = "update"
      mounted == screen.page = "opened"
  IN /\ Answered(c, "create") \/ Answered(c, "update")
     /\ store' = [store EXCEPT !.current = call[c].result,
                               !.update  = IF update THEN NoRecord ELSE @,
                               !.updated = IF update THEN ~mounted ELSE @,
                               !.created = IF update THEN @ ELSE ~mounted]
     /\ IF mounted
        THEN /\ Refresh(c)
             /\ screen' = Hidden([screen EXCEPT !.panel = TRUE, !.box = TRUE, !.view = "read"])
        ELSE NotRefreshed(c) /\ UNCHANGED screen
     /\ UNCHANGED client

DeleteAnswer_Mutant(c) ==  \* the dialog stays, as the button has closed it
  /\ Answered(c, "delete")
  /\ store' = [store EXCEPT !.delete = NoRecord, !.deleted = TRUE]
  /\ IF screen.page # "away" /\ ~store.deleted THEN Refresh(c) ELSE NotRefreshed(c)
  /\ UNCHANGED <<client, screen>>

\* The dialog closes itself, although the button has closed it: another record
\* may be in it by now.  The effect runs when isSuccess becomes true.
DeleteAnswer(c) ==
  /\ Answered(c, "delete")
  /\ store' = [store EXCEPT !.delete = NoRecord, !.deleted = TRUE]
  /\ IF screen.page # "away" /\ ~store.deleted
     THEN Refresh(c) /\ screen' = Hidden([screen EXCEPT !.modal = FALSE])
     ELSE NotRefreshed(c) /\ UNCHANGED screen
  /\ UNCHANGED client

\* The server refuses, fails, or cannot be reached, before or after it served.
CallFails(c) ==
  /\ ~Open(c)
  /\ store' = CASE call[c].key = "create" -> [store EXCEPT !.created = FALSE]
                [] call[c].key = "update" -> [store EXCEPT !.updated = FALSE]
                [] call[c].key = "delete" -> [store EXCEPT !.deleted = FALSE]
                [] OTHER -> store
  /\ recent' = IF \E k \in {"create", "update", "delete"} : Answered(c, k) THEN {}
               ELSE recent \ {c}
  /\ Done(c)
  /\ UNCHANGED <<client, screen>>

CrudNext ==
  \/ Enter \/ Leave
  \/ AddNewItem \/ HandleDelete \/ RemoveItem \/ EditItem
  \/ CancelEdit \/ CollapsePanel \/ CollapseBox \/ HandleCancel
  \/ \E r \in Records : HandleRead(r) \/ HandleEdit(r) \/ OnSelect(r)
  \/ \E c \in Calls :
       \/ \E q \in Queries : Filter(c, q)
       \/ SubmitCreate(c) \/ SubmitUpdate(c) \/ HandleOk(c)
       \/ ServeList(c) \/ ServeCreate(c) \/ ServeUpdate(c) \/ ServeDelete(c)
       \/ ListAnswer(c) \/ FormAnswer(c) \/ DeleteAnswer(c)
       \/ CallFails(c)

CrudSpec == CrudInit /\ [][CrudNext]_crudVars

-----------------------------------------------------------------------------
Maybe == Records \cup {NoRecord}
Tables == [query : SUBSET Records, rows : [Records -> {"none", "current", "old"}]]
CallStates ==
  {NoCall}
    \cup [key : {"list"}, of : SUBSET Records, at : {"sent"}]
    \cup [key : {"create", "update", "delete"}, of : Maybe, at : {"sent"}]
    \cup [key : {"list"}, at : {"served"}, result : Tables]
    \cup [key : {"create", "update", "delete"}, at : {"served"}, result : Maybe]

\* The slice, the screen and the requests are well formed; no request is sent for
\* the id of no record.
CrudTypeOK ==
  /\ client \in [Records -> {"absent", "live", "removed"}]
  /\ call \in [Calls -> CallStates]
  /\ \A c \in Calls : Serving(c, "update") \/ Serving(c, "delete") => call[c].of \in Records
  /\ store \in [current : Maybe, list : Tables, created : BOOLEAN, update : Maybe,
                updated : BOOLEAN, delete : Maybe, deleted : BOOLEAN]
  /\ screen \in [page : {"away", "fresh", "opened"}, panel : BOOLEAN, box : BOOLEAN,
                 view : {"none", "read", "edit"}, modal : BOOLEAN, form : Maybe,
                 displayItem : Maybe]
  /\ recent \subseteq Calls \cup {"table"}

\* What a button acts on is what is shown, whatever answers have arrived since
\* it was shown: the dialog deletes the record it names, the edit form saves the
\* record whose values it has and which the panel names, and the panel's buttons
\* have a record (DeleteModal:28, UpdateForm:36, CrudModule:42: each reads the id
\* from the slice that answers write).
ActsOnWhatIsShown ==
  /\ screen.modal => store.delete \in Records /\ store.delete = screen.displayItem
  /\ screen.view = "edit" => /\ store.update \in Records
                             /\ store.update = screen.form /\ store.update = store.current
  /\ screen.view # "none" => store.current \in Records

Writing(c) == call[c].key \in {"create", "update", "delete"}

\* When nothing is being written, a table with the answer to a list that was asked
\* for after the last write was answered shows what the server has, in whatever
\* order the answers to these lists came, to writes that overlapped, and whatever
\* failed: every write asks for the list once more (actions.js:47, CreateForm:42,
\* UpdateForm:82, DeleteModal:34).  An answer to a list from before the last write
\* may still be put over it, and a write whose success no mounted effect saw turn
\* true asks for no list: a lost answer, a second deletion that is answered right
\* after the first, a form that was sent before the screen was left.
TableCatchesUp ==
  screen.page # "away" /\ "table" \in recent /\ (\A c \in Calls : ~Writing(c))
    => store.list.rows = Rows(store.list.query)
=============================================================================
