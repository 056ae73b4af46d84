----------------------------- MODULE Enrolment -----------------------------
(***************************************************************************)
(* The students of one school: their codes, the import of a sheet row by   *)
(* row, and the links between students and parents                         *)
(* (routes/schools.routes.ts, nextStudentCode of routes/students.routes.ts,*)
(* routes/parents.routes.ts, the import screen of the school).             *)
(*                                                                         *)
(* A student is known by the serial in the code, since Student.code is     *)
(* unique and the slug of a school is constant; the year does not turn     *)
(* here.  No route deletes a student.  Every row of the sheet names a stop.*)
(***************************************************************************)
EXTENDS Requests

CONSTANTS
  Families,     \* the phone numbers of parents
  Registered,   \* those that have an account from the start
  Rows,         \* rows of the sheet
  Phone,        \* Phone[r]: the parent's phone in row r
  MaxStudents   \* bound: rows of table Student

ASSUME EnrolmentAssumption ==
  /\ Registered \subseteq Families
  /\ Rows \in Nat \ {0} /\ MaxStudents \in Nat
  /\ Phone \in [1..Rows -> Families]

VARIABLES
  users,     \* parents that have a User row
  students,  \* table Student: the sheet's row of each, or 0, and its parents
  sheet,     \* the import screen: no file, rows previewed, stops gone, imported
  awaited,   \* the request whose answer the confirm button waits for, in a set
  lists      \* how many lists of stops the route of the bus consists of

enrolmentVars == <<users, students, sheet, awaited, lists>>

Serials   == 1..MaxStudents
NoStudent == [kind |-> "none"]
Enrolled  == {n \in Serials : students[n] # NoStudent}
NextSerial_Mutant == Cardinality(Enrolled) + 1 + failures
NextSerial == Cardinality(Enrolled) + 1

EnrolmentInit ==
  /\ users = Registered
  /\ students = [n \in Serials |-> NoStudent]
  /\ sheet = "none" /\ awaited = {}
  /\ lists = 1

-----------------------------------------------------------------------------
\* The request ends with an error, which the screen shows if it waits for it.
Reject(w) == Fail(w) /\ awaited' = awaited \ {w}

(* Codes.                                                                   *)

\* Student.code is unique; otherwise the row is inserted and the request goes on.
CreateStudent(w, row, next) ==
  LET n == req[w].serial IN
  IF n \in Enrolled THEN Reject(w) /\ UNCHANGED students
  ELSE /\ students' = [students EXCEPT ![n] = [kind |-> "student", row |-> row, parents |-> {}]]
       /\ Continue(w, next) /\ UNCHANGED awaited

\* POST /schools/:id/students
Enrol(w) ==
  /\ Free(w)
  /\ NextSerial \in Serials
  /\ Continue(w, [at |-> "enrol", serial |-> NextSerial])
  /\ UNCHANGED enrolmentVars

EnrolCreate(w) ==
  /\ At(w, "enrol")
  /\ CreateStudent(w, 0, Idle)
  /\ UNCHANGED <<users, sheet, lists>>

-----------------------------------------------------------------------------
(* The import of a sheet.                                                   *)

ImportSteps == {"count", "create", "find-parent", "create-parent", "link-row", "row-done"}
Importing(w) == req[w].at \in ImportSteps

\* pickFile and the preview: rows whose stops are ids of table Stop.  Nobody
\* picks the file again while the server imports it.
PickFile ==
  /\ sheet # "imported"
  /\ \A w \in Workers : ~Importing(w)
  /\ sheet' = "previewed"
  /\ UNCHANGED <<users, students, awaited, lists, req, failures>>

Confirm_Mutant(w) ==
  /\ Free(w)
  /\ sheet \in {"previewed", "stale"}
  /\ failures <= MaxFailures
  /\ awaited' = {w}
  /\ Continue(w, [at |-> "count", row |-> 1])
  /\ UNCHANGED <<users, students, sheet, lists>>

\* The confirm button, which is disabled while its request is pending.  After an
\* error the rows are still there and the button works again.
Confirm(w) ==
  /\ Free(w)
  /\ sheet \in {"previewed", "stale"}
  /\ awaited = {}
  /\ failures <= MaxFailures
  /\ awaited' = {w}
  /\ Continue(w, [at |-> "count", row |-> 1])
  /\ UNCHANGED <<users, students, sheet, lists>>

\* The connection breaks: the screen shows an error, and the server goes on.
LoseAnswer ==
  /\ awaited # {}
  /\ failures < MaxFailures /\ failures' = failures + 1
  /\ awaited' = {}
  /\ UNCHANGED <<users, students, sheet, lists, req>>

CountStudents(w) ==
  /\ At(w, "count")
  /\ NextSerial \in Serials
  /\ Continue(w, [at |-> "create", row |-> req[w].row, serial |-> NextSerial])
  /\ UNCHANGED enrolmentVars

\* A stop that was deleted breaks the foreign key.
ImportStudent(w) ==
  /\ At(w, "create")
  /\ IF sheet = "stale" THEN Reject(w) /\ UNCHANGED students
     ELSE CreateStudent(w, req[w].row,
            [at |-> "find-parent", row |-> req[w].row, student |-> req[w].serial])
  /\ UNCHANGED <<users, sheet, lists>>

GotoRow(w, step) ==
  Continue(w, [at |-> step, row |-> req[w].row, student |-> req[w].student])

FindParent(w) ==
  /\ At(w, "find-parent")
  /\ GotoRow(w, IF Phone[req[w].row] \in users THEN "link-row" ELSE "create-parent")
  /\ UNCHANGED enrolmentVars

\* User.phone is unique.
CreateAccount_Mutant(w) ==
  /\ At(w, "create-parent")
  /\ IF Phone[req[w].row] \in users THEN GotoRow(w, "row-done") /\ UNCHANGED users
     ELSE users' = users \cup {Phone[req[w].row]} /\ GotoRow(w, "link-row")
  /\ UNCHANGED <<students, sheet, awaited, lists>>

CreateAccount(w) ==
  /\ At(w, "create-parent")
  /\ IF Phone[req[w].row] \in users THEN Reject(w) /\ UNCHANGED users
     ELSE /\ users' = users \cup {Phone[req[w].row]}
          /\ GotoRow(w, "link-row") /\ UNCHANGED awaited
  /\ UNCHANGED <<students, sheet, lists>>

AddParent(n, u) == students' = [students EXCEPT ![n].parents = @ \cup {u}]

\* The pair is unique: the parent may have linked the student meanwhile.
LinkRow(w) ==
  /\ At(w, "link-row")
  /\ LET u == Phone[req[w].row]
         n == req[w].student IN
     IF u \in students[n].parents THEN Reject(w) /\ UNCHANGED students
     ELSE AddParent(n, u) /\ GotoRow(w, "row-done") /\ UNCHANGED awaited
  /\ UNCHANGED <<users, sheet, lists>>

\* The medical profile is written; the loop goes on or the request is answered.
RowDone(w) ==
  /\ At(w, "row-done")
  /\ IF req[w].row < Rows
     THEN /\ Continue(w, [at |-> "count", row |-> req[w].row + 1])
          /\ UNCHANGED <<sheet, awaited>>
     ELSE /\ Succeed(w)
          /\ sheet' = IF w \in awaited THEN "imported" ELSE sheet
          /\ awaited' = awaited \ {w}
  /\ UNCHANGED <<users, students, lists>>

-----------------------------------------------------------------------------
(* POST /buses/:id/route: the stops are deleted, and a list is inserted.    *)

DeleteStops_Mutant(w) ==
  /\ Free(w)
  /\ Continue(w, [at |-> "create-stops"])
  /\ UNCHANGED enrolmentVars

DeleteStops(w) ==
  /\ Free(w)
  /\ lists' = 0
  /\ sheet' = IF sheet = "previewed" THEN "stale" ELSE sheet
  /\ Continue(w, [at |-> "create-stops"])
  /\ UNCHANGED <<users, students, awaited>>

CreateStops(w) ==
  /\ At(w, "create-stops")
  /\ lists' = lists + 1
  /\ Succeed(w)
  /\ UNCHANGED <<users, students, sheet, awaited>>

-----------------------------------------------------------------------------
(* Parents.                                                                 *)

\* The first one-time code requested for a number creates its account.
SignUp(u) ==
  /\ u \notin users
  /\ users' = users \cup {u}
  /\ UNCHANGED <<students, sheet, awaited, lists, req, failures>>

\* POST /parents/students/link
Link_Mutant(w, u, n) ==
  /\ Free(w)
  /\ u \in users /\ n \in Enrolled
  /\ Continue(w, [at |-> "link", parent |-> u, student |-> n])
  /\ UNCHANGED enrolmentVars

Link(w, u, n) ==
  /\ Free(w)
  /\ u \in users /\ n \in Enrolled
  /\ students[n].parents = {} \/ u \in students[n].parents
  /\ Continue(w, [at |-> "link", parent |-> u, student |-> n])
  /\ UNCHANGED enrolmentVars

LinkWrite(w) ==
  /\ At(w, "link")
  /\ AddParent(req[w].student, req[w].parent)
  /\ Succeed(w)
  /\ UNCHANGED <<users, sheet, awaited, lists>>

EnrolmentStep(w) ==
  \/ Enrol(w) \/ EnrolCreate(w)
  \/ Confirm(w) \/ CountStudents(w) \/ ImportStudent(w) \/ FindParent(w)
  \/ CreateAccount(w) \/ LinkRow(w) \/ RowDone(w)
  \/ \E u \in Families, n \in Serials : Link(w, u, n)
  \/ LinkWrite(w) \/ DeleteStops(w) \/ CreateStops(w)
  \/ /\ Crash(w)
     /\ awaited' = awaited \ {w}
     /\ UNCHANGED <<users, students, sheet, lists>>

EnrolmentNext ==
  \/ \E w \in Workers : EnrolmentStep(w)
  \/ PickFile \/ LoseAnswer
  \/ \E u \in Families : SignUp(u)

EnrolmentSpec ==
  RequestsInit /\ EnrolmentInit /\ [][EnrolmentNext]_<<enrolmentVars, req, failures>>

-----------------------------------------------------------------------------
EnrolmentReqs ==
  {Idle} \cup [at : {"enrol"}, serial : Serials] \cup [at : {"count"}, row : 1..Rows]
    \cup [at : {"create"}, row : 1..Rows, serial : Serials]
    \cup [at : ImportSteps \ {"count", "create"}, row : 1..Rows, student : Serials]
    \cup [at : {"create-stops"}] \cup [at : {"link"}, parent : Families, student : Serials]

StudentRows == [kind : {"student"}, row : 0..Rows, parents : SUBSET Families]

\* Every row has its type, and so do the handlers' locals.
EnrolmentTypeOK ==
  /\ users \subseteq Families
  /\ students \in [Serials -> StudentRows \cup {NoStudent}]
  /\ sheet \in {"none", "previewed", "stale", "imported"}
  /\ awaited \subseteq Workers
  /\ lists \in Nat
  /\ req \in [Workers -> EnrolmentReqs]
  /\ failures \in Nat

\* The serials in use are 1..n, so the next count is a code that nobody has: one
\* gap or repetition, from whatever requests that counted together or failed
\* half way, would make every later enrolment collide (students.routes.ts:371).
SerialsDense == Enrolled = 1..Cardinality(Enrolled)

\* A row of a sheet that is confirmed until it succeeds is enrolled once, and
\* once more at most for each request that failed, or whose answer was lost,
\* meanwhile: confirm starts over at the first row (schools.routes.ts:243), even
\* when the request before it is still inserting students.
CopiesBounded ==
  \A r \in 1..Rows :
    Cardinality({n \in Enrolled : students[n].row = r}) <= 1 + failures

\* The student a request has just imported and not yet linked.
InProgress == {req[w].student : w \in {v \in Workers :
                 req[v].at \in {"find-parent", "create-parent", "link-row"}}}

\* An imported student without a parent is one that a failed request has left
\* behind, and no request leaves more than one: the statements of a row are
\* ordered and each may fail on a unique column (schools.routes.ts:244-259).
StrandedBounded ==
  Cardinality({n \in Enrolled : /\ students[n].row # 0
                                /\ students[n].parents = {}
                                /\ n \notin InProgress}) <= failures

\* The parents that a student has, or that a request past the check is about to
\* add, are at most as many as requests are served at once; only a race gives a
\* student a second one (parents.routes.ts:22 and schools.routes.ts:259).
Applicants(n) ==
  {req[w].parent : w \in {v \in Workers : At(v, "link") /\ req[v].student = n}}
    \cup {Phone[req[w].row] : w \in {v \in Workers :
            /\ req[v].at \in {"find-parent", "create-parent", "link-row"}
            /\ req[v].student = n}}

FamilyBounded ==
  \A n \in Enrolled :
    Cardinality(students[n].parents \cup Applicants(n)) <= Cardinality(Workers)

\* As long as no request has failed, a route is without stops only while a
\* replacement is between its two statements; and whatever fails, it never mixes
\* more lists than there are requests at once (buses.routes.ts:69-81).
Replacing == {w \in Workers : At(w, "create-stops")}
StopsWhole ==
  /\ lists = 0 => Replacing # {} \/ failures > 0
  /\ lists + Cardinality(Replacing) <= Cardinality(Workers)
=============================================================================
