-------------------------- MODULE EnrolmentProofs --------------------------
(***************************************************************************)
(* Type correctness and the five safety properties of Enrolment, for any   *)
(* number of requests, families, rows and students.                        *)
(***************************************************************************)
EXTENDS Enrolment, FiniteSetTheorems, TLAPS

eVars == <<enrolmentVars, req, failures>>

Linking  == {"find-parent", "create-parent", "link-row"}
Counted(w) == req[w].at \in {"enrol", "create"}
LinksRow(w) == req[w].at \in Linking

\* The serial a request holds is in use or the next one, and the student it works
\* on exists.
LocalsExist ==
  \A w \in Workers :
    /\ Counted(w) => req[w].serial <= Cardinality(Enrolled) + 1
    /\ LinksRow(w) \/ At(w, "link") => req[w].student \in Enrolled

EnrolmentCore == EnrolmentTypeOK /\ SerialsDense /\ LocalsExist

-----------------------------------------------------------------------------
LEMMA EnrolledFinite ==
  ASSUME NEW S, S \subseteq Serials
  PROVE  IsFiniteSet(S) /\ Cardinality(S) \in Nat
<1>1. IsFiniteSet(Serials)
  BY EnrolmentAssumption, FS_Interval DEF Serials
<1> QED BY <1>1, FS_Subset, FS_CardinalityType

LEMMA WorkersFinite ==
  ASSUME NEW S, S \subseteq Workers
  PROVE  /\ IsFiniteSet(S) /\ Cardinality(S) \in Nat /\ Cardinality(S) <= Cardinality(Workers)
         /\ Cardinality(Workers) \in Nat \ {0}
  BY RequestsAssumption, FS_Subset, FS_CardinalityType, FS_EmptySet

LEMMA EnrolmentInit0 == RequestsInit /\ EnrolmentInit => EnrolmentCore
<1> SUFFICES ASSUME RequestsInit, EnrolmentInit PROVE EnrolmentCore
  OBVIOUS
<1>1. EnrolmentTypeOK
  BY RequestsAssumption, EnrolmentAssumption
    DEF RequestsInit, EnrolmentInit, EnrolmentTypeOK, EnrolmentReqs, Idle
<1>2. Enrolled = {}
  BY DEF EnrolmentInit, Enrolled
<1>3. SerialsDense
  BY <1>2, FS_EmptySet DEF SerialsDense
<1>4. LocalsExist
  BY DEF RequestsInit, Idle, LocalsExist, Counted, LinksRow, At, Linking
<1> QED BY <1>1, <1>3, <1>4 DEF EnrolmentCore

\* The local variables of a request, by the statement it is about to execute.
LEMMA Locals ==
  ASSUME EnrolmentCore, NEW w \in Workers
  PROVE  /\ At(w, "enrol") => req[w].serial \in Serials
         /\ At(w, "count") => req[w].row \in 1..Rows
         /\ At(w, "create") => req[w].row \in 1..Rows /\ req[w].serial \in Serials
         /\ LinksRow(w) \/ At(w, "row-done") =>
              req[w].row \in 1..Rows /\ req[w].student \in Serials
         /\ LinksRow(w) => req[w].student \in Enrolled
         /\ At(w, "link") => req[w].parent \in Families /\ req[w].student \in Enrolled
<1>1. req[w] \in EnrolmentReqs
  BY DEF EnrolmentCore, EnrolmentTypeOK
<1>2. LinksRow(w) \/ At(w, "link") => req[w].student \in Enrolled
  BY DEF EnrolmentCore, LocalsExist
<1> QED BY <1>1, <1>2 DEF EnrolmentReqs, ImportSteps, At, LinksRow, Linking, Idle

\* A row that is inserted has the next serial.
LEMMA InsertedIsNext ==
  ASSUME EnrolmentCore, NEW w \in Workers, Counted(w), NEW row \in 0..Rows, NEW n,
         n = req[w].serial, n \notin Enrolled,
         students' = [students EXCEPT ![n] = [kind |-> "student", row |-> row, parents |-> {}]]
  PROVE  /\ Enrolled' = Enrolled \cup {n}
         /\ Cardinality(Enrolled') = Cardinality(Enrolled) + 1
         /\ SerialsDense'
         /\ students' \in [Serials -> StudentRows \cup {NoStudent}]
<1> DEFINE s == [kind |-> "student", row |-> row, parents |-> {}]
<1>1. n \in Serials /\ n <= Cardinality(Enrolled) + 1
  BY Locals DEF Counted, At, EnrolmentCore, LocalsExist
<1>2. s \in StudentRows /\ s # NoStudent
  BY DEF StudentRows, NoStudent
<1>3. students \in [Serials -> StudentRows \cup {NoStudent}]
  BY DEF EnrolmentCore, EnrolmentTypeOK
<1>4. Enrolled' = Enrolled \cup {n}
  BY <1>1, <1>2, <1>3 DEF Enrolled
<1>5. Enrolled \subseteq Serials
  BY DEF Enrolled
<1>6. Cardinality(Enrolled') = Cardinality(Enrolled) + 1 /\ Cardinality(Enrolled) \in Nat
  BY <1>4, <1>5, EnrolledFinite, FS_AddElement
<1>7. n = Cardinality(Enrolled) + 1
  BY <1>1, <1>6, EnrolmentAssumption DEF EnrolmentCore, SerialsDense, Serials
<1>8. SerialsDense'
  BY <1>4, <1>6, <1>7 DEF EnrolmentCore, SerialsDense
<1> QED BY <1>1, <1>2, <1>3, <1>4, <1>6, <1>8

\* A parent is added to a row that exists and keeps its other columns.
LEMMA AddParentEffect ==
  ASSUME EnrolmentCore, NEW n \in Enrolled, NEW u \in Families, AddParent(n, u)
  PROVE  /\ students' \in [Serials -> StudentRows \cup {NoStudent}]
         /\ Enrolled' = Enrolled
         /\ students'[n].parents = students[n].parents \cup {u}
         /\ students'[n].row = students[n].row
         /\ \A m \in Serials \ {n} : students'[m] = students[m]
<1>1. students \in [Serials -> StudentRows \cup {NoStudent}] /\ n \in Serials
  BY DEF EnrolmentCore, EnrolmentTypeOK, Enrolled
<1>2. students[n] \in StudentRows
  BY <1>1 DEF Enrolled
<1>3. ASSUME NEW r \in StudentRows
      PROVE  /\ [r EXCEPT !.parents = @ \cup {u}] \in StudentRows
             /\ [r EXCEPT !.parents = @ \cup {u}].parents = r.parents \cup {u}
             /\ [r EXCEPT !.parents = @ \cup {u}].row = r.row
  BY DEF StudentRows
<1>4. students'[n] = [students[n] EXCEPT !.parents = @ \cup {u}]
  BY <1>1 DEF AddParent
<1>5. \A m \in Serials \ {n} : students'[m] = students[m]
  BY <1>1 DEF AddParent
<1>6. students'[n] \in StudentRows /\ students'[n] # NoStudent
  BY <1>2, <1>3, <1>4 DEF StudentRows, NoStudent
<1>7. DOMAIN students' = Serials /\ students' = [m \in Serials |-> students'[m]]
  BY <1>1 DEF AddParent
<1>8. students' \in [Serials -> StudentRows \cup {NoStudent}]
  BY <1>1, <1>5, <1>6, <1>7
<1>9. Enrolled' = Enrolled
  BY <1>5, <1>6 DEF Enrolled
<1> QED BY <1>2, <1>3, <1>4, <1>5, <1>8, <1>9

-----------------------------------------------------------------------------
\* What a step does to table Student: nothing, the next row, or one more parent.
Inserts(w, row) ==
  /\ Counted(w) /\ req[w].serial \notin Enrolled
  /\ students' = [students EXCEPT ![req[w].serial] =
                    [kind |-> "student", row |-> row, parents |-> {}]]

LEMMA StudentsStep ==
  ASSUME EnrolmentCore, [EnrolmentNext]_eVars
  PROVE  \/ UNCHANGED students
         \/ \E w \in Workers, row \in 0..Rows : Inserts(w, row)
         \/ \E n \in Enrolled, u \in Families : AddParent(n, u)
<1> DEFINE Goal == \/ UNCHANGED students
                   \/ \E w \in Workers, row \in 0..Rows : Inserts(w, row)
                   \/ \E n \in Enrolled, u \in Families : AddParent(n, u)
<1>1. ASSUME NEW w \in Workers, EnrolCreate(w) PROVE Goal
  <2>1. 0 \in 0..Rows
    BY EnrolmentAssumption
  <2>2. UNCHANGED students \/ Inserts(w, 0)
    BY <1>1 DEF EnrolCreate, CreateStudent, Inserts, Counted, At
  <2> QED BY <2>1, <2>2
<1>2. ASSUME NEW w \in Workers, ImportStudent(w) PROVE Goal
  <2>1. req[w].row \in 0..Rows
    BY <1>2, Locals, EnrolmentAssumption DEF ImportStudent
  <2>2. UNCHANGED students \/ Inserts(w, req[w].row)
    BY <1>2 DEF ImportStudent, CreateStudent, Inserts, Counted, At
  <2> QED BY <2>1, <2>2
<1>3. ASSUME NEW w \in Workers, LinkRow(w) PROVE Goal
  <2>1. LinksRow(w) /\ req[w].student \in Enrolled /\ req[w].row \in 1..Rows
    BY <1>3, Locals DEF LinkRow, LinksRow, Linking, At
  <2>2. Phone[req[w].row] \in Families
    BY <2>1, EnrolmentAssumption
  <2> QED BY <1>3, <2>1, <2>2 DEF LinkRow
<1>4. ASSUME NEW w \in Workers, LinkWrite(w) PROVE Goal
  <2>1. req[w].student \in Enrolled /\ req[w].parent \in Families
    BY <1>4, Locals DEF LinkWrite
  <2> QED BY <1>4, <2>1 DEF LinkWrite
<1>5. ASSUME NEW w \in Workers,
             \/ Enrol(w) \/ Confirm(w) \/ CountStudents(w) \/ FindParent(w) \/ CreateAccount(w)
             \/ RowDone(w) \/ DeleteStops(w) \/ CreateStops(w)
             \/ \E u \in Families, n \in Serials : Link(w, u, n)
      PROVE  Goal
  BY <1>5 DEF Enrol, Confirm, CountStudents, FindParent, CreateAccount, RowDone, DeleteStops,
       CreateStops, Link, enrolmentVars
<1>6. ASSUME PickFile \/ LoseAnswer \/ (\E u \in Families : SignUp(u)) \/ UNCHANGED eVars
      PROVE  Goal
  BY <1>6 DEF PickFile, LoseAnswer, SignUp, eVars, enrolmentVars
<1> QED BY <1>1, <1>2, <1>3, <1>4, <1>5, <1>6 DEF EnrolmentNext, EnrolmentStep

\* The serials stay dense, and no student goes away.
LEMMA StudentsEffect ==
  ASSUME EnrolmentCore, [EnrolmentNext]_eVars
  PROVE  /\ students' \in [Serials -> StudentRows \cup {NoStudent}]
         /\ SerialsDense'
         /\ Enrolled \subseteq Enrolled' /\ Cardinality(Enrolled) <= Cardinality(Enrolled')
         /\ Cardinality(Enrolled) \in Nat /\ Cardinality(Enrolled') \in Nat
<1>0. Cardinality(Enrolled) \in Nat
  BY EnrolledFinite DEF Enrolled
<1>1. CASE UNCHANGED students
  BY <1>0, <1>1 DEF EnrolmentCore, EnrolmentTypeOK, SerialsDense, Enrolled
<1>2. ASSUME NEW w \in Workers, NEW row \in 0..Rows, Inserts(w, row)
      PROVE  /\ students' \in [Serials -> StudentRows \cup {NoStudent}]
             /\ SerialsDense' /\ Enrolled \subseteq Enrolled'
             /\ Cardinality(Enrolled') = Cardinality(Enrolled) + 1
  BY <1>2, InsertedIsNext DEF Inserts
<1>3. ASSUME NEW n \in Enrolled, NEW u \in Families, AddParent(n, u)
      PROVE  /\ students' \in [Serials -> StudentRows \cup {NoStudent}]
             /\ Enrolled' = Enrolled /\ SerialsDense'
  BY <1>3, AddParentEffect DEF EnrolmentCore, SerialsDense
<1> QED BY <1>0, <1>1, <1>2, <1>3, StudentsStep

-----------------------------------------------------------------------------
\* Every step keeps the types of the rows, the screen and the requests, and the
\* requests hold serials and students as LocalsExist says.
LEMMA EnrolmentCoreStep ==
  ASSUME EnrolmentCore, [EnrolmentNext]_eVars
  PROVE  EnrolmentCore'
<1> USE EnrolmentAssumption
<1> DEFINE ReqsOK == /\ req' \in [Workers -> EnrolmentReqs]
                     /\ LocalsExist'
           RestOK == /\ users' \subseteq Families
                     /\ sheet' \in {"none", "previewed", "stale", "imported"}
                     /\ awaited' \subseteq Workers /\ lists' \in Nat /\ failures' \in Nat
<1>0. /\ req \in [Workers -> EnrolmentReqs] /\ Idle \in EnrolmentReqs
      /\ LocalsExist /\ users \subseteq Families
      /\ sheet \in {"none", "previewed", "stale", "imported"}
      /\ awaited \subseteq Workers /\ lists \in Nat /\ failures \in Nat
  BY DEF EnrolmentCore, EnrolmentTypeOK, EnrolmentReqs
<1>1. /\ Enrolled \subseteq Enrolled' /\ Cardinality(Enrolled) <= Cardinality(Enrolled')
      /\ Cardinality(Enrolled) \in Nat /\ Cardinality(Enrolled') \in Nat
  BY StudentsEffect
<1>2. \A w \in Workers : Counted(w) => req[w].serial \in Nat
  BY Locals DEF Counted, At, Serials
<1>3. ASSUME UNCHANGED req PROVE ReqsOK
  BY <1>0, <1>1, <1>2, <1>3 DEF LocalsExist, Counted, LinksRow, At
<1>4. ASSUME NEW w \in Workers, NEW r \in EnrolmentReqs, req' = [req EXCEPT ![w] = r],
             r.at \in {"enrol", "create"} =>
               r.serial \in Nat /\ r.serial <= Cardinality(Enrolled') + 1,
             r.at \in Linking \cup {"link"} => r.student \in Enrolled'
      PROVE  ReqsOK
  <2>1. req' \in [Workers -> EnrolmentReqs] /\ req'[w] = r
        /\ \A v \in Workers \ {w} : req'[v] = req[v]
    BY <1>0, <1>4
  <2> QED BY <1>0, <1>1, <1>2, <1>4, <2>1 DEF LocalsExist, Counted, LinksRow, At
<1>5. ASSUME NEW w \in Workers, req' = [req EXCEPT ![w] = Idle] PROVE ReqsOK
  BY <1>0, <1>4, <1>5 DEF Idle, Linking
<1>6. ASSUME NEW w \in Workers, NEW row \in 0..Rows, NEW next, CreateStudent(w, row, next),
             next = Idle \/ (/\ next \in EnrolmentReqs /\ next.at = "find-parent"
                           /\ next.student = req[w].serial),
             Counted(w)
      PROVE  ReqsOK /\ awaited' \subseteq Workers /\ failures' \in Nat
  <2>1. CASE req[w].serial \in Enrolled
    BY <1>0, <1>5, <1>6, <2>1 DEF CreateStudent, Reject, Fail, Goto
  <2>2. CASE req[w].serial \notin Enrolled
    <3>1. /\ Inserts(w, row) /\ req' = [req EXCEPT ![w] = next]
          /\ UNCHANGED <<awaited, failures>>
      BY <1>6, <2>2 DEF CreateStudent, Continue, Goto, Inserts
    <3>2. req[w].serial \in Enrolled'
      <4>1. /\ Counted(w) /\ req[w].serial \notin Enrolled
            /\ students' = [students EXCEPT ![req[w].serial] =
                              [kind |-> "student", row |-> row, parents |-> {}]]
        BY <3>1 DEF Inserts
      <4>2. Enrolled' = Enrolled \cup {req[w].serial}
        BY <4>1, InsertedIsNext
      <4> QED BY <4>2
    <3>3. CASE next = Idle
      BY <1>0, <1>5, <3>1, <3>3
    <3>4. CASE next.at = "find-parent" /\ next \in EnrolmentReqs /\ next.student = req[w].serial
      BY <1>0, <1>4, <3>1, <3>2, <3>4
    <3> QED BY <1>6, <3>3, <3>4
  <2> QED BY <2>1, <2>2
<1>7. ASSUME NEW w \in Workers, Enrol(w) PROVE ReqsOK /\ RestOK
  <2>1. [at |-> "enrol", serial |-> NextSerial] \in EnrolmentReqs
    BY <1>7 DEF Enrol, EnrolmentReqs
  <2>2. NextSerial \in Nat /\ NextSerial <= Cardinality(Enrolled') + 1
    BY <1>1 DEF NextSerial
  <2>3. req' = [req EXCEPT ![w] = [at |-> "enrol", serial |-> NextSerial]] /\ RestOK
    BY <1>0, <1>7 DEF Enrol, Continue, Goto, enrolmentVars
  <2> QED BY <1>4, <2>1, <2>2, <2>3 DEF Linking
<1>8. ASSUME NEW w \in Workers, EnrolCreate(w) PROVE ReqsOK /\ RestOK
  <2>1. Counted(w) /\ 0 \in 0..Rows /\ CreateStudent(w, 0, Idle) /\ UNCHANGED <<users, sheet, lists>>
    BY <1>8 DEF EnrolCreate, Counted, At
  <2> QED BY <1>0, <1>6, <2>1
<1>9. ASSUME NEW w \in Workers, Confirm(w) PROVE ReqsOK /\ RestOK
  <2>1. [at |-> "count", row |-> 1] \in EnrolmentReqs
    BY DEF EnrolmentReqs
  <2>2. req' = [req EXCEPT ![w] = [at |-> "count", row |-> 1]] /\ RestOK
    BY <1>0, <1>9 DEF Confirm, Continue, Goto
  <2> QED BY <1>4, <2>1, <2>2 DEF Linking
<1>10. ASSUME NEW w \in Workers, CountStudents(w) PROVE ReqsOK /\ RestOK
  <2> DEFINE r == [at |-> "create", row |-> req[w].row, serial |-> NextSerial]
  <2>1. r \in EnrolmentReqs
    BY <1>10, Locals DEF CountStudents, EnrolmentReqs
  <2>2. NextSerial \in Nat /\ NextSerial <= Cardinality(Enrolled') + 1
    BY <1>1 DEF NextSerial
  <2>3. req' = [req EXCEPT ![w] = r] /\ RestOK
    BY <1>0, <1>10 DEF CountStudents, Continue, Goto, enrolmentVars
  <2>4. r.at = "create" /\ r.serial = NextSerial
    OBVIOUS
  <2> QED BY <1>4, <2>1, <2>2, <2>3, <2>4 DEF Linking
<1>11. ASSUME NEW w \in Workers, ImportStudent(w) PROVE ReqsOK /\ RestOK
  <2> DEFINE r == [at |-> "find-parent", row |-> req[w].row, student |-> req[w].serial]
  <2>1. /\ Counted(w) /\ req[w].row \in 0..Rows /\ r \in EnrolmentReqs
        /\ r.at = "find-parent" /\ r.student = req[w].serial
    BY <1>11, Locals DEF ImportStudent, Counted, At, EnrolmentReqs, ImportSteps
  <2>2. CASE sheet = "stale"
    BY <1>0, <1>5, <1>11, <2>2 DEF ImportStudent, Reject, Fail, Goto
  <2>3. CASE sheet # "stale"
    <3>1. CreateStudent(w, req[w].row, r) /\ UNCHANGED <<users, sheet, lists>>
      BY <1>11, <2>3 DEF ImportStudent
    <3> HIDE DEF r
    <3> QED BY <1>0, <1>6, <2>1, <3>1
  <2> QED BY <2>2, <2>3
<1>12. ASSUME NEW w \in Workers, NEW step \in ImportSteps \ {"count", "create"}, GotoRow(w, step),
              LinksRow(w)
       PROVE  ReqsOK /\ UNCHANGED failures
  <2> DEFINE r == [at |-> step, row |-> req[w].row, student |-> req[w].student]
  <2>1. r \in EnrolmentReqs /\ r.at = step /\ r.student \in Enrolled'
    BY <1>1, <1>12, Locals DEF EnrolmentReqs
  <2>2. req' = [req EXCEPT ![w] = r] /\ UNCHANGED failures
    BY <1>12 DEF GotoRow, Continue, Goto
  <2> QED BY <1>4, <2>1, <2>2 DEF ImportSteps
<1>13. ASSUME NEW w \in Workers, FindParent(w) PROVE ReqsOK /\ RestOK
  <2>1. LinksRow(w)
    BY <1>13 DEF FindParent, LinksRow, Linking, At
  <2>2. ReqsOK /\ UNCHANGED failures
    BY <1>12, <1>13, <2>1 DEF FindParent, ImportSteps
  <2> QED BY <1>0, <1>13, <2>2 DEF FindParent, enrolmentVars
<1>14. ASSUME NEW w \in Workers, CreateAccount(w) PROVE ReqsOK /\ RestOK
  <2>1. LinksRow(w) /\ Phone[req[w].row] \in Families
    BY <1>14, Locals DEF CreateAccount, LinksRow, Linking, At
  <2>2. CASE Phone[req[w].row] \in users
    BY <1>0, <1>5, <1>14, <2>2 DEF CreateAccount, Reject, Fail, Goto
  <2>3. CASE Phone[req[w].row] \notin users
    <3>1. ReqsOK /\ UNCHANGED failures
      BY <1>12, <1>14, <2>1, <2>3 DEF CreateAccount, ImportSteps
    <3> QED BY <1>0, <1>14, <2>1, <2>3, <3>1 DEF CreateAccount
  <2> QED BY <2>2, <2>3
<1>15. ASSUME NEW w \in Workers, LinkRow(w) PROVE ReqsOK /\ RestOK
  <2>1. LinksRow(w)
    BY <1>15 DEF LinkRow, LinksRow, Linking, At
  <2>2. CASE Phone[req[w].row] \in students[req[w].student].parents
    BY <1>0, <1>5, <1>15, <2>2 DEF LinkRow, Reject, Fail, Goto
  <2>3. CASE Phone[req[w].row] \notin students[req[w].student].parents
    <3>1. ReqsOK /\ UNCHANGED failures
      BY <1>12, <1>15, <2>1, <2>3 DEF LinkRow, ImportSteps
    <3> QED BY <1>0, <1>15, <2>3, <3>1 DEF LinkRow
  <2> QED BY <2>2, <2>3
<1>16. ASSUME NEW w \in Workers, RowDone(w) PROVE ReqsOK /\ RestOK
  <2>1. CASE req[w].row < Rows
    <3> DEFINE r == [at |-> "count", row |-> req[w].row + 1]
    <3>1. r \in EnrolmentReqs /\ r.at = "count"
      BY <1>16, <2>1, Locals DEF RowDone, EnrolmentReqs
    <3>2. req' = [req EXCEPT ![w] = r] /\ RestOK
      BY <1>0, <1>16, <2>1 DEF RowDone, Continue, Goto
    <3> HIDE DEF r
    <3> QED BY <1>4, <3>1, <3>2 DEF Linking
  <2>2. CASE ~(req[w].row < Rows)
    BY <1>0, <1>5, <1>16, <2>2 DEF RowDone, Succeed, Goto
  <2> QED BY <2>1, <2>2
<1>17. ASSUME NEW w \in Workers, NEW u \in Families, NEW n \in Serials, Link(w, u, n)
       PROVE  ReqsOK /\ RestOK
  <2> DEFINE r == [at |-> "link", parent |-> u, student |-> n]
  <2>1. r \in EnrolmentReqs /\ r.at = "link" /\ r.student \in Enrolled'
    BY <1>1, <1>17 DEF Link, EnrolmentReqs
  <2>2. req' = [req EXCEPT ![w] = r] /\ RestOK
    BY <1>0, <1>17 DEF Link, Continue, Goto, enrolmentVars
  <2> HIDE DEF r
  <2> QED BY <1>4, <2>1, <2>2
<1>18. ASSUME NEW w \in Workers, LinkWrite(w) PROVE ReqsOK /\ RestOK
  BY <1>0, <1>5, <1>18 DEF LinkWrite, Succeed, Goto
<1>19. ASSUME NEW w \in Workers, DeleteStops(w) PROVE ReqsOK /\ RestOK
  <2>1. [at |-> "create-stops"] \in EnrolmentReqs
    BY DEF EnrolmentReqs
  <2>2. req' = [req EXCEPT ![w] = [at |-> "create-stops"]] /\ RestOK
    BY <1>0, <1>19 DEF DeleteStops, Continue, Goto
  <2> QED BY <1>4, <2>1, <2>2 DEF Linking
<1>20. ASSUME NEW w \in Workers, CreateStops(w) PROVE ReqsOK /\ RestOK
  <2>1. ReqsOK
    BY <1>5, <1>20 DEF CreateStops, Succeed, Goto
  <2>2. RestOK
    BY <1>0, <1>20 DEF CreateStops, Succeed
  <2> QED BY <2>1, <2>2
<1>21. ASSUME NEW w \in Workers, Crash(w), awaited' = awaited \ {w}, UNCHANGED <<users, students, sheet, lists>>
       PROVE  ReqsOK /\ RestOK
  <2>1. ReqsOK
    BY <1>5, <1>21 DEF Crash, Fail, Goto
  <2>2. RestOK
    BY <1>0, <1>21 DEF Crash, Fail
  <2> QED BY <2>1, <2>2
<1>22. ASSUME PickFile \/ LoseAnswer \/ (\E u \in Families : SignUp(u)) \/ UNCHANGED eVars
       PROVE  ReqsOK /\ RestOK
  BY <1>0, <1>3, <1>22 DEF PickFile, LoseAnswer, SignUp, eVars, enrolmentVars
<1>23. ReqsOK /\ RestOK
  BY <1>7, <1>8, <1>9, <1>10, <1>11, <1>13, <1>14, <1>15, <1>16, <1>17, <1>18, <1>19, <1>20,
     <1>21, <1>22 DEF EnrolmentNext, EnrolmentStep
<1> QED BY <1>23, StudentsEffect DEF EnrolmentCore, EnrolmentTypeOK

-----------------------------------------------------------------------------
\* A step of a request leaves the others alone.
LEMMA OneMoves ==
  ASSUME EnrolmentCore, NEW w \in Workers, EnrolmentStep(w)
  PROVE  \A v \in Workers \ {w} : req'[v] = req[v]
<1>0. req \in [Workers -> EnrolmentReqs]
  BY DEF EnrolmentCore, EnrolmentTypeOK
<1>1. ASSUME NEW r, Goto(w, r) PROVE \A v \in Workers \ {w} : req'[v] = req[v]
  BY <1>0, <1>1 DEF Goto
<1>2. \E r : Goto(w, r)
  BY DEF EnrolmentStep, Enrol, EnrolCreate, Confirm, CountStudents, ImportStudent, CreateStudent,
       FindParent, CreateAccount, LinkRow, RowDone, Link, LinkWrite, DeleteStops, CreateStops,
       Crash, GotoRow, Reject, Fail, Continue, Succeed
<1> QED BY <1>1, <1>2

\* A replacement puts one list back or is counted as a failure.
LEMMA StopsWholeStep ==
  ASSUME EnrolmentCore, StopsWhole, [EnrolmentNext]_eVars
  PROVE  StopsWhole'
<1>0. /\ req \in [Workers -> EnrolmentReqs] /\ lists \in Nat /\ failures \in Nat
      /\ IsFiniteSet(Replacing) /\ Cardinality(Replacing) \in Nat
      /\ Cardinality(Workers) \in Nat \ {0}
  BY WorkersFinite DEF EnrolmentCore, EnrolmentTypeOK, Replacing
<1>1. ASSUME NEW w \in Workers, EnrolmentStep(w), UNCHANGED lists,
             ~At(w, "create-stops"), ~At(w, "create-stops")',
             failures' = failures \/ failures' = failures + 1
      PROVE  StopsWhole'
  <2>1. Replacing' = Replacing
    BY <1>1, OneMoves DEF Replacing, At
  <2> QED BY <1>0, <1>1, <2>1 DEF StopsWhole
<1>2. ASSUME UNCHANGED <<req, lists>>, failures' = failures \/ failures' = failures + 1
      PROVE  StopsWhole'
  BY <1>0, <1>2 DEF StopsWhole, Replacing, At
<1>3. ASSUME NEW w \in Workers, At(w, "create-stops"), req' = [req EXCEPT ![w] = Idle]
      PROVE  /\ Cardinality(Replacing') = Cardinality(Replacing) - 1
             /\ Cardinality(Replacing) > 0
  <2>1. w \in Replacing /\ Replacing' = Replacing \ {w}
    BY <1>0, <1>3 DEF Replacing, At, Idle
  <2>2. Cardinality(Replacing') = Cardinality(Replacing) - 1 /\ Cardinality(Replacing) # 0
    BY <1>0, <2>1, FS_RemoveElement, FS_EmptySet
  <2> QED BY <1>0, <2>2
<1>4. ASSUME NEW w \in Workers, CreateStops(w) PROVE StopsWhole'
  <2>1. /\ At(w, "create-stops") /\ req' = [req EXCEPT ![w] = Idle]
        /\ lists' = lists + 1
    BY <1>4 DEF CreateStops, Succeed, Goto
  <2>2. Cardinality(Replacing') = Cardinality(Replacing) - 1
    BY <1>3, <2>1
  <2> QED BY <1>0, <2>1, <2>2 DEF StopsWhole
<1>5. ASSUME NEW w \in Workers, DeleteStops(w) PROVE StopsWhole'
  <2>1. w \in Replacing' /\ lists' = 0
    BY <1>0, <1>5 DEF DeleteStops, Continue, Goto, Replacing, At
  <2>2. /\ Cardinality(Replacing') \in Nat
        /\ Cardinality(Replacing') <= Cardinality(Workers)
    BY WorkersFinite DEF Replacing
  <2> QED BY <1>0, <2>1, <2>2 DEF StopsWhole
<1>6. ASSUME NEW w \in Workers, Crash(w), awaited' = awaited \ {w},
             UNCHANGED <<users, students, sheet, lists>>
      PROVE  StopsWhole'
  <2>1. /\ req' = [req EXCEPT ![w] = Idle] /\ failures' = failures + 1 /\ Idle.at # "create-stops"
    BY <1>6 DEF Crash, Fail, Goto, Idle
  <2>2. CASE At(w, "create-stops")
    <3>1. Cardinality(Replacing') = Cardinality(Replacing) - 1
      BY <1>3, <2>1, <2>2
    <3>2. failures' > 0 /\ lists' = lists
      BY <1>0, <1>6, <2>1
    <3> QED BY <1>0, <3>1, <3>2 DEF StopsWhole
  <2>3. CASE ~At(w, "create-stops")
    BY <1>0, <1>1, <1>6, <2>1, <2>3 DEF At, EnrolmentStep
  <2> QED BY <2>2, <2>3
<1>7. ASSUME NEW w \in Workers, EnrolmentStep(w), ~DeleteStops(w), ~CreateStops(w),
             ~(Crash(w) /\ awaited' = awaited \ {w} /\ UNCHANGED <<users, students, sheet, lists>>)
      PROVE  StopsWhole'
  <2> SUFFICES /\ ~At(w, "create-stops") /\ ~At(w, "create-stops")' /\ UNCHANGED lists
               /\ failures' = failures \/ failures' = failures + 1
    BY <1>1, <1>7
  <2>1. CASE Enrol(w) \/ Confirm(w) \/ CountStudents(w) \/ \E u \in Families, n \in Serials : Link(w, u, n)
    BY <1>0, <2>1 DEF Enrol, Confirm, CountStudents, Link, Continue, Goto, enrolmentVars, Free, Idle, At
  <2>2. CASE EnrolCreate(w)
    BY <1>0, <2>2 DEF EnrolCreate, CreateStudent, Reject, Fail, Continue, Goto, Idle, At
  <2>3. CASE ImportStudent(w)
    BY <1>0, <2>3 DEF ImportStudent, CreateStudent, Reject, Fail, Continue, Goto, Idle, At
  <2>4. CASE FindParent(w)
    BY <1>0, <2>4 DEF FindParent, GotoRow, Continue, Goto, enrolmentVars, At
  <2>5. CASE CreateAccount(w)
    BY <1>0, <2>5 DEF CreateAccount, GotoRow, Reject, Fail, Continue, Goto, Idle, At
  <2>6. CASE LinkRow(w)
    BY <1>0, <2>6 DEF LinkRow, GotoRow, Reject, Fail, Continue, Goto, Idle, At
  <2>7. CASE RowDone(w)
    BY <1>0, <2>7 DEF RowDone, Succeed, Continue, Goto, Idle, At
  <2>8. CASE LinkWrite(w)
    BY <1>0, <2>8 DEF LinkWrite, Succeed, Goto, Idle, At
  <2> QED BY <1>7, <2>1, <2>2, <2>3, <2>4, <2>5, <2>6, <2>7, <2>8 DEF EnrolmentStep
<1>8. ASSUME PickFile \/ LoseAnswer \/ (\E u \in Families : SignUp(u)) \/ UNCHANGED eVars
       PROVE  StopsWhole'
  BY <1>2, <1>8 DEF PickFile, LoseAnswer, SignUp, eVars, enrolmentVars
<1> QED BY <1>4, <1>5, <1>6, <1>7, <1>8 DEF EnrolmentNext

-----------------------------------------------------------------------------
(* Copies of a row: those in the table, those that requests under way may   *)
(* still insert, and the one that the button may start.                     *)

Copies(r) == {n \in Enrolled : students[n].row = r}

\* The imports that have not inserted row r yet.
AheadOf(w, r) ==
  \/ At(w, "count") /\ req[w].row <= r
  \/ At(w, "create") /\ req[w].row <= r
  \/ (LinksRow(w) \/ At(w, "row-done")) /\ req[w].row < r
Ahead(r) == {w \in Workers : AheadOf(w, r)}

Button == IF awaited = {} /\ sheet # "imported" THEN 1 ELSE 0

CopiesPromised ==
  \A r \in 1..Rows :
    Cardinality(Copies(r)) + Cardinality(Ahead(r)) + Button <= 1 + failures

\* The copies of a row change only when that row is inserted.
LEMMA CopiesStep ==
  ASSUME EnrolmentCore, [EnrolmentNext]_eVars, NEW r \in 1..Rows
  PROVE  /\ Copies(r) \subseteq Serials
         /\ Copies(r)' = Copies(r) \/ \E n : Copies(r)' = Copies(r) \cup {n}
         /\ UNCHANGED students => Copies(r)' = Copies(r)
         /\ \A n \in Enrolled, u \in Families : AddParent(n, u) => Copies(r)' = Copies(r)
         /\ \A w \in Workers, row \in 0..Rows : Inserts(w, row) /\ row # r => Copies(r)' = Copies(r)
<1>0. students \in [Serials -> StudentRows \cup {NoStudent}] /\ Enrolled \subseteq Serials
  BY DEF EnrolmentCore, EnrolmentTypeOK, Enrolled
<1>1. UNCHANGED students => Copies(r)' = Copies(r)
  BY <1>0 DEF Copies, Enrolled
<1>2. ASSUME NEW n \in Enrolled, NEW u \in Families, AddParent(n, u)
      PROVE  Copies(r)' = Copies(r)
  <2>1. /\ Enrolled' = Enrolled /\ students'[n].row = students[n].row
        /\ \A m \in Serials \ {n} : students'[m] = students[m]
    BY <1>2, AddParentEffect
  <2> QED BY <1>0, <2>1 DEF Copies
<1>3. ASSUME NEW w \in Workers, NEW row \in 0..Rows, Inserts(w, row)
      PROVE  Copies(r)' = IF row = r THEN Copies(r) \cup {req[w].serial} ELSE Copies(r)
  <2> DEFINE n == req[w].serial
             s == [kind |-> "student", row |-> row, parents |-> {}]
  <2>1. Enrolled' = Enrolled \cup {n} /\ n \notin Enrolled
    BY <1>3, InsertedIsNext DEF Inserts
  <2>2. n \in Serials
    BY <2>1, EnrolledFinite DEF Enrolled
  <2>3. students'[n] = s /\ \A m \in Serials \ {n} : students'[m] = students[m]
    BY <1>0, <1>3, <2>2 DEF Inserts
  <2>4. students'[n].row = row
    BY <2>3
  <2> HIDE DEF n, s
  <2>5. Copies(r)' = IF row = r THEN Copies(r) \cup {n} ELSE Copies(r)
    BY <1>0, <2>1, <2>3, <2>4 DEF Copies
  <2> QED BY <2>5 DEF n
<1> QED BY <1>0, <1>1, <1>2, <1>3, StudentsStep DEF Copies

\* The sizes that CopiesPromised adds up.
LEMMA CopiesFinite ==
  ASSUME EnrolmentCore, [EnrolmentNext]_eVars, NEW r \in 1..Rows
  PROVE  /\ IsFiniteSet(Copies(r)) /\ IsFiniteSet(Ahead(r)) /\ IsFiniteSet(Ahead(r)')
         /\ Cardinality(Copies(r)) \in Nat /\ Cardinality(Copies(r)') \in Nat
         /\ Cardinality(Copies(r)') <= Cardinality(Copies(r)) + 1
         /\ Cardinality(Ahead(r)) \in Nat /\ Cardinality(Ahead(r)') \in Nat
         /\ Button \in {0, 1} /\ Button' \in {0, 1} /\ failures \in Nat
<1>1. IsFiniteSet(Copies(r)) /\ Cardinality(Copies(r)) \in Nat
  BY CopiesStep, EnrolledFinite
<1>2. /\ Cardinality(Copies(r)') \in Nat
      /\ Cardinality(Copies(r)') <= Cardinality(Copies(r)) + 1
  <2>1. CASE Copies(r)' = Copies(r)
    BY <1>1, <2>1
  <2>2. ASSUME NEW n, Copies(r)' = Copies(r) \cup {n}
        PROVE  /\ Cardinality(Copies(r)') \in Nat
               /\ Cardinality(Copies(r)') <= Cardinality(Copies(r)) + 1
    <3>1. Cardinality(Copies(r)') = IF n \in Copies(r) THEN Cardinality(Copies(r))
                                    ELSE Cardinality(Copies(r)) + 1
      BY <1>1, <2>2, FS_AddElement
    <3> QED BY <1>1, <3>1
  <2> QED BY <2>1, <2>2, CopiesStep
<1>3. Ahead(r) \subseteq Workers /\ Ahead(r)' \subseteq Workers
  BY DEF Ahead
<1> QED BY <1>1, <1>2, <1>3, WorkersFinite DEF Button, EnrolmentCore, EnrolmentTypeOK

\* The three ways in which the sum stays within its bound.
LEMMA PromiseKept ==
  ASSUME EnrolmentCore, [EnrolmentNext]_eVars, NEW r \in 1..Rows,
         Cardinality(Copies(r)) + Cardinality(Ahead(r)) + Button <= 1 + failures,
         \/ /\ Copies(r)' = Copies(r) /\ Ahead(r)' \subseteq Ahead(r)
            /\ \/ Button' <= Button /\ failures' = failures
               \/ failures' = failures + 1
         \/ /\ \E w \in Ahead(r) : Ahead(r)' = Ahead(r) \ {w}
            /\ Button' = Button /\ failures' = failures
         \/ /\ Copies(r)' = Copies(r)
            /\ \E w : Ahead(r)' = Ahead(r) \cup {w}
            /\ Button = 1 /\ Button' = 0 /\ failures' = failures
  PROVE  Cardinality(Copies(r)') + Cardinality(Ahead(r)') + Button' <= 1 + failures'
<1>0. /\ IsFiniteSet(Copies(r)) /\ IsFiniteSet(Ahead(r)) /\ IsFiniteSet(Ahead(r)')
      /\ Cardinality(Copies(r)) \in Nat /\ Cardinality(Copies(r)') \in Nat
      /\ Cardinality(Copies(r)') <= Cardinality(Copies(r)) + 1
      /\ Cardinality(Ahead(r)) \in Nat /\ Cardinality(Ahead(r)') \in Nat
      /\ Button \in {0, 1} /\ Button' \in {0, 1} /\ failures \in Nat
  BY CopiesFinite
<1>1. CASE /\ Copies(r)' = Copies(r) /\ Ahead(r)' \subseteq Ahead(r)
           /\ \/ Button' <= Button /\ failures' = failures
              \/ failures' = failures + 1
  <2>1. Cardinality(Ahead(r)') <= Cardinality(Ahead(r))
    BY <1>0, <1>1, FS_Subset
  <2> QED BY <1>0, <1>1, <2>1
<1>2. ASSUME NEW w \in Ahead(r), Ahead(r)' = Ahead(r) \ {w}, Button' = Button, failures' = failures
      PROVE  Cardinality(Copies(r)') + Cardinality(Ahead(r)') + Button' <= 1 + failures'
  <2>1. Cardinality(Ahead(r)') = Cardinality(Ahead(r)) - 1
    BY <1>0, <1>2, FS_RemoveElement
  <2> QED BY <1>0, <1>2, <2>1
<1>3. ASSUME Copies(r)' = Copies(r), NEW w, Ahead(r)' = Ahead(r) \cup {w},
             Button = 1, Button' = 0, failures' = failures
      PROVE  Cardinality(Copies(r)') + Cardinality(Ahead(r)') + Button' <= 1 + failures'
  <2>1. Cardinality(Ahead(r)') <= Cardinality(Ahead(r)) + 1
    BY <1>0, <1>3, FS_AddElement
  <2> QED BY <1>0, <1>3, <2>1
<1> QED BY <1>1, <1>2, <1>3

LEMMA CopiesPromisedStep ==
  ASSUME EnrolmentCore, CopiesPromised, [EnrolmentNext]_eVars
  PROVE  CopiesPromised'
<1> SUFFICES ASSUME NEW r \in 1..Rows
             PROVE  Cardinality(Copies(r)') + Cardinality(Ahead(r)') + Button' <= 1 + failures'
  BY DEF CopiesPromised
<1> DEFINE Quiet == /\ Copies(r)' = Copies(r) /\ Ahead(r)' \subseteq Ahead(r)
                    /\ \/ Button' <= Button /\ failures' = failures
                       \/ failures' = failures + 1
           Inserted == /\ \E w \in Ahead(r) : Ahead(r)' = Ahead(r) \ {w}
                       /\ Button' = Button /\ failures' = failures
           Begun == /\ Copies(r)' = Copies(r)
                    /\ \E w : Ahead(r)' = Ahead(r) \cup {w}
                    /\ Button = 1 /\ Button' = 0 /\ failures' = failures
<1>0. /\ req \in [Workers -> EnrolmentReqs] /\ Button \in {0, 1} /\ r \in Nat
  BY EnrolmentAssumption DEF EnrolmentCore, EnrolmentTypeOK, Button
<1>1. Cardinality(Copies(r)) + Cardinality(Ahead(r)) + Button <= 1 + failures
  BY DEF CopiesPromised
<1>2. UNCHANGED students => Copies(r)' = Copies(r)
  BY CopiesStep
<1>3. ASSUME NEW w \in Workers, EnrolmentStep(w), AheadOf(w, r)' => AheadOf(w, r)
      PROVE  Ahead(r)' \subseteq Ahead(r)
  BY <1>3, OneMoves DEF Ahead, AheadOf, At, LinksRow
<1>4. ASSUME NEW w \in Workers, EnrolmentStep(w), req'[w] = Idle
      PROVE  Ahead(r)' \subseteq Ahead(r)
  <2>1. ~AheadOf(w, r)'
    BY <1>4 DEF AheadOf, At, LinksRow, Linking, Idle
  <2> QED BY <1>3, <1>4, <2>1
<1>5. ASSUME NEW w \in Workers, EnrolmentStep(w), Reject(w), UNCHANGED students PROVE Quiet
  <2>1. req'[w] = Idle /\ failures' = failures + 1
    BY <1>0, <1>5 DEF Reject, Fail, Goto
  <2> QED BY <1>2, <1>4, <1>5, <2>1
<1>6. ASSUME NEW w \in Workers, EnrolCreate(w) PROVE Quiet
  <2>1. CASE req[w].serial \in Enrolled
    BY <1>5, <1>6, <2>1 DEF EnrolCreate, CreateStudent, EnrolmentStep
  <2>2. CASE req[w].serial \notin Enrolled
    <3>1. Inserts(w, 0) /\ 0 \in 0..Rows /\ 0 # r
      BY <1>6, <2>2, EnrolmentAssumption DEF EnrolCreate, CreateStudent, Inserts, Counted, At
    <3>2. Copies(r)' = Copies(r)
      BY <3>1, CopiesStep
    <3>3. req'[w] = Idle /\ UNCHANGED <<awaited, sheet, failures>>
      BY <1>0, <1>6, <2>2 DEF EnrolCreate, CreateStudent, Continue, Goto
    <3>4. Button' = Button
      BY <3>3 DEF Button
    <3> QED BY <1>0, <1>4, <1>6, <3>2, <3>3, <3>4 DEF EnrolmentStep
  <2> QED BY <2>1, <2>2
<1>7. ASSUME NEW w \in Workers, ImportStudent(w) PROVE Quiet \/ Inserted
  <2>1. CASE sheet = "stale" \/ req[w].serial \in Enrolled
    BY <1>5, <1>7, <2>1 DEF ImportStudent, CreateStudent, EnrolmentStep
  <2>2. CASE sheet # "stale" /\ req[w].serial \notin Enrolled
    <3>1. Inserts(w, req[w].row)
      BY <1>7, <2>2 DEF ImportStudent, CreateStudent, Inserts, Counted, At
    <3>2. req[w].row \in 1..Rows /\ req[w].row \in 0..Rows /\ req[w].row \in Nat
      BY <1>7, Locals, EnrolmentAssumption DEF ImportStudent
    <3>3. /\ req'[w] = [at |-> "find-parent", row |-> req[w].row, student |-> req[w].serial]
          /\ UNCHANGED <<awaited, sheet, failures>>
      BY <1>0, <1>7, <2>2 DEF ImportStudent, CreateStudent, Continue, Goto
    <3>4. Button' = Button
      BY <3>3 DEF Button
    <3>5. /\ At(w, "create")
          /\ At(w, "find-parent")' /\ req'[w].row = req[w].row
      BY <1>7, <3>3 DEF ImportStudent, At
    <3>6. CASE req[w].row = r
      <4>1. AheadOf(w, r) /\ ~AheadOf(w, r)'
        BY <1>0, <3>2, <3>5, <3>6 DEF AheadOf, At, LinksRow, Linking
      <4>2. w \in Ahead(r) /\ Ahead(r)' = Ahead(r) \ {w}
        BY <1>7, <4>1, OneMoves DEF Ahead, AheadOf, At, LinksRow, EnrolmentStep
      <4> QED BY <3>3, <3>4, <4>2
    <3>7. CASE req[w].row # r
      <4>1. AheadOf(w, r)' => AheadOf(w, r)
        BY <1>0, <3>2, <3>5, <3>7 DEF AheadOf, At, LinksRow, Linking
      <4>2. Ahead(r)' \subseteq Ahead(r)
        BY <1>3, <1>7, <4>1 DEF EnrolmentStep
      <4>3. Copies(r)' = Copies(r)
        BY <3>1, <3>2, <3>7, CopiesStep
      <4> QED BY <1>0, <3>3, <3>4, <4>2, <4>3
    <3> QED BY <3>6, <3>7
  <2> QED BY <2>1, <2>2
<1>8. ASSUME NEW w \in Workers, Confirm(w) PROVE Begun
  <2>1. /\ req'[w] = [at |-> "count", row |-> 1] /\ Free(w)
        /\ awaited = {} /\ awaited' = {w} /\ sheet # "imported"
        /\ UNCHANGED <<students, failures>>
    BY <1>0, <1>8 DEF Confirm, Continue, Goto
  <2>2. Button = 1 /\ Button' = 0
    BY <2>1 DEF Button
  <2>3. AheadOf(w, r)'
    BY <1>0, <2>1 DEF AheadOf, At
  <2>4. Ahead(r)' = Ahead(r) \cup {w}
    BY <1>8, <2>3, OneMoves DEF Ahead, AheadOf, At, LinksRow, EnrolmentStep
  <2> QED BY <1>2, <2>1, <2>2, <2>4
<1>9. ASSUME NEW w \in Workers, GotoRow(w, "row-done") \/ GotoRow(w, "link-row") \/ GotoRow(w, "create-parent"),
             LinksRow(w), EnrolmentStep(w), UNCHANGED <<awaited, sheet>>, Copies(r)' = Copies(r)
      PROVE  Quiet
  <2>1. /\ At(w, "row-done")' \/ LinksRow(w)'
        /\ ~At(w, "count")' /\ ~At(w, "create")' /\ req'[w].row = req[w].row
        /\ UNCHANGED failures
    BY <1>0, <1>9 DEF GotoRow, Continue, Goto, At, LinksRow, Linking
  <2>2. AheadOf(w, r)' => AheadOf(w, r)
    BY <1>9, <2>1 DEF AheadOf
  <2>3. Button' = Button
    BY <1>9 DEF Button
  <2> QED BY <1>0, <1>3, <1>9, <2>1, <2>2, <2>3
<1>10. ASSUME NEW w \in Workers, FindParent(w) PROVE Quiet
  <2>1. LinksRow(w)
    BY <1>10 DEF FindParent, At, LinksRow, Linking
  <2>2. GotoRow(w, "link-row") \/ GotoRow(w, "create-parent")
    BY <1>10 DEF FindParent
  <2> QED BY <1>2, <1>9, <1>10, <2>1, <2>2 DEF FindParent, EnrolmentStep, enrolmentVars
<1>11. ASSUME NEW w \in Workers, CreateAccount(w) PROVE Quiet
  <2>1. LinksRow(w) /\ UNCHANGED <<students, sheet>>
    BY <1>11 DEF CreateAccount, At, LinksRow, Linking
  <2>2. Reject(w) \/ (GotoRow(w, "link-row") /\ UNCHANGED awaited)
    BY <1>11 DEF CreateAccount
  <2> QED BY <1>2, <1>5, <1>9, <1>11, <2>1, <2>2 DEF EnrolmentStep
<1>12. ASSUME NEW w \in Workers, LinkRow(w) PROVE Quiet
  <2> DEFINE u == Phone[req[w].row]
             n == req[w].student
  <2>1. LinksRow(w) /\ UNCHANGED sheet
    BY <1>12 DEF LinkRow, At, LinksRow, Linking
  <2>2. n \in Enrolled /\ u \in Families
    BY <2>1, Locals, EnrolmentAssumption
  <2>3. \/ Reject(w) /\ UNCHANGED students
        \/ AddParent(n, u) /\ GotoRow(w, "row-done") /\ UNCHANGED awaited
    BY <1>12 DEF LinkRow
  <2>4. AddParent(n, u) => Copies(r)' = Copies(r)
    BY <2>2, CopiesStep
  <2> HIDE DEF n, u
  <2> QED BY <1>5, <1>9, <1>12, <2>1, <2>3, <2>4 DEF EnrolmentStep
<1>13. ASSUME NEW w \in Workers, RowDone(w) PROVE Quiet
  <2>1. /\ At(w, "row-done") /\ UNCHANGED <<students, failures>> /\ EnrolmentStep(w)
        /\ req[w].row \in Nat
    BY <1>13, Locals, EnrolmentAssumption DEF RowDone, Continue, Succeed, EnrolmentStep
  <2>2. CASE req[w].row < Rows
    <3>1. /\ req'[w] = [at |-> "count", row |-> req[w].row + 1]
          /\ UNCHANGED <<awaited, sheet>>
      BY <1>0, <1>13, <2>2 DEF RowDone, Continue, Goto
    <3>2. AheadOf(w, r)' => AheadOf(w, r)
      BY <1>0, <2>1, <3>1 DEF AheadOf, At, LinksRow, Linking
    <3>3. Button' = Button
      BY <3>1 DEF Button
    <3> QED BY <1>0, <1>2, <1>3, <2>1, <3>2, <3>3
  <2>3. CASE ~(req[w].row < Rows)
    <3>1. req'[w] = Idle
      BY <1>0, <1>13, <2>3 DEF RowDone, Succeed, Goto
    <3>2. Button' <= Button
      <4>1. CASE w \in awaited
        <5>1. sheet' = "imported"
          BY <1>13, <2>3, <4>1 DEF RowDone
        <5> QED BY <1>0, <5>1 DEF Button
      <4>2. CASE w \notin awaited
        <5>1. UNCHANGED <<sheet, awaited>>
          BY <1>13, <2>3, <4>2 DEF RowDone
        <5> QED BY <1>0, <5>1 DEF Button
      <4> QED BY <4>1, <4>2
    <3> QED BY <1>2, <1>4, <2>1, <3>1, <3>2
  <2> QED BY <2>2, <2>3
<1>14. ASSUME NEW w \in Workers, CountStudents(w) PROVE Quiet
  <2>1. /\ req'[w] = [at |-> "create", row |-> req[w].row, serial |-> NextSerial]
        /\ At(w, "count") /\ UNCHANGED <<students, awaited, sheet, failures>> /\ EnrolmentStep(w)
    BY <1>0, <1>14 DEF CountStudents, Continue, Goto, enrolmentVars, EnrolmentStep
  <2>2. AheadOf(w, r)' => AheadOf(w, r)
    BY <2>1 DEF AheadOf, At, LinksRow, Linking
  <2>3. Button' = Button
    BY <2>1 DEF Button
  <2> QED BY <1>0, <1>2, <1>3, <2>1, <2>2, <2>3
<1>15. ASSUME NEW w \in Workers, LinkWrite(w) PROVE Quiet
  <2> DEFINE u == req[w].parent
             n == req[w].student
  <2>1. n \in Enrolled /\ u \in Families
    BY <1>15, Locals DEF LinkWrite
  <2>2. AddParent(n, u) /\ req'[w] = Idle /\ UNCHANGED <<sheet, awaited, failures>>
    BY <1>0, <1>15 DEF LinkWrite, Succeed, Goto
  <2>3. Copies(r)' = Copies(r)
    BY <2>1, <2>2, CopiesStep
  <2>4. Button' = Button
    BY <2>2 DEF Button
  <2> QED BY <1>0, <1>4, <1>15, <2>2, <2>3, <2>4 DEF EnrolmentStep
<1>16. ASSUME NEW w \in Workers, Enrol(w) \/ (\E u \in Families, n \in Serials : Link(w, u, n))
       PROVE  Quiet
  <2>1. /\ req'[w].at \in {"enrol", "link"}
        /\ UNCHANGED <<students, awaited, sheet, failures>> /\ EnrolmentStep(w)
    BY <1>0, <1>16 DEF Enrol, Link, Continue, Goto, enrolmentVars, EnrolmentStep
  <2>2. ~AheadOf(w, r)'
    BY <2>1 DEF AheadOf, At, LinksRow, Linking
  <2>3. Button' = Button
    BY <2>1 DEF Button
  <2> QED BY <1>0, <1>2, <1>3, <2>1, <2>2, <2>3
<1>17. ASSUME NEW w \in Workers, DeleteStops(w) \/ CreateStops(w) PROVE Quiet
  <2>1. /\ req'[w].at \in {"create-stops", "idle"} /\ UNCHANGED <<students, awaited, failures>>
        /\ EnrolmentStep(w) /\ (sheet' = "imported" <=> sheet = "imported")
    BY <1>0, <1>17 DEF DeleteStops, CreateStops, Continue, Succeed, Goto, Idle, EnrolmentStep
  <2>2. ~AheadOf(w, r)'
    BY <2>1 DEF AheadOf, At, LinksRow, Linking
  <2>3. Button' = Button
    BY <2>1 DEF Button
  <2> QED BY <1>0, <1>2, <1>3, <2>1, <2>2, <2>3
<1>18. ASSUME NEW w \in Workers, Crash(w), awaited' = awaited \ {w}, UNCHANGED <<users, students, sheet, lists>>
       PROVE  Quiet
  <2>1. Reject(w) /\ EnrolmentStep(w)
    BY <1>18 DEF Crash, Reject, EnrolmentStep
  <2> QED BY <1>5, <1>18, <2>1
<1>19. ASSUME UNCHANGED <<req, students>>, (Button' <= Button /\ failures' = failures) \/ failures' = failures + 1
       PROVE  Quiet
  BY <1>2, <1>19 DEF Ahead, AheadOf, At, LinksRow
<1>20. ASSUME PickFile \/ LoseAnswer \/ (\E u \in Families : SignUp(u)) \/ UNCHANGED eVars
       PROVE  Quiet
  <2>1. CASE LoseAnswer
    BY <1>19, <2>1 DEF LoseAnswer
  <2>2. CASE PickFile \/ (\E u \in Families : SignUp(u)) \/ UNCHANGED eVars
    <3>1. /\ UNCHANGED <<req, students, awaited, failures>>
          /\ sheet' = "imported" <=> sheet = "imported"
      BY <2>2 DEF PickFile, SignUp, eVars, enrolmentVars
    <3>2. Button' = Button
      BY <3>1 DEF Button
    <3> QED BY <1>0, <1>19, <3>1, <3>2
  <2> QED BY <1>20, <2>1, <2>2
<1>21. Quiet \/ Inserted \/ Begun
  BY <1>6, <1>7, <1>8, <1>10, <1>11, <1>12, <1>13, <1>14, <1>15, <1>16, <1>17, <1>18, <1>20
    DEF EnrolmentNext, EnrolmentStep
<1> QED BY <1>1, <1>21, PromiseKept

-----------------------------------------------------------------------------
(* What a step of a request does to the links between students and parents. *)

\* The request is going to add parent u to student n.
AddsFor(w, n, u) ==
  \/ At(w, "link") /\ req[w].student = n /\ req[w].parent = u
  \/ LinksRow(w) /\ req[w].student = n /\ Phone[req[w].row] = u
Adds(w) == LinksRow(w) \/ At(w, "link")

Aside(w) ==
  UNCHANGED students /\ ~LinksRow(w) /\ ~Adds(w)' /\ failures' \in {failures, failures + 1}
Onward(w) ==
  /\ UNCHANGED <<students, failures>> /\ LinksRow(w) /\ LinksRow(w)' /\ ~At(w, "link")'
  /\ req'[w].student = req[w].student /\ req'[w].row = req[w].row
Abandons(w) ==
  UNCHANGED students /\ LinksRow(w) /\ ~Adds(w)' /\ failures' = failures + 1
Linked(w) ==
  /\ req[w].student \in Enrolled
  /\ \E u \in Families : AddsFor(w, req[w].student, u) /\ AddParent(req[w].student, u)
  /\ ~Adds(w)' /\ UNCHANGED failures
Inserted(w) ==
  /\ UNCHANGED failures /\ ~Adds(w)
  /\ \/ Inserts(w, 0) /\ ~Adds(w)'
     \/ /\ \E row \in 1..Rows : Inserts(w, row)
        /\ LinksRow(w)' /\ ~At(w, "link")' /\ req'[w].student = req[w].serial
Applies(w) ==
  \E u \in Families, n \in Serials :
    /\ UNCHANGED <<students, failures>> /\ ~Adds(w) /\ ~LinksRow(w)'
    /\ students[n].parents = {} \/ u \in students[n].parents
    /\ At(w, "link")' /\ req'[w].student = n /\ req'[w].parent = u

LEMMA LinkingStep ==
  ASSUME EnrolmentCore, NEW w \in Workers, EnrolmentStep(w)
  PROVE  Aside(w) \/ Onward(w) \/ Abandons(w) \/ Linked(w) \/ Inserted(w) \/ Applies(w)
<1> DEFINE Goal == Aside(w) \/ Onward(w) \/ Abandons(w) \/ Linked(w) \/ Inserted(w) \/ Applies(w)
<1>0. req \in [Workers -> EnrolmentReqs]
  BY DEF EnrolmentCore, EnrolmentTypeOK
<1>1. ASSUME Reject(w), UNCHANGED students PROVE Goal
  <2>1. req'[w] = Idle /\ failures' = failures + 1
    BY <1>0, <1>1 DEF Reject, Fail, Goto
  <2> QED BY <1>1, <2>1 DEF Aside, Abandons, Adds, LinksRow, Linking, At, Idle
<1>2. ASSUME NEW step \in Linking, GotoRow(w, step), LinksRow(w), UNCHANGED students PROVE Goal
  <2>1. /\ req'[w] = [at |-> step, row |-> req[w].row, student |-> req[w].student]
        /\ UNCHANGED failures
    BY <1>0, <1>2 DEF GotoRow, Continue, Goto
  <2> QED BY <1>2, <2>1 DEF Onward, LinksRow, Linking, At
<1>3. CASE Enrol(w) \/ Confirm(w) \/ CountStudents(w) \/ DeleteStops(w)
  BY <1>0, <1>3 DEF Enrol, Confirm, CountStudents, DeleteStops, Continue, Goto, enrolmentVars,
       Aside, Adds, LinksRow, Linking, At, Free, Idle
<1>4. CASE RowDone(w) \/ CreateStops(w)
  BY <1>0, <1>4 DEF RowDone, CreateStops, Succeed, Continue, Goto, Aside, Adds, LinksRow,
       Linking, At, Idle
<1>5. CASE EnrolCreate(w)
  <2>1. CASE req[w].serial \in Enrolled
    BY <1>1, <1>5, <2>1 DEF EnrolCreate, CreateStudent
  <2>2. CASE req[w].serial \notin Enrolled
    BY <1>0, <1>5, <2>2 DEF EnrolCreate, CreateStudent, Continue, Goto, Inserted, Inserts, Counted,
         Adds, LinksRow, Linking, At, Idle
  <2> QED BY <2>1, <2>2
<1>6. CASE ImportStudent(w)
  <2>1. CASE sheet = "stale" \/ req[w].serial \in Enrolled
    BY <1>1, <1>6, <2>1 DEF ImportStudent, CreateStudent
  <2>2. CASE sheet # "stale" /\ req[w].serial \notin Enrolled
    <3>1. req[w].row \in 1..Rows
      BY <1>6, Locals DEF ImportStudent
    <3>2. Inserts(w, req[w].row) /\ UNCHANGED failures /\ ~Adds(w)
      BY <1>6, <2>2 DEF ImportStudent, CreateStudent, Continue, Inserts, Counted, Adds, LinksRow,
           Linking, At
    <3>3. LinksRow(w)' /\ ~At(w, "link")' /\ req'[w].student = req[w].serial
      BY <1>0, <1>6, <2>2 DEF ImportStudent, CreateStudent, Continue, Goto, LinksRow, Linking, At
    <3> QED BY <3>1, <3>2, <3>3 DEF Inserted
  <2> QED BY <2>1, <2>2
<1>7. CASE FindParent(w)
  <2>1. LinksRow(w) /\ UNCHANGED students
    BY <1>7 DEF FindParent, LinksRow, Linking, At, enrolmentVars
  <2> QED BY <1>2, <1>7, <2>1 DEF FindParent, Linking
<1>8. CASE CreateAccount(w)
  <2>1. LinksRow(w) /\ UNCHANGED students /\ (Reject(w) \/ GotoRow(w, "link-row"))
    BY <1>8 DEF CreateAccount, LinksRow, Linking, At
  <2> QED BY <1>1, <1>2, <2>1 DEF Linking
<1>9. CASE LinkRow(w)
  <2>1. /\ LinksRow(w) /\ req[w].student \in Enrolled /\ Phone[req[w].row] \in Families
    BY <1>9, Locals, EnrolmentAssumption DEF LinkRow, LinksRow, Linking, At
  <2>2. \/ Reject(w) /\ UNCHANGED students
        \/ AddParent(req[w].student, Phone[req[w].row]) /\ GotoRow(w, "row-done")
    BY <1>9 DEF LinkRow
  <2>3. CASE AddParent(req[w].student, Phone[req[w].row]) /\ GotoRow(w, "row-done")
    <3>1. At(w, "row-done")' /\ UNCHANGED failures
      BY <1>0, <2>3 DEF GotoRow, Continue, Goto, At
    <3>2. ~Adds(w)'
      BY <3>1 DEF Adds, LinksRow, Linking, At
    <3>3. AddsFor(w, req[w].student, Phone[req[w].row])
      BY <2>1 DEF AddsFor
    <3> QED BY <2>1, <2>3, <3>1, <3>2, <3>3 DEF Linked
  <2> QED BY <1>1, <2>2, <2>3
<1>10. CASE LinkWrite(w)
  <2>1. req[w].student \in Enrolled /\ req[w].parent \in Families
    BY <1>10, Locals DEF LinkWrite
  <2>2. ~Adds(w)' /\ UNCHANGED failures /\ AddsFor(w, req[w].student, req[w].parent)
    BY <1>0, <1>10 DEF LinkWrite, Succeed, Goto, Adds, AddsFor, LinksRow, Linking, At, Idle
  <2> QED BY <1>10, <2>1, <2>2 DEF LinkWrite, Linked
<1>11. ASSUME NEW u \in Families, NEW n \in Serials, Link(w, u, n) PROVE Goal
  <2>1. req'[w] = [at |-> "link", parent |-> u, student |-> n]
    BY <1>0, <1>11 DEF Link, Continue, Goto
  <2>2. UNCHANGED <<students, failures>> /\ ~Adds(w) /\ ~LinksRow(w)' /\ At(w, "link")'
    BY <1>11, <2>1 DEF Link, Continue, enrolmentVars, Adds, LinksRow, Linking, At, Free, Idle
  <2>3. students[n].parents = {} \/ u \in students[n].parents
    BY <1>11 DEF Link
  <2> QED BY <2>1, <2>2, <2>3 DEF Applies
<1>12. CASE Crash(w) /\ awaited' = awaited \ {w} /\ UNCHANGED <<users, students, sheet, lists>>
  BY <1>1, <1>12 DEF Crash, Reject
<1> QED BY <1>3, <1>4, <1>5, <1>6, <1>7, <1>8, <1>9, <1>10, <1>11, <1>12 DEF EnrolmentStep

\* The steps that no request takes.
LEMMA OtherSteps ==
  ASSUME EnrolmentCore, [EnrolmentNext]_eVars, \A w \in Workers : ~EnrolmentStep(w)
  PROVE  UNCHANGED <<req, students>> /\ failures' \in {failures, failures + 1}
  BY DEF EnrolmentNext, PickFile, LoseAnswer, SignUp, eVars, enrolmentVars

-----------------------------------------------------------------------------
(* Students without a parent.                                               *)

Stranded == {n \in Enrolled : /\ students[n].row # 0
                              /\ students[n].parents = {}
                              /\ n \notin InProgress}

\* Only a request that abandons a student strands one.
LEMMA StrandedBoundedStep ==
  ASSUME EnrolmentCore, StrandedBounded, [EnrolmentNext]_eVars
  PROVE  StrandedBounded'
<1> SUFFICES Cardinality(Stranded') <= failures'
  BY DEF StrandedBounded, Stranded
<1>0. /\ students \in [Serials -> StudentRows \cup {NoStudent}] /\ failures \in Nat
      /\ Enrolled \subseteq Serials /\ IsFiniteSet(Stranded) /\ Cardinality(Stranded) \in Nat
      /\ Cardinality(Stranded) <= failures
  BY EnrolledFinite
    DEF EnrolmentCore, EnrolmentTypeOK, Enrolled, Stranded, StrandedBounded
<1>1. InProgress = {req[w].student : w \in {v \in Workers : LinksRow(v)}}
  BY DEF InProgress, LinksRow, Linking
<1>2. InProgress' = {req'[w].student : w \in {v \in Workers : LinksRow(v)'}}
  BY DEF InProgress, LinksRow, Linking
<1>3. ASSUME Stranded' \subseteq Stranded, failures' \in {failures, failures + 1}
      PROVE  Cardinality(Stranded') <= failures'
  <2>1. Cardinality(Stranded') <= Cardinality(Stranded) /\ Cardinality(Stranded') \in Nat
    BY <1>0, <1>3, FS_Subset, FS_CardinalityType
  <2> QED BY <1>0, <1>3, <2>1
<1>4. ASSUME NEW m, Stranded' \subseteq Stranded \cup {m}, failures' = failures + 1
      PROVE  Cardinality(Stranded') <= failures'
  <2>1. /\ IsFiniteSet(Stranded \cup {m})
        /\ Cardinality(Stranded \cup {m}) <= Cardinality(Stranded) + 1
        /\ Cardinality(Stranded \cup {m}) \in Nat
    <3>1. /\ IsFiniteSet(Stranded \cup {m})
          /\ Cardinality(Stranded \cup {m}) =
               IF m \in Stranded THEN Cardinality(Stranded) ELSE Cardinality(Stranded) + 1
      BY <1>0, FS_AddElement
    <3> QED BY <1>0, <3>1
  <2>2. Cardinality(Stranded') <= Cardinality(Stranded \cup {m}) /\ Cardinality(Stranded') \in Nat
    BY <1>4, <2>1, FS_Subset, FS_CardinalityType
  <2> QED BY <1>0, <1>4, <2>1, <2>2
<1>5. CASE \A w \in Workers : ~EnrolmentStep(w)
  <2>1. Stranded' = Stranded
    BY <1>5, OtherSteps DEF Stranded, InProgress, Enrolled
  <2> QED BY <1>3, <1>5, <2>1, OtherSteps
<1>6. ASSUME NEW w \in Workers, EnrolmentStep(w) PROVE Cardinality(Stranded') <= failures'
  <2>0. \A v \in Workers \ {w} : req'[v] = req[v]
    BY <1>6, OneMoves
  <2>1. ASSUME NEW n \in InProgress, n \notin InProgress' PROVE LinksRow(w) /\ n = req[w].student
    BY <1>1, <1>2, <2>0, <2>1 DEF LinksRow
  <2>2. LinksRow(w)' => req'[w].student \in InProgress'
    BY <1>2
  <2>3. CASE Aside(w)
    <3>1. InProgress \subseteq InProgress' /\ UNCHANGED students
      BY <2>1, <2>3 DEF Aside
    <3> QED BY <1>3, <2>3, <3>1 DEF Aside, Stranded, Enrolled
  <2>4. CASE Onward(w)
    <3>1. InProgress \subseteq InProgress' /\ UNCHANGED students
      BY <2>1, <2>2, <2>4 DEF Onward
    <3> QED BY <1>3, <2>4, <3>1 DEF Onward, Stranded, Enrolled
  <2>5. CASE Abandons(w)
    <3>1. Stranded' \subseteq Stranded \cup {req[w].student}
      BY <2>1, <2>5 DEF Abandons, Stranded, Enrolled
    <3> QED BY <1>4, <2>5, <3>1 DEF Abandons
  <2>6. CASE Linked(w)
    <3> DEFINE n == req[w].student
    <3>1. PICK u \in Families : AddParent(n, u)
      BY <2>6 DEF Linked
    <3>2. n \in Enrolled /\ UNCHANGED failures
      BY <2>6 DEF Linked
    <3>3. /\ Enrolled' = Enrolled /\ students'[n].parents # {}
          /\ \A m \in Serials \ {n} : students'[m] = students[m]
      BY <3>1, <3>2, AddParentEffect
    <3>4. Stranded' \subseteq Stranded
      BY <1>0, <2>1, <3>3 DEF Stranded
    <3> QED BY <1>3, <3>2, <3>4
  <2>7. CASE Inserted(w)
    <3> DEFINE n == req[w].serial
    <3>1. InProgress \subseteq InProgress'
      BY <2>1, <2>7 DEF Inserted, Adds
    <3>2. ASSUME NEW row \in 0..Rows, Inserts(w, row), row = 0 \/ n \in InProgress'
          PROVE  Stranded' \subseteq Stranded
      <4>1. /\ Counted(w) /\ n \notin Enrolled
            /\ students' = [students EXCEPT ![n] =
                              [kind |-> "student", row |-> row, parents |-> {}]]
        BY <3>2 DEF Inserts
      <4>2. n \in Serials /\ Enrolled' = Enrolled \cup {n}
        BY <4>1, InsertedIsNext, Locals DEF Counted, At
      <4>3. /\ students'[n] = [kind |-> "student", row |-> row, parents |-> {}]
            /\ \A m \in Serials \ {n} : students'[m] = students[m]
        BY <1>0, <4>1, <4>2
      <4>4. students'[n].row = row
        BY <4>3
      <4> HIDE DEF n
      <4> QED BY <1>0, <3>1, <3>2, <4>1, <4>2, <4>3, <4>4 DEF Stranded
    <3>3. 0 \in 0..Rows /\ \A row \in 1..Rows : row \in 0..Rows
      BY EnrolmentAssumption
    <3>4. \/ Inserts(w, 0)
          \/ (\E row \in 1..Rows : Inserts(w, row)) /\ n \in InProgress'
      BY <2>2, <2>7 DEF Inserted
    <3>5. Stranded' \subseteq Stranded
      BY <3>2, <3>3, <3>4
    <3> QED BY <1>3, <2>7, <3>5 DEF Inserted
  <2>8. CASE Applies(w)
    <3>1. InProgress \subseteq InProgress' /\ UNCHANGED <<students, failures>>
      BY <2>1, <2>8 DEF Applies, Adds
    <3> QED BY <1>3, <3>1 DEF Stranded, Enrolled
  <2> QED BY <1>6, <2>3, <2>4, <2>5, <2>6, <2>7, <2>8, LinkingStep
<1> QED BY <1>5, <1>6

-----------------------------------------------------------------------------
(* Parents of a student.                                                    *)

Family(n) == students[n].parents \cup Applicants(n)

FamilyFinite ==
  \A n \in Enrolled :
    IsFiniteSet(Family(n)) /\ Cardinality(Family(n)) <= Cardinality(Workers)

\* A set indexed by some of the requests has at most one element for each.
LEMMA ImageBounded ==
  ASSUME NEW S \in SUBSET Workers, NEW f
  PROVE  /\ IsFiniteSet({f[w] : w \in S})
         /\ Cardinality({f[w] : w \in S}) <= Cardinality(Workers)
<1> DEFINE T == {f[w] : w \in S}
           g == [w \in S |-> f[w]]
<1>1. g \in Surjection(S, T)
  BY DEF Surjection
<1>2. /\ IsFiniteSet(S) /\ Cardinality(S) \in Nat /\ Cardinality(S) <= Cardinality(Workers)
      /\ Cardinality(Workers) \in Nat
  BY WorkersFinite
<1> HIDE DEF g
<1>3. IsFiniteSet(T) /\ Cardinality(T) <= Cardinality(S)
  BY <1>1, <1>2, FS_Surjection
<1>4. Cardinality(T) \in Nat
  BY <1>3, FS_CardinalityType
<1> QED BY <1>2, <1>3, <1>4

\* When nobody is a parent yet, the family is who applies.
LEMMA FamilyBoundedStep ==
  ASSUME EnrolmentCore, FamilyFinite, [EnrolmentNext]_eVars
  PROVE  FamilyFinite'
<1> SUFFICES ASSUME NEW n \in Enrolled'
             PROVE  IsFiniteSet(Family(n)') /\ Cardinality(Family(n)') <= Cardinality(Workers)
  BY DEF FamilyFinite
<1>0. /\ students \in [Serials -> StudentRows \cup {NoStudent}] /\ Enrolled \subseteq Serials
      /\ Cardinality(Workers) \in Nat
  BY WorkersFinite DEF EnrolmentCore, EnrolmentTypeOK, Enrolled
<1>1. \A u : u \in Applicants(n) <=> \E w \in Workers : AddsFor(w, n, u)
  BY DEF Applicants, AddsFor, LinksRow, Linking
<1>2. \A u : u \in Applicants(n)' <=> \E w \in Workers : AddsFor(w, n, u)'
  BY DEF Applicants, AddsFor, LinksRow, Linking
<1>3. CASE n \in Enrolled /\ Family(n)' \subseteq Family(n)
  <2>1. IsFiniteSet(Family(n)) /\ Cardinality(Family(n)) <= Cardinality(Workers)
    BY <1>3 DEF FamilyFinite
  <2>2. /\ IsFiniteSet(Family(n)') /\ Cardinality(Family(n)') <= Cardinality(Family(n))
        /\ Cardinality(Family(n)') \in Nat /\ Cardinality(Family(n)) \in Nat
    BY <1>3, <2>1, FS_Subset, FS_CardinalityType
  <2> QED BY <1>0, <2>1, <2>2
<1>4. CASE students'[n].parents = {}
  <2> DEFINE f == [w \in Workers |-> IF At(w, "link")' THEN req'[w].parent ELSE Phone[req'[w].row]]
             S == {w \in Workers : (LinksRow(w) \/ At(w, "link"))' /\ req'[w].student = n}
  <2>1. Family(n)' = {f[w] : w \in S}
    BY <1>4 DEF Family, Applicants, LinksRow, Linking, At
  <2>2. S \in SUBSET Workers
    OBVIOUS
  <2> HIDE DEF f, S
  <2> QED BY <2>1, <2>2, ImageBounded
<1>5. CASE \A w \in Workers : ~EnrolmentStep(w)
  <2>1. Family(n)' = Family(n) /\ n \in Enrolled
    BY <1>5, OtherSteps DEF Family, Applicants, At, Enrolled
  <2> QED BY <1>3, <2>1
<1>6. ASSUME NEW w \in Workers, EnrolmentStep(w)
      PROVE  IsFiniteSet(Family(n)') /\ Cardinality(Family(n)') <= Cardinality(Workers)
  <2>0. \A v \in Workers \ {w} : \A u : AddsFor(v, n, u)' <=> AddsFor(v, n, u)
    BY <1>6, OneMoves DEF AddsFor, At, LinksRow
  <2>1. ASSUME NEW u \in Applicants(n)', u \notin Applicants(n) PROVE AddsFor(w, n, u)'
    BY <1>1, <1>2, <2>0, <2>1
  <2>2. CASE Aside(w) \/ Abandons(w)
    <3>1. \A u : ~AddsFor(w, n, u)'
      BY <2>2 DEF Aside, Abandons, AddsFor, Adds
    <3> QED BY <1>3, <2>1, <2>2, <3>1 DEF Aside, Abandons, Family, Enrolled
  <2>3. CASE Onward(w)
    <3>1. \A u : AddsFor(w, n, u)' => AddsFor(w, n, u)
      BY <2>3 DEF Onward, AddsFor
    <3>2. Applicants(n)' \subseteq Applicants(n)
      BY <1>1, <2>1, <3>1
    <3> QED BY <1>3, <2>3, <3>2 DEF Onward, Family, Enrolled
  <2>4. CASE Linked(w)
    <3> DEFINE m == req[w].student
    <3>1. PICK u \in Families : AddsFor(w, m, u) /\ AddParent(m, u)
      BY <2>4 DEF Linked
    <3>2. m \in Enrolled /\ \A p : ~AddsFor(w, n, p)'
      BY <2>4 DEF Linked, AddsFor, Adds
    <3>3. Applicants(n)' \subseteq Applicants(n)
      BY <2>1, <3>2
    <3>4. /\ Enrolled' = Enrolled /\ students'[m].parents = students[m].parents \cup {u}
          /\ \A k \in Serials \ {m} : students'[k] = students[k]
      BY <3>1, <3>2, AddParentEffect
    <3>5. m = n => u \in Applicants(n)
      BY <1>1, <3>1
    <3> HIDE DEF m
    <3>6. Family(n)' \subseteq Family(n)
      BY <1>0, <3>3, <3>4, <3>5 DEF Family
    <3> QED BY <1>3, <3>4, <3>6
  <2>5. CASE Inserted(w)
    <3> DEFINE m == req[w].serial
    <3>1. PICK row \in 0..Rows : Inserts(w, row)
      <4>1. \A row \in 1..Rows : row \in 0..Rows
        BY EnrolmentAssumption
      <4>2. 0 \in 0..Rows
        BY EnrolmentAssumption
      <4> QED BY <2>5, <4>1, <4>2 DEF Inserted
    <3>2. Enrolled' = Enrolled \cup {m}
      BY <3>1, InsertedIsNext DEF Inserts
    <3>3. m \in Serials
      BY <3>1, Locals DEF Inserts, Counted, At
    <3>4. /\ students'[m] = [kind |-> "student", row |-> row, parents |-> {}]
          /\ \A k \in Serials \ {m} : students'[k] = students[k]
      BY <1>0, <3>1, <3>3 DEF Inserts
    <3>5. students'[m].parents = {}
      BY <3>4
    <3>6. CASE n = m
      BY <1>4, <3>5, <3>6
    <3>7. CASE n # m
      <4>1. n \in Enrolled /\ students'[n] = students[n]
        BY <1>0, <3>2, <3>4, <3>7
      <4>2. \A u : ~AddsFor(w, n, u)'
        BY <2>5, <3>7 DEF Inserted, AddsFor, Adds
      <4> QED BY <1>3, <2>1, <4>1, <4>2 DEF Family
    <3> QED BY <3>6, <3>7
  <2>6. CASE Applies(w)
    <3>1. PICK u \in Families, m \in Serials :
            /\ UNCHANGED students /\ ~LinksRow(w)'
            /\ students[m].parents = {} \/ u \in students[m].parents
            /\ req'[w].student = m /\ req'[w].parent = u
      BY <2>6 DEF Applies
    <3>2. n \in Enrolled /\ students'[n] = students[n]
      BY <3>1 DEF Enrolled
    <3>3. \A p : AddsFor(w, n, p)' => p = u /\ m = n
      BY <3>1 DEF AddsFor
    <3>4. CASE students[n].parents = {}
      BY <1>4, <3>2, <3>4
    <3>5. CASE students[n].parents # {}
      <4>1. Family(n)' \subseteq Family(n)
        BY <2>1, <3>1, <3>2, <3>3, <3>5 DEF Family
      <4> QED BY <1>3, <3>2, <4>1
    <3> QED BY <3>4, <3>5
  <2> QED BY <1>6, <2>2, <2>3, <2>4, <2>5, <2>6, LinkingStep
<1> QED BY <1>5, <1>6

-----------------------------------------------------------------------------
EnrolmentInv ==
  EnrolmentCore /\ StopsWhole /\ CopiesPromised /\ StrandedBounded /\ FamilyFinite

LEMMA EnrolmentInit1 == RequestsInit /\ EnrolmentInit => EnrolmentInv
<1> SUFFICES ASSUME RequestsInit, EnrolmentInit PROVE EnrolmentInv
  OBVIOUS
<1>1. Enrolled = {} /\ failures = 0
  BY DEF EnrolmentInit, Enrolled, RequestsInit
<1>2. StopsWhole
  <2>1. Replacing = {}
    BY DEF RequestsInit, Replacing, At, Idle
  <2> QED BY <2>1, FS_EmptySet, WorkersFinite DEF EnrolmentInit, StopsWhole
<1>3. CopiesPromised
  <2>1. ASSUME NEW r PROVE Copies(r) = {} /\ Ahead(r) = {}
    BY <1>1 DEF Copies, Ahead, AheadOf, RequestsInit, At, Idle, LinksRow, Linking
  <2> QED BY <1>1, <2>1, FS_EmptySet DEF CopiesPromised, Button
<1>4. StrandedBounded
  <2>1. Stranded = {}
    BY <1>1 DEF Stranded
  <2> QED BY <1>1, <2>1, FS_EmptySet DEF StrandedBounded, Stranded
<1>5. FamilyFinite
  BY <1>1 DEF FamilyFinite
<1> QED BY <1>2, <1>3, <1>4, <1>5, EnrolmentInit0 DEF EnrolmentInv

\* The inductive invariant of enrolment.
THEOREM EnrolmentInductive == EnrolmentSpec => []EnrolmentInv
<1>1. EnrolmentInv /\ [EnrolmentNext]_eVars => EnrolmentInv'
  BY EnrolmentCoreStep, StopsWholeStep, CopiesPromisedStep, StrandedBoundedStep, FamilyBoundedStep
    DEF EnrolmentInv
<1> QED BY <1>1, EnrolmentInit1, PTL DEF EnrolmentSpec, eVars

\* The codes of the students stay without a gap and without a repetition, however
\* the requests that count them overlap and fail (students.routes.ts:371).
THEOREM CodesSequential == EnrolmentSpec => [](EnrolmentTypeOK /\ SerialsDense)
<1>1. EnrolmentInv => EnrolmentTypeOK /\ SerialsDense
  BY DEF EnrolmentInv, EnrolmentCore
<1> QED BY <1>1, EnrolmentInductive, PTL

\* A row of a sheet is enrolled once, and once more at most for each request that
\* failed or whose answer was lost (schools.routes.ts:243).
THEOREM ImportedOnce == EnrolmentSpec => []CopiesBounded
<1>1. EnrolmentInv => CopiesBounded
  <2> SUFFICES ASSUME EnrolmentInv, NEW r \in 1..Rows
               PROVE  Cardinality(Copies(r)) <= 1 + failures
    BY DEF CopiesBounded, Copies
  <2>1. Cardinality(Copies(r)) \in Nat /\ Cardinality(Ahead(r)) \in Nat /\ failures \in Nat
    BY EnrolledFinite, WorkersFinite
      DEF Copies, Ahead, Enrolled, EnrolmentInv, EnrolmentCore, EnrolmentTypeOK
  <2>2. Cardinality(Copies(r)) + Cardinality(Ahead(r)) + Button <= 1 + failures
    BY DEF EnrolmentInv, CopiesPromised
  <2> QED BY <2>1, <2>2 DEF Button
<1> QED BY <1>1, EnrolmentInductive, PTL

\* An imported student stays without a parent only behind a failed request
\* (schools.routes.ts:244-259).
THEOREM StrandedByFailure == EnrolmentSpec => []StrandedBounded
<1>1. EnrolmentInv => StrandedBounded
  BY DEF EnrolmentInv
<1> QED BY <1>1, EnrolmentInductive, PTL

\* The parents of a student are at most as many as requests are served at once
\* (parents.routes.ts:22, schools.routes.ts:259).
THEOREM FamiliesSmall == EnrolmentSpec => []FamilyBounded
<1>1. EnrolmentInv => FamilyBounded
  BY DEF EnrolmentInv, FamilyFinite, FamilyBounded, Family
<1> QED BY <1>1, EnrolmentInductive, PTL

\* A route is without stops only between the two statements that replace them, or
\* after a failure there (buses.routes.ts:71-81).
THEOREM StopsReplaced == EnrolmentSpec => []StopsWhole
<1>1. EnrolmentInv => StopsWhole
  BY DEF EnrolmentInv
<1> QED BY <1>1, EnrolmentInductive, PTL
=============================================================================
