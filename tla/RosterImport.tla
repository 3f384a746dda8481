------------------------------ MODULE RosterImport ------------------------------
(***************************************************************************)
(* Spreadsheets read into the store (infra/importer.py), by the API or the *)
(* command line.  A sheet is a sequence of rows and a row is what can be   *)
(* read in it: how dates and columns are spelt is left out.  Ids come from *)
(* the e-mail address of a person and from the title and start of a duty,  *)
(* so a row stands for the person or duty that its id names.               *)
(***************************************************************************)
EXTENDS Desk

CONSTANTS
  Name,                      \* the name of each person
  PeopleSheets, DutySheets,  \* the sheets that may be imported
  DefaultQuiet               \* QuietHours()

ASSUME SheetAssumption ==
  \A rows \in PeopleSheets \cup DutySheets : Len(rows) \in Nat /\ DOMAIN rows = 1 .. Len(rows)

VARIABLE
  report     \* the last import: its sheet and the rows with a problem

importVars == report

NoReport == [people |-> <<>>, duties |-> <<>>, problems |-> {}]

-----------------------------------------------------------------------------
(* read_people.  A row: named, email (None: unusable), optedIn, active      *)
(* ("yes", "no" or anything else), quals.                                   *)

Boolish(cell, default) == cell = "yes" \/ (cell # "no" /\ default)

Readable(row) == row.named /\ row.email \in People

UnreadRowsOnly(rows) == {i \in DOMAIN rows : ~Readable(rows[i])}     \* a mutant
PeopleProblems(rows) ==
  {i \in DOMAIN rows :
     \/ ~Readable(rows[i])
     \/ \E j \in 1 .. (i - 1) : Readable(rows[j]) /\ rows[j].email = rows[i].email}

PersonFrom(row) ==
  [active |-> Boolish(row.active, TRUE), optedIn |-> Boolish(row.optedIn, FALSE),
   quals |-> row.quals, blackouts |-> {}, quiet |-> DefaultQuiet, zone |-> Org.zone,
   order |-> person[row.email].order]

(* The last row of a person, among those read.                              *)
RowsOf(rows, read, p) == {i \in read : rows[i].email = p}

PeopleAfter(rows) ==
  LET read == DOMAIN rows \ PeopleProblems(rows)
  IN [p \in People |->
        IF RowsOf(rows, read, p) = {} THEN person[p]
        ELSE PersonFrom(rows[Max(RowsOf(rows, read, p))])]

-----------------------------------------------------------------------------
(* read_duties.  A row: duty (None: no readable start), backwards, assignee *)
(* (a name, an e-mail address, or None).                                    *)

(* by_name, then by_email; of people with one name the last counts.         *)
Assignee(cell) ==
  LET named == {p \in People : Name[p] = cell}
  IN IF named # {} THEN CHOOSE p \in named :
                          \A q \in named : person[q].order <= person[p].order
     ELSE IF cell \in People THEN cell
     ELSE None

Unplaced(rows) == {i \in DOMAIN rows : rows[i].duty \notin Duties \/ rows[i].backwards}

(* A row whose assignee nobody matches is read all the same, as uncovered.  *)
Unmatched(rows) ==
  {i \in DOMAIN rows : rows[i].assignee # None /\ Assignee(rows[i].assignee) = None}

DutyProblems(rows) == Unplaced(rows) \cup Unmatched(rows)

LastRowOf(rows, d) ==
  LET read == {i \in DOMAIN rows \ Unplaced(rows) : rows[i].duty = d}
  IN IF read = {} THEN 0 ELSE Max(read)

HolderAfter(rows) ==
  [d \in Duties |->
     IF LastRowOf(rows, d) = 0 THEN holder[d] ELSE Assignee(rows[LastRowOf(rows, d)].assignee)]

ConfirmationKept(rows) == confirmedAt                                \* a mutant

(* "Imported assignments have never been confirmed to Zamu."                *)
ConfirmedAfter(rows) ==
  [d \in Duties |-> IF LastRowOf(rows, d) = 0 THEN confirmedAt[d] ELSE None]

-----------------------------------------------------------------------------
ImportInit == report = NoReport

(* apply: every row that was read is put; on a dry run none is.             *)
ImportPeople(rows) ==
  /\ Begin
  /\ report' = [NoReport EXCEPT !.people = rows, !.problems = PeopleProblems(rows)]
  /\ person' = PeopleAfter(rows)
  /\ UNCHANGED <<now, holder, confirmedAt, ask, gone, grants, queue, answering,
                 receipts>>

ImportDuties(rows) ==
  /\ Begin
  /\ report' = [NoReport EXCEPT !.duties = rows, !.problems = DutyProblems(rows)]
  /\ holder' = HolderAfter(rows)
  /\ confirmedAt' = ConfirmedAfter(rows)
  /\ UNCHANGED <<now, person, ask, gone, grants, queue, answering, receipts>>

DryRun(rows) ==
  /\ Begin
  /\ report' = [NoReport EXCEPT !.duties = rows, !.problems = DutyProblems(rows)]
  /\ UNCHANGED <<vars, receipts>>

(* The report is read and put away.                                         *)
CloseReport ==
  /\ report # NoReport
  /\ report' = NoReport
  /\ UNCHANGED deskVars

ImportNext ==
  \/ CloseReport
  \/ \E rows \in PeopleSheets : ImportPeople(rows)
  \/ \E rows \in DutySheets : ImportDuties(rows) \/ DryRun(rows)

-----------------------------------------------------------------------------
ImportTypeOK ==
  /\ report.problems \subseteq DOMAIN report.people \cup DOMAIN report.duties

(* "A duplicate email is reported rather than silently overwriting"         *)
(* (test_importer.py): while the report is open, each row without a problem *)
(* is in the store as it was written, and nobody can be messaged whose last *)
(* import did not say so.                                                   *)
NoRowLost ==
  \A i \in DOMAIN report.people \ report.problems :
    LET row == report.people[i]
    IN /\ person[row.email].quals = row.quals
       /\ person[row.email].optedIn <=> row.optedIn = "yes"
=============================================================================
