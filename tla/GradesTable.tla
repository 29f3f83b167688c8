---------------------------- MODULE GradesTable ----------------------------
(***************************************************************************)
(* parseGrades of internal/repository/userProvider/parser.go: which table  *)
(* of the page has the grades, which column is which, and what each row    *)
(* says.  The university rearranges its page; each step of this module is  *)
(* one change of the layout that leaves what the page says alone, followed *)
(* by a parse.                                                             *)
(*                                                                         *)
(* A page is the sequence of its tables, a table the sequence of the rows  *)
(* Find("tr") gives, and a row the sequence of the cells Find("th, td")    *)
(* gives; of a table inside another, both would give the rows and cells    *)
(* twice, and such pages are left out.  A cell has a tag, the heading      *)
(* normalize() finds in it, if any, and a text.  Three of the seven        *)
(* headings stand for all: the two that make a table the grades table and  *)
(* one that may be missing.                                                *)
(***************************************************************************)
EXTENDS Naturals, Sequences, FiniteSets, SequencesExt

CONSTANTS
  Pages,       \* the pages to start from
  Texts,       \* what cells say; "" when nothing is left after the trimming
  MaxColumns,  \* bound: columns of the grades table
  MaxTables    \* bound: tables of the page

Headings == {"course", "title", "evaluation"}

Cell == [tag : {"td", "th"}, heading : Headings \cup {"none"}, text : Texts]

(* A cell of a table that is not about grades. *)
Blank(tag) == [tag |-> tag, heading |-> "none", text |-> ""]

VARIABLES page, grades
vars == <<page, grades>>

-----------------------------------------------------------------------------
(* gradeHeaderIndexes: the last cell with a heading counts; 0 if none has. *)
HeaderIndex(cells, heading) ==
  LET places == {i \in DOMAIN cells : cells[i].heading = heading}
  IN  IF places = {} THEN 0 ELSE CHOOSE i \in places : \A j \in places : j <= i

IsHeader(row) == {"title", "evaluation"} \subseteq {row[i].heading : i \in DOMAIN row}

Headers(table) == {i \in DOMAIN table : IsHeader(table[i])}

(* The first table that has a header row; 0: "grades table not found". *)
TableOf(tables) ==
  LET found == {i \in DOMAIN tables : Headers(tables[i]) # {}}
  IN  IF found = {} THEN 0 ELSE CHOOSE i \in found : \A j \in found : i <= j

HeaderRow(table) == CHOOSE i \in Headers(table) : \A j \in Headers(table) : i <= j

(* What row.Find("td").Eq(i - 1) has: the td with i - 1 others before it. *)
Td(row, i) ==
  {c \in DOMAIN row : row[c].tag = "td" /\ Cardinality({b \in 1..c : row[b].tag = "td"}) = i}

(* Mutant of CellText: the last column is taken for a missing one. *)
CellTextShort(header, row, heading) ==
  LET i == HeaderIndex(header, heading)
  IN  IF i = 0 \/ Td(row, i + 1) = {} THEN "" ELSE row[CHOOSE c \in Td(row, i) : TRUE].text

(* The headings are counted among all cells, and looked up among the td.   *)
CellText(header, row, heading) ==
  LET i == HeaderIndex(header, heading)
  IN  IF i = 0 \/ Td(row, i) = {} THEN "" ELSE row[CHOOSE c \in Td(row, i) : TRUE].text

HasTd(row) == \E c \in DOMAIN row : row[c].tag = "td"

(* Mutant of IsGrade: a row without a title is a grade. *)
IsGradeUntitled(table, i) == i # HeaderRow(table) /\ HasTd(table[i])

(* A row is a grade unless it is the header, or has no td, or no title.     *)
IsGrade(table, i) ==
  /\ i # HeaderRow(table)
  /\ HasTd(table[i])
  /\ CellText(table[HeaderRow(table)], table[i], "title") # ""

Grade(header, row) == [heading \in Headings |-> CellText(header, row, heading)]

(* The list of what f has, in the order of the rows it has something for.   *)
InRowOrder(f) ==
  LET order == SetToSortSeq(DOMAIN f, <)
  IN  [k \in DOMAIN order |-> f[order[k]]]

ParseGrades(tables) ==
  IF TableOf(tables) = 0 THEN <<"grades table not found">>
  ELSE LET table == tables[TableOf(tables)]
       IN  InRowOrder([i \in {i \in DOMAIN table : IsGrade(table, i)} |->
                         Grade(table[HeaderRow(table)], table[i])])

-----------------------------------------------------------------------------
(* The table with the grades, by what the university put there. *)
Graded(tables) == CHOOSE i \in DOMAIN tables : Headers(tables[i]) # {}

TheTable == Graded(page)

(* The columns of a table. *)
Width(table) == Len(table[1])

Rectangular(table) == \A r \in DOMAIN table : Len(table[r]) = Width(table)

HeadedOnce(header) ==
  \A i, j \in DOMAIN header :
    header[i].heading = header[j].heading /\ header[i].heading # "none" => i = j

(* A page has one table with a header row, whose rows are as long as each   *)
(* other and whose header has no heading twice; what else is in it, and in  *)
(* other tables, is open.                                                   *)
WellFormed(tables) ==
  /\ tables \in Seq(Seq(Seq(Cell)))
  /\ \E t \in DOMAIN tables : \A s \in DOMAIN tables : Headers(tables[s]) # {} <=> s = t
  /\ LET table == tables[Graded(tables)]
     IN  Rectangular(table) /\ HeadedOnce(table[HeaderRow(table)])

ASSUME PagesAssumption == "" \in Texts /\ \A tables \in Pages : WellFormed(tables)

Relaid(table) == [page EXCEPT ![TheTable] = table]

MoveColumn(from, to) ==
  Relaid([r \in DOMAIN page[TheTable] |->
            LET row == page[TheTable][r]
            IN  InsertAt(RemoveAt(row, from), to, row[from])])

(* A column without a heading, say of numbers; it has its own cells in rows. *)
AddColumn(at) ==
  Relaid([r \in DOMAIN page[TheTable] |->
            InsertAt(page[TheTable][r], at, Blank(page[TheTable][r][1].tag))])

(* The cells of a column become th, in every row. *)
HeadColumn(column) ==
  Relaid([r \in DOMAIN page[TheTable] |->
            [page[TheTable][r] EXCEPT ![column].tag = "th"]])

(* Another table, say of a menu, before or after. *)
AddTable(at) == InsertAt(page, at, <<<<Blank("td")>>>>)

Columns == 1 .. Width(page[TheTable])

Relayout ==
  \/ \E from, to \in Columns : page' = MoveColumn(from, to)
  \/ /\ Width(page[TheTable]) < MaxColumns
     /\ \E at \in 1 .. Width(page[TheTable]) + 1 : page' = AddColumn(at)
  \/ \E column \in Columns : page' = HeadColumn(column)
  \/ /\ Len(page) < MaxTables
     /\ \E at \in 1 .. Len(page) + 1 : page' = AddTable(at)

Init ==
  /\ page \in Pages
  /\ grades = ParseGrades(page)

Next == Relayout /\ grades' = ParseGrades(page')

Spec == Init /\ [][Next]_vars

-----------------------------------------------------------------------------
(* What stands in a row under a heading, as a reader sees it. *)
Under(table, row, heading) ==
  LET at == HeaderIndex(table[HeaderRow(table)], heading)
  IN  IF at = 0 THEN "" ELSE table[row][at].text

(* What a table says: the rows that have a title. *)
GradesOf(table) ==
  LET titled == {r \in DOMAIN table \ {HeaderRow(table)} : Under(table, r, "title") # ""}
  IN  InRowOrder([r \in titled |-> [heading \in Headings |-> Under(table, r, heading)]])

(* The rows have th in no column that has a heading, nor before one. *)
ThBehind(table) ==
  LET head == HeaderRow(table)
  IN  \A r \in DOMAIN table \ {head} : \A c \in DOMAIN table[r] :
        table[r][c].tag = "th" =>
          \A h \in DOMAIN table[head] : table[head][h].heading # "none" => h < c

Aligned == ThBehind(page[TheTable])

(* parser.go:219-281: one grade for each row with a title, in the order of  *)
(* the page, with what stands under each heading and nothing under a        *)
(* missing one - unless a th in a row shifts what parser.go:259 counts.      *)
ReadsWhatIsWritten == Aligned => grades = GradesOf(page[TheTable])

(* README.md:15 promises robust parsing of legacy HTML: moving or adding    *)
(* columns and tables changes nothing of what is read, nor do th in columns *)
(* behind the headings.                                                     *)
LayoutDoesNotMatter == [][Aligned /\ Aligned' => grades' = grades]_vars
=============================================================================
