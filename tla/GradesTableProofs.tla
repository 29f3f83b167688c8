------------------------- MODULE GradesTableProofs -------------------------
(* Proofs about GradesTable, for any pages and bounds. *)
EXTENDS GradesTable, FiniteSetTheorems, WellFoundedInduction, TLAPS

-----------------------------------------------------------------------------
(* Numbers and counts. *)

(* A set of naturals that is not empty has a least element. *)
LEMMA LeastNatural ==
  ASSUME NEW S \in SUBSET Nat, S # {}
  PROVE  \E m \in S : \A n \in S : m <= n
<1> DEFINE below == {0..n : n \in S}
<1>1. below # {} /\ below \subseteq FiniteSubsetsOf(Nat)
  <2>1. ASSUME NEW n \in S PROVE 0..n \in SUBSET Nat /\ IsFiniteSet(0..n)
    BY FS_Interval
  <2>2. QED
    BY <2>1 DEF FiniteSubsetsOf
<1>2. PICK x \in below : \A y \in below : ~ (<<y, x>> \in StrictSubsetOrdering(Nat))
  BY <1>1, FS_StrictSubsetOrderingWellFounded, WFMin
<1>3. PICK m \in S : x = 0..m
  OBVIOUS
<1>4. ASSUME NEW n \in S, n < m PROVE FALSE
  <2>1. 0..n \subseteq 0..m /\ 0..n # 0..m
    BY <1>4
  <2>2. <<0..n, 0..m>> \in StrictSubsetOrdering(Nat)
    BY <1>1, <2>1 DEF StrictSubsetOrdering
  <2>3. QED
    BY <1>2, <1>3, <2>2
<1>5. QED
  BY <1>4

(* Among the first i cells, all of them td, the i-th is the only i-th td.    *)
LEMMA TdCounted ==
  ASSUME NEW row \in Seq(Cell), NEW i \in DOMAIN row,
         \A b \in 1..i : row[b].tag = "td"
  PROVE  Td(row, i) = {i}
<1> DEFINE before(c) == {b \in 1..c : row[b].tag = "td"}
<1>1. DOMAIN row = 1..Len(row) /\ Len(row) \in Nat
  OBVIOUS
<1>2. ASSUME NEW c \in DOMAIN row, c <= i PROVE Cardinality(before(c)) = c
  <2>1. before(c) = 1..c
    BY <1>1, <1>2
  <2>2. Cardinality(1..c) = c
    BY <1>1, FS_Interval
  <2>3. QED
    BY <2>1, <2>2
<1>3. ASSUME NEW c \in DOMAIN row, c > i, row[c].tag = "td"
      PROVE  Cardinality(before(c)) # i
  <2>1. IsFiniteSet(1..c) /\ IsFiniteSet(1..i) /\ Cardinality(1..i) = i
    BY <1>1, FS_Interval
  <2>2. IsFiniteSet(before(c))
    BY <2>1, FS_Subset
  <2>3. (1..i) \cup {c} \subseteq before(c)
    BY <1>1, <1>3
  <2>4. Cardinality((1..i) \cup {c}) = i + 1
    <3>1. c \notin 1..i
      BY <1>1, <1>3
    <3>2. QED
      BY <2>1, <3>1, FS_AddElement, Zenon
  <2>5. Cardinality(before(c)) >= i + 1
    BY <2>2, <2>3, <2>4, FS_Subset
  <2>6. Cardinality(before(c)) \in Nat
    BY <2>2, FS_CardinalityType
  <2>7. QED
    BY <1>1, <2>5, <2>6
<1>4. \A c \in DOMAIN row : row[c].tag = "td" /\ Cardinality(before(c)) = i <=> c = i
  <2>1. i \in 1..i /\ \A c \in DOMAIN row : c <= i \/ c > i
    BY <1>1
  <2>2. QED
    BY <1>2, <1>3, <2>1
<1>5. QED
  BY <1>4 DEF Td

-----------------------------------------------------------------------------
(* Headers. *)

(* In a header with no heading twice, a heading has one place, or none.      *)
LEMMA HeaderIndexOnce ==
  ASSUME NEW header \in Seq(Cell), HeadedOnce(header), NEW heading \in Headings
  PROVE  /\ \A i \in DOMAIN header : header[i].heading = heading => HeaderIndex(header, heading) = i
         /\ (\A i \in DOMAIN header : header[i].heading # heading) => HeaderIndex(header, heading) = 0
         /\ HeaderIndex(header, heading) # 0 => /\ HeaderIndex(header, heading) \in DOMAIN header
                                                /\ header[HeaderIndex(header, heading)].heading = heading
<1> DEFINE places == {i \in DOMAIN header : header[i].heading = heading}
<1>1. DOMAIN header = 1..Len(header) /\ Len(header) \in Nat
  OBVIOUS
<1>2. heading # "none"
  BY DEF Headings
<1>3. ASSUME NEW i \in places PROVE HeaderIndex(header, heading) = i
  <2>1. places = {i}
    BY <1>2, <1>3 DEF HeadedOnce
  <2>2. QED
    BY <1>1, <2>1 DEF HeaderIndex
<1>4. places = {} => HeaderIndex(header, heading) = 0
  BY DEF HeaderIndex
<1>5. QED
  BY <1>1, <1>3, <1>4

(* A table with a header row has a first one. *)
LEMMA HeaderRowFirst ==
  ASSUME NEW table \in Seq(Seq(Cell)), Headers(table) # {}
  PROVE  HeaderRow(table) \in Headers(table) /\ HeaderRow(table) \in DOMAIN table
<1>1. Headers(table) \in SUBSET Nat /\ Headers(table) \subseteq DOMAIN table
  BY DEF Headers
<1>2. \E i \in Headers(table) : \A j \in Headers(table) : i <= j
  BY <1>1, LeastNatural
<1>3. QED
  BY <1>1, <1>2 DEF HeaderRow

(* What a well-formed page gives: its one table with a header row is the one *)
(* parseGrades takes.                                                        *)
LEMMA TableFound ==
  ASSUME NEW tables, WellFormed(tables)
  PROVE  /\ Graded(tables) \in DOMAIN tables
         /\ tables[Graded(tables)] \in Seq(Seq(Cell))
         /\ Headers(tables[Graded(tables)]) # {}
         /\ \A s \in DOMAIN tables : Headers(tables[s]) # {} => s = Graded(tables)
         /\ TableOf(tables) = Graded(tables)
         /\ TableOf(tables) # 0
<1>1. PICK t \in DOMAIN tables : \A s \in DOMAIN tables : Headers(tables[s]) # {} <=> s = t
  BY DEF WellFormed
<1>2. DOMAIN tables = 1..Len(tables) /\ Len(tables) \in Nat
      /\ \A s \in DOMAIN tables : tables[s] \in Seq(Seq(Cell))
  BY DEF WellFormed
<1>3. Graded(tables) = t
  BY <1>1 DEF Graded
<1>4. {i \in DOMAIN tables : Headers(tables[i]) # {}} = {t}
  BY <1>1
<1>5. TableOf(tables) = t
  <2>1. t = CHOOSE i \in {t} : \A j \in {t} : i <= j
    BY <1>2
  <2>2. QED
    BY <1>4, <2>1 DEF TableOf
<1>6. t # 0
  BY <1>2
<1>7. QED
  BY <1>1, <1>2, <1>3, <1>5, <1>6

-----------------------------------------------------------------------------
(* Reading. *)

(* A table with a header row, as a well-formed page has one. *)
GradesTables ==
  {table \in Seq(Seq(Cell)) :
     /\ Headers(table) # {}
     /\ Rectangular(table)
     /\ HeadedOnce(table[HeaderRow(table)])}

(* The parts of the rows of such a table. *)
LEMMA RowsTyped ==
  ASSUME NEW table \in GradesTables
  PROVE  /\ HeaderRow(table) \in DOMAIN table
         /\ Width(table) \in Nat \ {0}
         /\ \A r \in DOMAIN table : /\ table[r] \in Seq(Cell)
                                   /\ DOMAIN table[r] = 1..Width(table)
                                   /\ \A c \in 1..Width(table) :
                                        table[r][c] \in Cell /\ table[r][c].tag \in {"td", "th"}
<1>1. HeaderRow(table) \in DOMAIN table /\ IsHeader(table[HeaderRow(table)])
  BY HeaderRowFirst DEF GradesTables, Headers
<1>2. \A r \in DOMAIN table : /\ table[r] \in Seq(Cell)
                             /\ Len(table[r]) = Width(table)
                             /\ DOMAIN table[r] = 1..Len(table[r])
                             /\ Len(table[r]) \in Nat
                             /\ \A c \in DOMAIN table[r] : table[r][c] \in Cell
  BY DEF GradesTables, Rectangular
<1>3. \E i \in DOMAIN table[HeaderRow(table)] : TRUE
  BY <1>1 DEF IsHeader
<1>4. \A cell \in Cell : cell.tag \in {"td", "th"}
  BY DEF Cell
<1>5. QED
  BY <1>1, <1>2, <1>3, <1>4

(* What parseGrades reads under a heading stands there. *)
LEMMA TextUnder ==
  ASSUME NEW table \in GradesTables, ThBehind(table),
         NEW r \in DOMAIN table \ {HeaderRow(table)}, NEW heading \in Headings
  PROVE  CellText(table[HeaderRow(table)], table[r], heading) = Under(table, r, heading)
<1> DEFINE header == table[HeaderRow(table)]
           at     == HeaderIndex(header, heading)
<1>1. CASE at = 0
  BY <1>1 DEF CellText, Under
<1>2. CASE at # 0
  <2>1. header \in Seq(Cell) /\ HeadedOnce(header) /\ heading # "none"
    BY RowsTyped DEF GradesTables, Headings
  <2>2. at \in DOMAIN header /\ header[at].heading = heading
    BY <1>2, <2>1, HeaderIndexOnce
  <2>3. at \in DOMAIN table[r] /\ table[r] \in Seq(Cell) /\ 1..at \subseteq DOMAIN table[r]
    BY <2>2, RowsTyped
  <2>4. ASSUME NEW b \in 1..at PROVE table[r][b].tag = "td"
    <3>1. ~ (at < b)
      BY <2>3
    <3>2. table[r][b].tag # "th"
      BY <2>1, <2>2, <2>3, <3>1 DEF ThBehind
    <3>3. table[r][b].tag \in {"td", "th"}
      BY <2>3, RowsTyped
    <3>4. QED
      BY <3>2, <3>3
  <2>5. Td(table[r], at) = {at}
    BY <2>3, <2>4, TdCounted
  <2>6. (CHOOSE c \in Td(table[r], at) : TRUE) = at
    BY <2>5
  <2>7. QED
    BY <1>2, <2>5, <2>6 DEF CellText, Under
<1>3. QED
  BY <1>1, <1>2

(* parseGrades reads what the page says, where no th shifts a row.          *)
LEMMA ReadsGrades ==
  ASSUME NEW tables, WellFormed(tables), ThBehind(tables[Graded(tables)])
  PROVE  ParseGrades(tables) = GradesOf(tables[Graded(tables)])
<1> DEFINE table  == tables[Graded(tables)]
           head   == HeaderRow(table)
           read   == {i \in DOMAIN table : IsGrade(table, i)}
           titled == {r \in DOMAIN table \ {head} : Under(table, r, "title") # ""}
<1>1. table \in GradesTables /\ TableOf(tables) = Graded(tables)
  BY TableFound DEF WellFormed, GradesTables
<1>2. ASSUME NEW r \in DOMAIN table \ {head} PROVE HasTd(table[r])
  <2>1. PICK c \in DOMAIN table[head] : table[head][c].heading = "title"
    BY <1>1, HeaderRowFirst DEF GradesTables, Headers, IsHeader
  <2>2. 1 \in DOMAIN table[r] /\ table[r][1].tag \in {"td", "th"} /\ ~ (c < 1)
    BY <1>1, <2>1, RowsTyped
  <2>3. table[r][1].tag # "th"
    BY <1>2, <2>1, <2>2 DEF ThBehind
  <2>4. QED
    BY <2>2, <2>3 DEF HasTd
<1>3. ASSUME NEW r \in DOMAIN table \ {head}, NEW heading \in Headings
      PROVE  CellText(table[head], table[r], heading) = Under(table, r, heading)
  BY <1>1, <1>3, TextUnder
<1>4. read = titled
  BY <1>2, <1>3 DEF IsGrade, Headings
<1>5. [i \in read |-> Grade(table[head], table[i])]
        = [r \in titled |-> [heading \in Headings |-> Under(table, r, heading)]]
  <2>1. ASSUME NEW r \in titled
        PROVE  Grade(table[head], table[r]) = [heading \in Headings |-> Under(table, r, heading)]
    BY <1>3 DEF Grade
  <2>2. QED
    BY <1>4, <2>1
<1>6. TableOf(tables) # 0
  BY TableFound
<1>7. QED
  BY <1>1, <1>5, <1>6 DEF ParseGrades, GradesOf

-----------------------------------------------------------------------------
(* Other layouts of a table. *)

(* The columns of one table are among those of the other, in some order, and *)
(* what the other has more has no heading.  (The order of two columns, and   *)
(* which cells are th, may differ.)                                          *)
Carries(old, new, place) ==
  /\ DOMAIN new = DOMAIN old
  /\ place \in [1..Width(old) -> 1..Width(new)]
  /\ \A r \in DOMAIN old : \A c \in 1..Width(old) :
       /\ new[r][place[c]].heading = old[r][c].heading
       /\ new[r][place[c]].text = old[r][c].text
  /\ \A r \in DOMAIN old : \A d \in 1..Width(new) :
       new[r][d].heading # "none" => \E c \in 1..Width(old) : place[c] = d

(* The header row stays the header row. *)
LEMMA CarriedHeaders ==
  ASSUME NEW old \in GradesTables, NEW new \in Seq(Seq(Cell)), Rectangular(new),
         NEW place, Carries(old, new, place)
  PROVE  /\ Headers(new) = Headers(old)
         /\ HeaderRow(new) = HeaderRow(old)
         /\ new \in GradesTables
<1>1. \A r \in DOMAIN old : DOMAIN old[r] = 1..Width(old) /\ DOMAIN new[r] = 1..Width(new)
  <2>1. ASSUME NEW r \in DOMAIN new PROVE DOMAIN new[r] = 1..Width(new)
    <3>1. new[r] \in Seq(Cell)
      OBVIOUS
    <3>2. QED
      BY <3>1 DEF Rectangular
  <2>2. QED
    BY <2>1, RowsTyped DEF Carries
<1>2. ASSUME NEW r \in DOMAIN old, NEW heading \in Headings
      PROVE  heading \in {old[r][c].heading : c \in DOMAIN old[r]}
               <=> heading \in {new[r][d].heading : d \in DOMAIN new[r]}
  <2>1. heading # "none"
    BY DEF Headings
  <2>2. ASSUME NEW c \in 1..Width(old), old[r][c].heading = heading
        PROVE  \E d \in 1..Width(new) : new[r][d].heading = heading
    BY <2>2 DEF Carries
  <2>3. ASSUME NEW d \in 1..Width(new), new[r][d].heading = heading
        PROVE  \E c \in 1..Width(old) : old[r][c].heading = heading
    <3>1. PICK c \in 1..Width(old) : place[c] = d
      BY <2>1, <2>3 DEF Carries
    <3>2. QED
      BY <2>3, <3>1 DEF Carries
  <2>4. QED
    BY <1>1, <2>2, <2>3
<1>3. \A r \in DOMAIN old : IsHeader(new[r]) <=> IsHeader(old[r])
  BY <1>2 DEF IsHeader, Headings
<1>4. Headers(new) = Headers(old)
  BY <1>3 DEF Headers, Carries
<1>5. HeaderRow(new) = HeaderRow(old) /\ HeaderRow(old) \in DOMAIN old
  BY <1>4, RowsTyped DEF HeaderRow
<1>6. HeadedOnce(new[HeaderRow(new)])
  <2> DEFINE h == HeaderRow(old)
  <2>1. SUFFICES ASSUME NEW i \in 1..Width(new), NEW j \in 1..Width(new),
                        new[h][i].heading = new[h][j].heading, new[h][i].heading # "none"
                 PROVE  i = j
    BY <1>1, <1>5 DEF HeadedOnce
  <2>2. PICK c \in 1..Width(old), d \in 1..Width(old) : place[c] = i /\ place[d] = j
    BY <1>5, <2>1 DEF Carries
  <2>3. old[h][c].heading = old[h][d].heading /\ old[h][c].heading # "none"
    BY <1>5, <2>1, <2>2 DEF Carries
  <2>4. c = d
    BY <1>1, <1>5, <2>3 DEF GradesTables, HeadedOnce
  <2>5. QED
    BY <2>2, <2>4
<1>7. QED
  BY <1>4, <1>5, <1>6 DEF GradesTables

(* What stands under a heading stays there, and so does what the table says. *)
LEMMA CarriedGrades ==
  ASSUME NEW old \in GradesTables, NEW new \in Seq(Seq(Cell)), Rectangular(new),
         NEW place, Carries(old, new, place)
  PROVE  GradesOf(new) = GradesOf(old)
<1> DEFINE h == HeaderRow(old)
<1>1. /\ new \in GradesTables /\ HeaderRow(new) = h /\ h \in DOMAIN old
      /\ DOMAIN new = DOMAIN old /\ Width(old) \in Nat /\ Width(new) \in Nat
      /\ DOMAIN old[h] = 1..Width(old) /\ DOMAIN new[h] = 1..Width(new)
      /\ old[h] \in Seq(Cell) /\ new[h] \in Seq(Cell)
      /\ HeadedOnce(old[h]) /\ HeadedOnce(new[h])
  <2>1. new \in GradesTables /\ HeaderRow(new) = h
    BY CarriedHeaders
  <2>2. HeadedOnce(old[h]) /\ HeadedOnce(new[h]) /\ DOMAIN new = DOMAIN old
    BY <2>1 DEF GradesTables, Carries
  <2>3. QED
    BY <2>1, <2>2, RowsTyped
<1>2. ASSUME NEW r \in DOMAIN old, NEW heading \in Headings
      PROVE  Under(new, r, heading) = Under(old, r, heading)
  <2> DEFINE at == HeaderIndex(old[h], heading)
  <2>0. heading # "none"
    BY DEF Headings
  <2>a. /\ at # 0 => at \in DOMAIN old[h] /\ old[h][at].heading = heading
        /\ \A c \in DOMAIN old[h] : old[h][c].heading = heading => at = c
    BY <1>1, HeaderIndexOnce
  <2>b. /\ \A d \in DOMAIN new[h] : new[h][d].heading = heading => HeaderIndex(new[h], heading) = d
        /\ (\A d \in DOMAIN new[h] : new[h][d].heading # heading) => HeaderIndex(new[h], heading) = 0
    BY <1>1, HeaderIndexOnce
  <2>1. CASE at = 0
    <3>1. \A c \in 1..Width(old) : old[h][c].heading # heading
      <4>1. ASSUME NEW c \in 1..Width(old), old[h][c].heading = heading PROVE FALSE
        <5>1. c \in DOMAIN old[h] /\ c # 0
          BY <1>1
        <5>2. at = c
          BY <2>a, <4>1, <5>1
        <5>3. QED
          BY <2>1, <5>1, <5>2
      <4>2. QED
        BY <4>1
    <3>2. \A d \in 1..Width(new) : new[h][d].heading # heading
      <4>1. ASSUME NEW d \in 1..Width(new), new[h][d].heading = heading PROVE FALSE
        <5>1. PICK c \in 1..Width(old) : place[c] = d
          BY <1>1, <2>0, <4>1 DEF Carries
        <5>2. QED
          BY <1>1, <3>1, <4>1, <5>1 DEF Carries
      <4>2. QED
        BY <4>1
    <3>3. HeaderIndex(new[h], heading) = 0
      BY <1>1, <3>2, <2>b
    <3>4. QED
      BY <1>1, <2>1, <3>3 DEF Under
  <2>2. CASE at # 0
    <3>1. at \in 1..Width(old) /\ old[h][at].heading = heading
      BY <1>1, <2>2, <2>a
    <3>2. place[at] \in 1..Width(new) /\ new[h][place[at]].heading = heading
      BY <1>1, <3>1 DEF Carries
    <3>3. HeaderIndex(new[h], heading) = place[at] /\ place[at] # 0
      BY <1>1, <3>2, <2>b
    <3>4. new[r][place[at]].text = old[r][at].text
      BY <1>2, <3>1 DEF Carries
    <3>5. QED
      BY <1>1, <2>2, <3>3, <3>4 DEF Under
  <2>3. QED
    BY <2>1, <2>2
<1>3. {r \in DOMAIN new \ {h} : Under(new, r, "title") # ""}
        = {r \in DOMAIN old \ {h} : Under(old, r, "title") # ""}
  BY <1>1, <1>2 DEF Headings
<1>4. ASSUME NEW r \in DOMAIN old
      PROVE  [heading \in Headings |-> Under(new, r, heading)]
               = [heading \in Headings |-> Under(old, r, heading)]
  BY <1>2
<1>5. QED
  BY <1>1, <1>3, <1>4 DEF GradesOf

(* A page whose grades table is relaid says the same. *)
LEMMA RelaidSays ==
  ASSUME NEW tables, WellFormed(tables), NEW new \in Seq(Seq(Cell)), Rectangular(new),
         NEW place, Carries(tables[Graded(tables)], new, place),
         NEW other, other = [tables EXCEPT ![Graded(tables)] = new]
  PROVE  /\ WellFormed(other)
         /\ GradesOf(other[Graded(other)]) = GradesOf(tables[Graded(tables)])
<1> DEFINE t == Graded(tables)
<1>1. /\ t \in DOMAIN tables
      /\ tables \in Seq(Seq(Seq(Cell)))
      /\ tables[t] \in GradesTables
      /\ \A s \in DOMAIN tables : Headers(tables[s]) # {} => s = t
  BY TableFound DEF WellFormed, GradesTables
<1>2. new \in GradesTables /\ GradesOf(new) = GradesOf(tables[t])
  BY <1>1, CarriedHeaders, CarriedGrades
<1>3. /\ other \in Seq(Seq(Seq(Cell)))
      /\ DOMAIN other = DOMAIN tables
      /\ other[t] = new
      /\ \A s \in DOMAIN tables \ {t} : other[s] = tables[s]
  BY <1>1
<1>4. \A s \in DOMAIN other : Headers(other[s]) # {} <=> s = t
  BY <1>1, <1>2, <1>3 DEF GradesTables
<1>5. Graded(other) = t
  BY <1>1, <1>3, <1>4 DEF Graded
<1>6. QED
  BY <1>1, <1>2, <1>3, <1>4, <1>5 DEF WellFormed, GradesTables

-----------------------------------------------------------------------------
(* The changes of the layout. *)

(* Two sequences one after the other, the first of m elements, n in all. *)
Joined(new, a, b, m, n) ==
  /\ Len(new) = n
  /\ \A j \in 1..n : new[j] = IF j <= m THEN a[j] ELSE b[j - m]

LEMMA Concatenated ==
  ASSUME NEW S, NEW a \in Seq(S), NEW b \in Seq(S),
         NEW m \in Int, NEW n \in Int, Len(a) = m, Len(a) + Len(b) = n
  PROVE  a \o b \in Seq(S) /\ Joined(a \o b, a, b, m, n)
<1>1. /\ a \o b \in Seq(S)
      /\ Len(a \o b) = Len(a) + Len(b)
      /\ \A j \in 1 .. Len(a) + Len(b) :
           (a \o b)[j] = IF j <= Len(a) THEN a[j] ELSE b[j - Len(a)]
  OBVIOUS
<1>2. QED
  BY <1>1, Zenon DEF Joined

(* An element put into a sequence. *)
Inserted(new, s, i, e) ==
  /\ Len(new) = Len(s) + 1
  /\ \A j \in 1 .. Len(s) + 1 : new[j] = IF j < i THEN s[j] ELSE IF j = i THEN e ELSE s[j - 1]

LEMMA InsertedAt ==
  ASSUME NEW S, NEW s \in Seq(S), NEW i \in 1 .. Len(s) + 1, NEW e \in S
  PROVE  InsertAt(s, i, e) \in Seq(S) /\ Inserted(InsertAt(s, i, e), s, i, e)
<1> DEFINE front == SubSeq(s, 1, i - 1)
           back  == SubSeq(s, i, Len(s))
<1>1. /\ front \in Seq(S) /\ Len(front) = i - 1
      /\ \A j \in 1 .. i - 1 : front[j] = s[j]
  OBVIOUS
<1>2. /\ back \in Seq(S) /\ Len(back) = Len(s) + 1 - i
      /\ \A j \in 1 .. Len(s) + 1 - i : back[j] = s[i + j - 1]
  OBVIOUS
<1> HIDE DEF front, back
<1>3. /\ front \o <<e>> \in Seq(S) /\ Len(front \o <<e>>) = i
      /\ \A j \in 1..i : (front \o <<e>>)[j] = IF j < i THEN s[j] ELSE e
  BY <1>1
<1>4. InsertAt(s, i, e) = (front \o <<e>>) \o back
  BY DEF InsertAt, front, back
<1>5. /\ (front \o <<e>>) \o back \in Seq(S)
      /\ Len((front \o <<e>>) \o back) = Len(s) + 1
      /\ \A j \in 1 .. Len(s) + 1 :
           ((front \o <<e>>) \o back)[j] = IF j <= i THEN (front \o <<e>>)[j] ELSE back[j - i]
  <2> DEFINE head == front \o <<e>>
  <2>1. i \in Int /\ Len(s) + 1 \in Int /\ i + (Len(s) + 1 - i) = Len(s) + 1
    OBVIOUS
  <2>2. head \in Seq(S) /\ Len(head) = i /\ Len(head) + Len(back) = Len(s) + 1
    BY <1>2, <1>3, <2>1, Zenon
  <2> HIDE DEF head
  <2>3. head \o back \in Seq(S) /\ Joined(head \o back, head, back, i, Len(s) + 1)
    BY <1>2, <2>1, <2>2, Concatenated
  <2>4. QED
    BY <2>3, Zenon DEF head, Joined
<1>6. ASSUME NEW j \in 1 .. Len(s) + 1
      PROVE  InsertAt(s, i, e)[j] = IF j < i THEN s[j] ELSE IF j = i THEN e ELSE s[j - 1]
  <2>1. CASE j <= i
    BY <1>3, <1>4, <1>5, <2>1
  <2>2. CASE j > i
    <3>1. j - i \in 1 .. Len(s) + 1 - i /\ i + (j - i) - 1 = j - 1
      BY <2>2
    <3>2. back[j - i] = s[j - 1]
      BY <1>2, <3>1
    <3>3. QED
      BY <1>4, <1>5, <2>2, <3>2
  <2>3. QED
    BY <2>1, <2>2
<1>7. QED
  BY <1>4, <1>5, <1>6 DEF Inserted

(* An element taken out of a sequence. *)
Removed(new, s, i) ==
  /\ Len(new) = Len(s) - 1
  /\ \A j \in 1 .. Len(s) - 1 : new[j] = IF j < i THEN s[j] ELSE s[j + 1]

LEMMA RemovedAt ==
  ASSUME NEW S, NEW s \in Seq(S), NEW i \in 1 .. Len(s)
  PROVE  RemoveAt(s, i) \in Seq(S) /\ Removed(RemoveAt(s, i), s, i)
<1> DEFINE front == SubSeq(s, 1, i - 1)
           back  == SubSeq(s, i + 1, Len(s))
<1>1. /\ front \in Seq(S) /\ Len(front) = i - 1
      /\ \A j \in 1 .. i - 1 : front[j] = s[j]
  OBVIOUS
<1>2. /\ back \in Seq(S) /\ Len(back) = Len(s) - i
      /\ \A j \in 1 .. Len(s) - i : back[j] = s[i + j]
  OBVIOUS
<1> HIDE DEF front, back
<1>3. RemoveAt(s, i) = front \o back
  BY DEF RemoveAt, front, back
<1>4. /\ front \o back \in Seq(S)
      /\ Len(front \o back) = Len(s) - 1
      /\ \A j \in 1 .. Len(s) - 1 :
           (front \o back)[j] = IF j <= i - 1 THEN front[j] ELSE back[j - (i - 1)]
  <2>1. i - 1 \in Int /\ Len(s) - 1 \in Int /\ (i - 1) + (Len(s) - i) = Len(s) - 1
    OBVIOUS
  <2>2. Len(front) = i - 1 /\ Len(front) + Len(back) = Len(s) - 1
    BY <1>1, <1>2, <2>1, Zenon
  <2>3. front \o back \in Seq(S) /\ Joined(front \o back, front, back, i - 1, Len(s) - 1)
    BY <1>1, <1>2, <2>1, <2>2, Concatenated
  <2>4. QED
    BY <2>3, Zenon DEF Joined
<1>5. ASSUME NEW j \in 1 .. Len(s) - 1
      PROVE  RemoveAt(s, i)[j] = IF j < i THEN s[j] ELSE s[j + 1]
  <2>1. CASE j < i
    BY <1>1, <1>3, <1>4, <2>1
  <2>2. CASE j >= i
    <3>1. j - (i - 1) \in 1 .. Len(s) - i /\ i + (j - (i - 1)) = j + 1
      BY <2>2
    <3>2. back[j - (i - 1)] = s[j + 1]
      BY <1>2, <3>1
    <3>3. QED
      BY <1>3, <1>4, <2>2, <3>2
  <2>3. QED
    BY <2>1, <2>2
<1>6. QED
  BY <1>3, <1>4, <1>5 DEF Removed

(* Rows of one length make a table. *)
LEMMA Relined ==
  ASSUME NEW table \in GradesTables, NEW new \in [DOMAIN table -> Seq(Cell)], NEW w \in Nat,
         \A r \in DOMAIN table : Len(new[r]) = w
  PROVE  new \in Seq(Seq(Cell)) /\ Rectangular(new) /\ Width(new) = w
<1>1. DOMAIN table = 1..Len(table) /\ Len(table) \in Nat
  BY DEF GradesTables
<1>2. new \in Seq(Seq(Cell))
  BY <1>1
<1>3. 1 \in DOMAIN table
  BY <1>1, RowsTyped
<1>4. QED
  BY <1>2, <1>3 DEF Rectangular, Width

(* The table of a well-formed page. *)
LEMMA TheTableTyped ==
  ASSUME WellFormed(page)
  PROVE  page[TheTable] \in GradesTables
BY TableFound DEF WellFormed, GradesTables, TheTable

(* What a relayout must keep. *)
Keeps(other) ==
  /\ WellFormed(other)
  /\ GradesOf(other[Graded(other)]) = GradesOf(page[TheTable])

(* A moved column has its headings and texts with it. *)
LEMMA MoveColumnKeeps ==
  ASSUME WellFormed(page), NEW from \in Columns, NEW to \in Columns
  PROVE  Keeps(MoveColumn(from, to))
<1> DEFINE table    == page[TheTable]
           w        == Width(table)
           row(r)   == InsertAt(RemoveAt(table[r], from), to, table[r][from])
           new      == [r \in DOMAIN table |-> row(r)]
           rest(c)  == IF c < from THEN c ELSE c - 1
           place    == [c \in 1..w |-> IF c = from THEN to
                                      ELSE IF rest(c) < to THEN rest(c) ELSE rest(c) + 1]
<1>1. table \in GradesTables /\ w \in Nat /\ from \in 1..w /\ to \in 1..w
  BY TheTableTyped, RowsTyped DEF Columns
<1>2. ASSUME NEW r \in DOMAIN table
      PROVE  /\ row(r) \in Seq(Cell) /\ Len(row(r)) = w
             /\ \A c \in 1..w : row(r)[place[c]] = table[r][c]
  <2> DEFINE left == RemoveAt(table[r], from)
  <2>1. /\ table[r] \in Seq(Cell) /\ Len(table[r]) = w /\ table[r][from] \in Cell
        /\ from \in 1..Len(table[r])
    BY <1>1, <1>2, RowsTyped DEF GradesTables, Rectangular
  <2>2. /\ left \in Seq(Cell) /\ Len(left) = w - 1
        /\ \A j \in 1 .. w - 1 : left[j] = IF j < from THEN table[r][j] ELSE table[r][j + 1]
    <3>1. left \in Seq(Cell) /\ Removed(left, table[r], from)
      BY <2>1, RemovedAt
    <3>2. QED
      BY <2>1, <3>1 DEF Removed
  <2> HIDE DEF left
  <2>3. to \in 1 .. Len(left) + 1 /\ Len(left) + 1 = w
    BY <1>1, <2>2
  <2>4. /\ InsertAt(left, to, table[r][from]) \in Seq(Cell)
        /\ Len(InsertAt(left, to, table[r][from])) = w
        /\ \A j \in 1..w : InsertAt(left, to, table[r][from])[j]
                            = IF j < to THEN left[j] ELSE IF j = to THEN table[r][from] ELSE left[j - 1]
    <3>1. /\ InsertAt(left, to, table[r][from]) \in Seq(Cell)
          /\ Inserted(InsertAt(left, to, table[r][from]), left, to, table[r][from])
      BY <2>1, <2>2, <2>3, InsertedAt
    <3>2. QED
      BY <2>3, <3>1 DEF Inserted
  <2>5. row(r) = InsertAt(left, to, table[r][from])
    BY DEF left
  <2>6. ASSUME NEW c \in 1..w PROVE row(r)[place[c]] = table[r][c]
    <3>1. CASE c = from
      BY <1>1, <2>4, <2>5, <3>1
    <3>2. CASE c # from
      <4>1. rest(c) \in 1 .. w - 1 /\ left[rest(c)] = table[r][c]
        BY <1>1, <2>2, <3>2
      <4>2. QED
        BY <1>1, <2>4, <2>5, <3>2, <4>1
    <3>3. QED
      BY <3>1, <3>2
  <2>7. QED
    BY <2>4, <2>5, <2>6
<1>3. new \in Seq(Seq(Cell)) /\ Rectangular(new) /\ Width(new) = w
  BY <1>1, <1>2, Relined
<1>4. place \in [1..w -> 1..w]
  BY <1>1
<1>5. ASSUME NEW d \in 1..w PROVE \E c \in 1..w : place[c] = d
  <2> DEFINE e == IF d < to THEN d ELSE d - 1
             c == IF d = to THEN from ELSE IF e < from THEN e ELSE e + 1
  <2>1. c \in 1..w /\ place[c] = d
    BY <1>1
  <2>2. QED
    BY <2>1
<1>6. Carries(table, new, place)
  BY <1>2, <1>3, <1>4, <1>5 DEF Carries
<1>7. MoveColumn(from, to) = [page EXCEPT ![Graded(page)] = new]
  BY DEF MoveColumn, Relaid, TheTable
<1>8. QED
  BY <1>3, <1>6, <1>7, RelaidSays DEF Keeps, TheTable

(* An empty cell has no heading. *)
LEMMA BlankTyped ==
  ASSUME NEW tag \in {"td", "th"}
  PROVE  Blank(tag) \in Cell /\ Blank(tag).heading = "none"
BY PagesAssumption DEF Blank, Cell

(* A column without a heading takes nothing away. *)
LEMMA AddColumnKeeps ==
  ASSUME WellFormed(page), NEW at \in 1 .. Width(page[TheTable]) + 1
  PROVE  Keeps(AddColumn(at))
<1> DEFINE table  == page[TheTable]
           w      == Width(table)
           row(r) == InsertAt(table[r], at, Blank(table[r][1].tag))
           new    == [r \in DOMAIN table |-> row(r)]
           place  == [c \in 1..w |-> IF c < at THEN c ELSE c + 1]
<1>1. table \in GradesTables /\ w \in Nat \ {0} /\ at \in 1 .. w + 1
  BY TheTableTyped, RowsTyped
<1>2. ASSUME NEW r \in DOMAIN table
      PROVE  /\ row(r) \in Seq(Cell) /\ Len(row(r)) = w + 1
             /\ \A j \in 1 .. w + 1 :
                  row(r)[j] = IF j < at THEN table[r][j]
                              ELSE IF j = at THEN Blank(table[r][1].tag) ELSE table[r][j - 1]
  <2>1. table[r] \in Seq(Cell) /\ Len(table[r]) = w /\ at \in 1 .. Len(table[r]) + 1
    BY <1>1, <1>2, RowsTyped DEF GradesTables, Rectangular
  <2>2. table[r][1].tag \in {"td", "th"}
    BY <1>1, <1>2, RowsTyped
  <2>3. Blank(table[r][1].tag) \in Cell
    BY <2>2, BlankTyped
  <2>4. row(r) \in Seq(Cell) /\ Inserted(row(r), table[r], at, Blank(table[r][1].tag))
    BY <2>1, <2>3, InsertedAt
  <2>5. QED
    BY <2>1, <2>4 DEF Inserted
<1> HIDE DEF row
<1>3. /\ new \in [DOMAIN table -> Seq(Cell)] /\ new \in Seq(Seq(Cell))
      /\ Rectangular(new) /\ Width(new) = w + 1
  BY <1>1, <1>2, Relined
<1>4. place \in [1..w -> 1 .. w + 1]
  BY <1>1
<1>5. ASSUME NEW r \in DOMAIN table, NEW c \in 1..w PROVE new[r][place[c]] = table[r][c]
  <2>1. place[c] \in 1 .. w + 1 /\ place[c] # at /\ (place[c] < at <=> c < at)
    BY <1>1
  <2>2. place[c] = c \/ (c >= at /\ place[c] - 1 = c)
    BY <1>1
  <2>3. row(r)[place[c]] = table[r][c]
    BY <1>1, <1>2, <2>1, <2>2
  <2>4. QED
    BY <2>3
<1>6. ASSUME NEW r \in DOMAIN table, NEW d \in 1 .. w + 1, new[r][d].heading # "none"
      PROVE  \E c \in 1..w : place[c] = d
  <2>1. d # at
    <3>1. row(r)[at] = Blank(table[r][1].tag)
      BY <1>1, <1>2
    <3>2. Blank(table[r][1].tag).heading = "none"
      BY DEF Blank
    <3>3. new[r][d] = row(r)[d]
      OBVIOUS
    <3>4. QED
      BY <1>6, <3>1, <3>2, <3>3
  <2>2. LET c == IF d < at THEN d ELSE d - 1 IN c \in 1..w /\ place[c] = d
    BY <1>1, <2>1
  <2>3. QED
    BY <2>2
<1>7. Carries(table, new, place)
  BY <1>3, <1>4, <1>5, <1>6 DEF Carries
<1>8. AddColumn(at) = [page EXCEPT ![Graded(page)] = new]
  BY DEF AddColumn, Relaid, TheTable, row
<1>9. QED
  BY <1>3, <1>7, <1>8, RelaidSays DEF Keeps, TheTable

(* A column of th has the same headings and texts. *)
LEMMA HeadColumnKeeps ==
  ASSUME WellFormed(page), NEW column \in Columns
  PROVE  Keeps(HeadColumn(column))
<1> DEFINE table  == page[TheTable]
           w      == Width(table)
           row(r) == [table[r] EXCEPT ![column].tag = "th"]
           new    == [r \in DOMAIN table |-> row(r)]
           place  == [c \in 1..w |-> c]
<1>1. table \in GradesTables /\ w \in Nat /\ column \in 1..w
  BY TheTableTyped, RowsTyped DEF Columns
<1>2. ASSUME NEW r \in DOMAIN table
      PROVE  /\ row(r) \in Seq(Cell) /\ Len(row(r)) = w
             /\ \A c \in 1..w : /\ row(r)[c].heading = table[r][c].heading
                              /\ row(r)[c].text = table[r][c].text
  <2> DEFINE cell == [table[r][column] EXCEPT !.tag = "th"]
  <2>1. /\ table[r] \in Seq(Cell) /\ Len(table[r]) = w /\ DOMAIN table[r] = 1..w
        /\ table[r][column] \in Cell
    BY <1>1, <1>2, RowsTyped DEF GradesTables, Rectangular
  <2>2. /\ cell \in Cell
        /\ cell.heading = table[r][column].heading /\ cell.text = table[r][column].text
    BY <2>1 DEF Cell
  <2>3. row(r) = [table[r] EXCEPT ![column] = cell]
    OBVIOUS
  <2> HIDE DEF cell
  <2>4. QED
    BY <1>1, <2>1, <2>2, <2>3
<1> HIDE DEF row
<1>3. /\ new \in [DOMAIN table -> Seq(Cell)] /\ new \in Seq(Seq(Cell))
      /\ Rectangular(new) /\ Width(new) = w
  BY <1>1, <1>2, Relined
<1>4. place \in [1..w -> 1..w] /\ \A d \in 1..w : place[d] = d
  OBVIOUS
<1>5. Carries(table, new, place)
  BY <1>2, <1>3, <1>4 DEF Carries
<1>6. HeadColumn(column) = [page EXCEPT ![Graded(page)] = new]
  BY DEF HeadColumn, Relaid, TheTable, row
<1>7. QED
  BY <1>3, <1>5, <1>6, RelaidSays DEF Keeps, TheTable

(* A table without a header is not taken for the grades table. *)
LEMMA AddTableKeeps ==
  ASSUME WellFormed(page), NEW at \in 1 .. Len(page) + 1
  PROVE  Keeps(AddTable(at))
<1> DEFINE menu  == <<<<Blank("td")>>>>
           other == AddTable(at)
           t     == Graded(page)
           to    == IF t < at THEN t ELSE t + 1
<1>1. /\ page \in Seq(Seq(Seq(Cell))) /\ t \in 1..Len(page) /\ Len(page) \in Nat
      /\ page[t] \in GradesTables
      /\ \A s \in 1..Len(page) : Headers(page[s]) # {} <=> s = t
  <2>1. page \in Seq(Seq(Seq(Cell)))
    BY DEF WellFormed
  <2>2. DOMAIN page = 1..Len(page) /\ Len(page) \in Nat
    BY <2>1
  <2>3. page[t] \in GradesTables /\ Headers(page[t]) # {}
    BY TheTableTyped DEF TheTable, GradesTables
  <2>4. QED
    BY <2>1, <2>2, <2>3, TableFound
<1>2. menu \in Seq(Seq(Cell)) /\ Headers(menu) = {}
  <2>1. Blank("td") \in Cell /\ Blank("td").heading = "none"
    BY BlankTyped
  <2>2. \A r \in DOMAIN menu : r = 1 /\ \A i \in DOMAIN menu[1] : menu[1][i].heading = "none"
    BY <2>1
  <2>3. QED
    BY <2>1, <2>2 DEF Headers, IsHeader
<1> HIDE DEF menu
<1>3. /\ other \in Seq(Seq(Seq(Cell))) /\ Len(other) = Len(page) + 1
      /\ \A j \in 1 .. Len(page) + 1 :
           other[j] = IF j < at THEN page[j] ELSE IF j = at THEN menu ELSE page[j - 1]
  <2>1. other \in Seq(Seq(Seq(Cell))) /\ Inserted(other, page, at, menu)
    BY <1>1, <1>2, InsertedAt DEF AddTable, menu
  <2>2. QED
    BY <2>1 DEF Inserted
<1> HIDE DEF other
<1>4. to \in 1..Len(other) /\ other[to] = page[t] /\ DOMAIN other = 1..Len(other)
  <2>1. DOMAIN other = 1..Len(other)
    BY <1>3
  <2>2. CASE t < at
    BY <1>1, <1>3, <2>1, <2>2
  <2>3. CASE t >= at
    <3>1. to = t + 1 /\ to \in 1 .. Len(page) + 1 /\ to # at /\ ~ (to < at) /\ to - 1 = t
      BY <1>1, <2>3
    <3>2. QED
      BY <1>3, <2>1, <3>1
  <2>4. QED
    BY <1>1, <2>2, <2>3
<1>a. to \in Int /\ at \in Int /\ (t < at => to = t) /\ (t >= at => to = t + 1)
  BY <1>1
<1> HIDE DEF to
<1>5. ASSUME NEW s \in DOMAIN other PROVE Headers(other[s]) # {} <=> s = to
  <2>1. CASE s = at
    <3>1. Headers(other[s]) = {} /\ s # to
      BY <1>1, <1>2, <1>3, <1>4, <1>a, <2>1
    <3>2. QED
      BY <3>1
  <2>2. CASE s < at
    <3>1. s \in 1..Len(page) /\ other[s] = page[s] /\ s \in Int
      BY <1>1, <1>3, <1>4, <2>2
    <3>2. s = t <=> s = to
      BY <1>1, <1>a, <2>2, <3>1
    <3>3. QED
      BY <1>1, <3>1, <3>2
  <2>3. CASE s > at
    <3>0. s \in 1 .. Len(page) + 1 /\ ~ (s < at) /\ s # at
      BY <1>3, <1>4, <2>3
    <3>1. s - 1 \in 1..Len(page) /\ s \in Int
      BY <1>1, <2>3, <3>0
    <3>2. other[s] = page[s - 1]
      BY <1>3, <3>0
    <3>3. s - 1 = t <=> s = to
      BY <1>1, <1>a, <2>3, <3>1
    <3>4. QED
      BY <1>1, <3>1, <3>2, <3>3
  <2>4. QED
    <3>1. s \in Int
      BY <1>3, <1>4
    <3>2. QED
      BY <1>a, <2>1, <2>2, <2>3, <3>1
<1>6. Graded(other) = to
  BY <1>4, <1>5 DEF Graded
<1>7. WellFormed(other)
  <2>1. \E i \in DOMAIN other : \A s \in DOMAIN other : Headers(other[s]) # {} <=> s = i
    <3>1. to \in DOMAIN other
      BY <1>4
    <3>2. \A s \in DOMAIN other : Headers(other[s]) # {} <=> s = to
      BY <1>5
    <3>3. QED
      BY <3>1, <3>2
  <2>2. other[Graded(other)] \in GradesTables
    BY <1>1, <1>4, <1>6
  <2>3. QED
    BY <1>3, <2>1, <2>2 DEF WellFormed, GradesTables
<1>8. QED
  BY <1>4, <1>6, <1>7 DEF Keeps, TheTable, other

-----------------------------------------------------------------------------
(* The page stays well-formed, and grades is what parseGrades makes of it.  *)
Inv == WellFormed(page) /\ grades = ParseGrades(page)

(* Every relayout keeps what the page says. *)
LEMMA RelayoutKeeps ==
  ASSUME WellFormed(page), Relayout
  PROVE  WellFormed(page') /\ GradesOf(page'[TheTable']) = GradesOf(page[TheTable])
<1>1. CASE \E from, to \in Columns : page' = MoveColumn(from, to)
  BY <1>1, MoveColumnKeeps DEF Keeps, TheTable
<1>2. CASE \E at \in 1 .. Width(page[TheTable]) + 1 : page' = AddColumn(at)
  BY <1>2, AddColumnKeeps DEF Keeps, TheTable
<1>3. CASE \E column \in Columns : page' = HeadColumn(column)
  BY <1>3, HeadColumnKeeps DEF Keeps, TheTable
<1>4. CASE \E at \in 1 .. Len(page) + 1 : page' = AddTable(at)
  BY <1>4, AddTableKeeps DEF Keeps, TheTable
<1>5. QED
  BY <1>1, <1>2, <1>3, <1>4 DEF Relayout

(* Every page reached is well formed and the grades are those the code       *)
(* reads from it.                                                            *)
LEMMA Invariance == Spec => []Inv
<1>1. Init => Inv
  BY PagesAssumption DEF Init, Inv
<1>2. Inv /\ [Next]_vars => Inv'
  <2>1. CASE Next
    BY <2>1, RelayoutKeeps DEF Next, Inv
  <2>2. CASE UNCHANGED vars
    BY <2>2 DEF vars, Inv
  <2>3. QED
    BY <2>1, <2>2
<1>3. QED
  BY <1>1, <1>2, PTL DEF Spec

(* A parse of an aligned page gives what the page says. *)
LEMMA InvReads == Inv => ReadsWhatIsWritten
BY ReadsGrades DEF Inv, ReadsWhatIsWritten, Aligned, TheTable

(* For any pages, with any columns and tables: parseGrades gives one grade   *)
(* for each row with a title, in the order of the page, with what stands     *)
(* under each heading (parser.go:219-281), unless th in rows shift it.       *)
THEOREM Reads == Spec => []ReadsWhatIsWritten
BY Invariance, InvReads, PTL

(* For any pages: columns moved, added or made th behind the headings, and   *)
(* tables added, change nothing of what is read (README.md:15).              *)
THEOREM LayoutsAlike == Spec => LayoutDoesNotMatter
<1>1. Inv /\ Inv' /\ [Next]_vars => [Aligned /\ Aligned' => grades' = grades]_vars
  <2>1. ASSUME Inv, Inv', Next, Aligned, Aligned' PROVE grades' = grades
    <3>1. grades = GradesOf(page[TheTable])
      BY <2>1, InvReads DEF ReadsWhatIsWritten
    <3>2. grades' = GradesOf(page'[TheTable'])
      BY <2>1, ReadsGrades DEF Inv, Aligned, TheTable
    <3>3. QED
      BY <2>1, <3>1, <3>2, RelayoutKeeps DEF Inv, Next
  <2>2. QED
    BY <2>1
<1>2. QED
  BY <1>1, Invariance, PTL DEF Spec, LayoutDoesNotMatter
=============================================================================
