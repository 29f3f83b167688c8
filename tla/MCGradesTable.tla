--------------------------- MODULE MCGradesTable ---------------------------
(* Instances of GradesTable for TLC. *)
EXTENDS GradesTable

Heading(tag, heading) == [tag |-> tag, heading |-> heading, text |-> heading]
Entry(text) == [tag |-> "td", heading |-> "none", text |-> text]

(* A header of th or of td, over a full row, a row without a title and a    *)
(* row with nothing but its title.                                          *)
Rows(tag) ==
  << <<Heading(tag, "course"), Heading(tag, "title"), Heading(tag, "evaluation")>>,
     <<Entry("1"), Entry("algebra"), Entry("good")>>,
     <<Entry("2"), Entry(""), Entry("bad")>>,
     <<Entry(""), Entry("logic"), Entry("")>> >>

(* The same without the column of the course. *)
Narrow(tag) == [r \in 1..4 |-> Tail(Rows(tag)[r])]

(* The header in the second row, below a caption of empty cells. *)
Captioned(tag) == <<<<Entry(""), Entry(""), Entry("")>>>> \o Rows(tag)

MCTexts == Headings \cup {"", "1", "2", "algebra", "logic", "good", "bad"}

MCPages == {<<table>> : table \in {Rows("th"), Rows("td"), Narrow("th"), Captioned("th")}}
=============================================================================
