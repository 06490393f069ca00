--------------------------------- MODULE JsHtml ---------------------------------
(***************************************************************************)
(* jshtml::code_convert (src/js_extend17.cpp): a page of HTML with code in *)
(* <% %> is made into the text of a script.  A page is a sequence of       *)
(* lines, a line a sequence of characters; what is written is a sequence   *)
(* of rows, each of them a line of the script, with the line of the page   *)
(* that the table rlines has for it.                                       *)
(***************************************************************************)
EXTENDS Integers, Sequences, FiniteSets, SequencesExt

CONSTANT Char          \* the characters of the pages
ASSUME CharAssumption == {"<", "%", ">", "@", "=", "/", "*", "."} \subseteq Char

npos == -1

(***************************************************************************)
(* code_find: where the code ends.  A position counts from 0, as there.    *)
(***************************************************************************)

\* Fault: nothing hides the pattern, neither a quotation mark nor a comment.
TurnPlain(cs, c) == <<"normal", <<c>> >>

\* The status after a character of code, and what is appended to result.  PLACEHOLDER is ".": a
\* character the pattern does not have.
Turn(cs, c) ==
  CASE cs = "normal"  -> CASE c = "'"  -> <<"apos", <<c>> >>
                           [] c = "\"" -> <<"quot", <<c>> >>
                           [] c = "/"  -> <<"comment_preview", <<c>> >>
                           [] OTHER    -> <<"normal", <<c>> >>
    [] cs \in {"apos", "quot"} ->
         CASE c = "\\" -> <<IF cs = "apos" THEN "apos_t" ELSE "quot_t", <<"." >> >>
           [] c = (IF cs = "apos" THEN "'" ELSE "\"") -> <<"normal", <<c>> >>
           [] OTHER -> <<cs, <<"." >> >>
    [] cs = "apos_t" -> <<"apos", <<"." >> >>
    [] cs = "quot_t" -> <<"quot", <<"." >> >>
    [] cs = "comment_preview" ->
         CASE c = "*" -> <<"block_comment", <<c>> >>
           [] c = "/" -> <<"line_comment", <<>> >>
           [] OTHER   -> <<"normal", <<"/", c>> >>
    [] cs = "block_comment" ->
         IF c = "*" THEN <<"block_comment_closing", <<>> >> ELSE <<cs, <<"." >> >>
    [] cs = "block_comment_closing" ->
         CASE c = "/" -> <<"normal", <<"*", "/">> >>
           [] c = "*" -> <<cs, <<"." >> >>
           [] OTHER   -> <<"block_comment", <<".", "." >> >>
    [] cs = "line_comment" -> <<cs, <<>> >>

\* A slash that begins no comment is copied a second time: history, as is odd.
Twice(cs, c) == cs = "comment_preview" /\ c \notin {"*", "/"}

\* The pattern is looked for in result when normal code has been appended to it.
Found(a, cs, res, odd) ==
  [cs |-> cs, res |-> res, odd |-> odd,
   at |-> IF a.cs = "normal" /\ cs = "normal" /\ Len(res) > 1 /\ res[Len(res) - 1] = "%" /\ res[Len(res)] = ">"
            THEN Len(res) - 2 ELSE npos]
Pushed(a, t, c) == Found(a, t[1], a.res \o t[2], a.odd \/ Twice(a.cs, c))
\* One character.
Scan(a, c) == IF a.at # npos THEN a ELSE Pushed(a, Turn(a.cs, c), c)
\* What the search knows after k characters.
Scanned(cs, code) ==
  LET f[k \in 0..Len(code)] ==
        IF k = 0 THEN [cs |-> cs, res |-> <<>>, odd |-> FALSE, at |-> npos] ELSE Scan(f[k - 1], code[k])
  IN f

\* Where it was found in the line, and the status that the next search begins with.  A line that ends within what
\* begins or ends a comment leaves the rest of it to the next search, which copies it, too.
Position(a, skip) ==
  [at |-> IF a.at = npos THEN npos ELSE a.at + skip, cs |-> IF a.cs = "line_comment" THEN "normal" ELSE a.cs,
   odd |-> a.odd \/ a.cs \in {"comment_preview", "block_comment_closing"}]
CodeFind(line, skip, cs) ==
  LET code == SubSeq(line, skip + 1, Len(line))
  IN Position(Scanned(cs, code)[Len(code)], skip)

\* string::find of "<%".
HtmlFind(line, skip) ==
  Min({i \in skip + 1 .. Len(line) - 1 : line[i] = "<" /\ line[i + 1] = "%"} \cup {Len(line) + 1}) - 1

(***************************************************************************)
(* code_convert.  a.s is where in the page it is, a.skip where in the line *)
(* and a.out what has been written; a.odd, history, says that a character  *)
(* was copied twice, so that positions may be wrong.                       *)
(***************************************************************************)

\* closed: the text was ended by <% or %>; nl: a line break is written to the response.
Row(kind, text, no, closed, nl) == [kind |-> kind, text |-> text, no |-> no, closed |-> closed, nl |-> nl]
Substr(line, from, to) == SubSeq(line, from + 1, IF to < Len(line) THEN to ELSE Len(line))

\* The rest of the line is one row, and the line is done with.
RestOfLine(a, kind, line, no) ==
  [a EXCEPT !.out = Append(@, Row(kind, Substr(line, a.skip, Len(line)), no, FALSE, kind = "html")),
            !.skip = Len(line), !.stop = TRUE]

\* <%@ ... %>, which goes before the function.  f: what code_find has found.
InitFound(a, line, no, f) ==
  IF f.at = npos THEN RestOfLine([a EXCEPT !.cs = f.cs, !.odd = @ \/ f.odd], "init", line, no)
  ELSE [a EXCEPT !.cs = f.cs, !.odd = @ \/ f.odd, !.s = "html", !.skip = f.at + 2,
          !.out = @ \o << Row("init", Substr(line, a.skip, f.at), no, TRUE, FALSE), Row("open", <<>>, no, FALSE, FALSE) >>]
InitPart(a, line, no) ==
  IF a.s # "init" THEN a ELSE InitFound(a, line, no, CodeFind(line, a.skip, a.cs))

HtmlFound(a, line, no, at) ==
  IF at = Len(line) THEN RestOfLine(a, "html", line, no)
  ELSE [a EXCEPT !.s = "code", !.skip = at + 2, !.out = Append(@, Row("html", Substr(line, a.skip, at), no, TRUE, FALSE))]
\* substr throws if it is to begin behind the end.
HtmlPart(a, line, no) ==
  IF a.s # "html" \/ a.stop THEN a
  ELSE IF a.skip > Len(line) THEN [a EXCEPT !.stop = TRUE, !.thrown = TRUE]
  ELSE HtmlFound(a, line, no, HtmlFind(line, a.skip))

\* <% ... %> or <%= ... %>; a line break is written if this is the end of the line.
CodeRows(a, line, no, at) ==
  IF a.skip < Len(line) /\ line[a.skip + 1] = "="
  THEN << Row("expr", Substr(line, a.skip + 1, at), no, TRUE, Len(line) <= at + 2) >>
  ELSE << Row("code", Substr(line, a.skip, at), no, TRUE, FALSE) >>
       \o IF at + 2 = Len(line) THEN << Row("newline", <<>>, no, FALSE, TRUE) >> ELSE <<>>
CodeFound(a, line, no, f) ==
  IF f.at = npos THEN RestOfLine([a EXCEPT !.cs = f.cs, !.odd = @ \/ f.odd], "code", line, no)
  ELSE [a EXCEPT !.cs = f.cs, !.odd = @ \/ f.odd, !.s = "html", !.skip = f.at + 2,
          !.out = @ \o CodeRows(a, line, no, f.at)]
CodePart(a, line, no) ==
  IF a.s # "code" \/ a.stop THEN a ELSE CodeFound(a, line, no, CodeFind(line, a.skip, a.cs))

\* Where a line begins.
LineBegin(a, line, no) ==
  IF a.s # "0" THEN [a EXCEPT !.skip = 0]
  ELSE IF IsPrefix(<<"<", "%", "@">>, line) THEN [a EXCEPT !.s = "init", !.skip = 3]
  ELSE [a EXCEPT !.s = "html", !.skip = 0, !.out = Append(@, Row("open", <<>>, no, FALSE, FALSE))]

\* The inner loop; every turn but the last takes at least a character.
Around(a, line, no) ==
  IF a.skip >= Len(line) \/ a.stop THEN a
  ELSE CodePart(HtmlPart(InitPart(a, line, no), line, no), line, no)
Turns(a, line, no) ==
  LET f[k \in 0..Len(line)] ==
        IF k = 0 THEN [LineBegin(a, line, no) EXCEPT !.stop = a.thrown] ELSE Around(f[k - 1], line, no)
  IN f
ConvertLine(a, line, no) == Turns(a, line, no)[Len(line)]

NothingYet == [s |-> "0", cs |-> "normal", skip |-> 0, stop |-> FALSE, thrown |-> FALSE, odd |-> FALSE, out |-> <<>>]
Converting(page) ==
  LET f[no \in 0..Len(page)] == IF no = 0 THEN NothingYet ELSE ConvertLine(f[no - 1], page[no], no)
  IN f
CodeConvert(page) == Converting(page)[Len(page)]

Lines(out) == [i \in DOMAIN out |-> out[i].no]
\* Fault: the line that opens the function is not entered.
rlinesShort(out) == Lines(SelectSeq(out, LAMBDA row : row.kind # "open"))
\* The table that goes with the script.
rlines(out) == Lines(out)

\* A carriage return stands in the script as it does in the page, and is the end of a line to its compiler.
Returns(text) == {k \in DOMAIN text : text[k] = "\r"}

\* The line of the script in which a row begins.
FirstLine(out, i) == i + Cardinality(UNION {{j} \X Returns(out[j].text) : j \in 1..i - 1})

\* script_js_error_report: the line that is told for one of the script.
LineTold(table, n) == IF n \in 1..Len(table) THEN table[n] ELSE n

\* The script can be compiled only if the function that is closed at its end was opened, and no line ends within the
\* literals that HTML is made into.
Compilable(a) ==
  /\ ~a.thrown
  /\ \E i \in DOMAIN a.out : a.out[i].kind = "open"
  /\ \A i \in DOMAIN a.out : a.out[i].kind = "html" => Returns(a.out[i].text) = {}

(***************************************************************************)
(* What a translation should be.                                           *)
(***************************************************************************)

\* The characters of the page that a row stands for.
Source(row) ==
  CASE row.kind = "html" -> row.text \o IF row.closed THEN <<"<", "%">> ELSE <<>>
    [] row.kind = "expr" -> <<"=">> \o row.text \o <<"%", ">">>
    [] row.kind \in {"init", "code"} -> row.text \o IF row.closed THEN <<"%", ">">> ELSE <<>>
    [] OTHER -> <<>>

\* All that the rows of a line stand for, in their order.
TextUpTo(out, no) ==
  LET f[k \in 0..Len(out)] ==
        IF k = 0 THEN <<>> ELSE f[k - 1] \o (IF out[k].no = no THEN Source(out[k]) ELSE <<>>)
  IN f
Text(out, no) == TextUpTo(out, no)[Len(out)]
\* What is dropped at the beginning of a page.
Dropped(page, no) == IF no = 1 /\ IsPrefix(<<"<", "%", "@">>, page[1]) THEN <<"<", "%", "@">> ELSE <<>>

Quotes(text, k) == Cardinality({j \in 1..k - 1 : text[j] = "'"})

\* Code ends at the first %> that is not in quotes.
EndsRight(text) ==
  /\ \A k \in 1..Len(text) - 1 : text[k] = "%" /\ text[k + 1] = ">" => Quotes(text, k) % 2 = 1
  /\ Quotes(text, Len(text) + 1) % 2 = 0

\* Rows are in the order of their lines, nothing is lost, added or moved to another line, a line that ends outside of
\* the code ends with one line break, and code that begins in normal status ends where it should.
Faithful(page, a) ==
  ~a.odd =>
    /\ ~a.thrown
    /\ \A i, j \in DOMAIN a.out : i <= j => a.out[i].no <= a.out[j].no
    /\ \A no \in DOMAIN page : Dropped(page, no) \o Text(a.out, no) = page[no]
    /\ \A i \in DOMAIN a.out : LET row == a.out[i] IN
         /\ page[row.no] # <<>> =>
              (row.nl <=> row.kind \notin {"init", "code"} /\ \A j \in DOMAIN a.out : a.out[j].no = row.no => j <= i)
         /\ /\ row.kind \in {"code", "expr"} /\ row.closed /\ i > 1 /\ a.out[i - 1].kind = "html"
            /\ \A j \in DOMAIN row.text : row.text[j] \notin {"\"", "\\", "/"}
            => EndsRight(row.text)
=============================================================================
