---- MODULE MCByteCodeCache ----
EXTENDS ByteCodeCache, TLC

CONSTANTS e1, e2

Engines == Permutations(Engine)

MCChar == {"<", "%", ">", "@", "=", "/", "*", ".", "'", "x", "i", "h", "e", "\r"}
MCEmpty == 0

\* A line of code, which two parts make, and its sequel.
TwoLines(a, b) == << <<"<", "%">> \o a \o b, <<"'", "%", ">">> >>
Close == <<"%", ">">>
BeginComment == <<"/", "*">>
EndComment == <<"*", "/">>

\* The page without lines, one with a line before the function, one with a carriage return in its code, and one with
\* another in its HTML; and those in which a quotation mark, a comment or nothing hides the end of the code, and what
\* is begun goes on in the next line.
MCHtml ==
  << << <<"<", "%", "@", "i", "%", ">">>, <<"h", "<", "%", "=", "e", "%", ">">> >>,
     << <<"<", "%", "x", "\r">>, <<"x", "%", ">", "h">> >>,
     << <<"<", "%", "x", "\r">>, <<"%", ">", "h", "\r">> >>,
     TwoLines(<<"'">>, Close), TwoLines(Close, <<"'">>), TwoLines(BeginComment, Close),
     TwoLines(BeginComment, EndComment) >> @@ (0 :> <<>>)
MCWritten == {0, 1}
====
