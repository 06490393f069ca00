----------------------------- MODULE ByteCodeCache -----------------------------
(***************************************************************************)
(* jshtml::load_file (src/js_extend17.cpp): engines of the pool, each on   *)
(* the thread of its request, load a page, which somebody may edit         *)
(* meanwhile.  What the page was compiled to is kept for all of them in    *)
(* bytecodemap, with the time of modification that stat gave before the    *)
(* page was read; it is used for as long as stat gives that time again.    *)
(* The page is read in a loop, of which each turn takes a line here, and   *)
(* which ends when a read is short: so it may be a mixture of what the     *)
(* file contained from one turn to the next.                               *)
(* One page: the entries of two pages have nothing in common but the lock. *)
(***************************************************************************)
EXTENDS JsHtml

CONSTANTS
  Engine,              \* the instances of the pool
  Html,                \* the pages that the file may contain: of each its lines
  Empty,               \* the one without any
  NewPage,             \* those that it is given by an edit
  MaxLoads,            \* loads altogether
  MaxEdits,            \* edits of the file
  MaxTime,             \* the last second
  None

Page == DOMAIN Html
ASSUME PageAssumption == NewPage \subseteq Page /\ None \notin Page /\ Empty \in Page /\ Html[Empty] = <<>>
ASSUME HtmlAssumption == \A p \in Page : Html[p] \in Seq(Seq(Char))
ASSUME TimeAssumption == MaxTime \in Nat

VARIABLES
  text,                \* the content of the file, None if there is no file
  mtime, now,          \* its time of modification and the clock, in seconds
  bytecode,            \* bytecodemap: the entry of the page, if it has one
  pc, st, code,        \* of an engine: where it is, what stat gave, what the file contained in each of the reads of
                       \* the page whose script it has
  private,             \* the line table that the engine's context points at: that of the entry or its own
  loads, edits,
  held,                \* history: what the file contained since the engine's stat
  mixed,               \* history: the seconds in which the file had two contents with the same time
  replaced             \* history: the engines whose entry was replaced after an edit

file == <<text, mtime, now, edits>>
engine == <<pc, st, code, private>>
vars == <<text, mtime, now, bytecode, pc, st, code, private, loads, edits, held, mixed, replaced>>

Init ==
  /\ text \in Page
  /\ mtime = 0 /\ now = 1
  /\ bytecode = {}
  /\ pc = [e \in Engine |-> "idle"]
  /\ st = [e \in Engine |-> 0]
  /\ code = [e \in Engine |-> <<>>]
  /\ private = [e \in Engine |-> "none"]
  /\ loads = 0 /\ edits = 0
  /\ held = [e \in Engine |-> {}] /\ mixed = {} /\ replaced = {}

\* What the reads of a page may have seen, without the short one at its end, and the page that they make.
Blocks ==
  {b \in UNION {[1..n -> Page] : n \in UNION {0..Len(Html[p]) : p \in Page}} : \A k \in DOMAIN b : k <= Len(Html[b[k]])}
PageOf(b) == [k \in DOMAIN b |-> Html[b[k]][k]]

\* What each page is converted to.
Script == [b \in Blocks |-> CodeConvert(PageOf(b))]
LinesOf == [b \in Blocks |-> rlines(Script[b].out)]
Compiles == [b \in Blocks |-> Compilable(Script[b])]

\* What reading the file gives; a file that is gone reads as an empty one.
Content == IF text = None THEN Empty ELSE text

----------------------------------------------------------------------------
(* load_file *)

\* The engine goes back to the pool, which resets it.
Fire(e) ==
  /\ pc' = [pc EXCEPT ![e] = "idle"]
  /\ code' = [code EXCEPT ![e] = <<>>]
  /\ private' = [private EXCEPT ![e] = "none"]
  /\ replaced' = replaced \ {e}

Stat(e) ==
  /\ pc[e] = "idle" /\ loads < MaxLoads
  /\ loads' = loads + 1
  /\ text # None
  /\ st' = [st EXCEPT ![e] = mtime]
  /\ held' = [held EXCEPT ![e] = {text}]
  /\ pc' = [pc EXCEPT ![e] = "lookup"]
  /\ UNCHANGED <<file, bytecode, code, private, mixed, replaced>>

\* stat fails: the page is answered with 500.
NoStat(e) ==
  /\ pc[e] = "idle" /\ loads < MaxLoads
  /\ loads' = loads + 1
  /\ text = None
  /\ UNCHANGED <<file, bytecode, engine, held, mixed, replaced>>

\* The entry, if it is of the file that stat has seen.
Valid(e) == {c \in bytecode : c.tm = st[e]}

\* Under the read lock; the code of the entry is decoded, its line table is pointed at.
Hit(e) ==
  /\ pc[e] = "lookup"
  /\ \E c \in Valid(e) : code' = [code EXCEPT ![e] = c.code]
  /\ private' = [private EXCEPT ![e] = "entry"]
  /\ pc' = [pc EXCEPT ![e] = "execute"]
  /\ UNCHANGED <<file, bytecode, st, loads, held, mixed, replaced>>

Miss(e) ==
  /\ pc[e] = "lookup"
  /\ Valid(e) = {}
  /\ pc' = [pc EXCEPT ![e] = "read"]
  /\ UNCHANGED <<file, bytecode, st, code, private, loads, held, mixed, replaced>>

\* A turn of the loop that reads the file, or what is left of it.  One that is moved or removed meanwhile is still
\* read to its end, as if that had been before; so what is read on is a file that is written in its place.
Read(e) ==
  /\ pc[e] = "read"
  /\ text # None \/ code[e] = <<>>
  /\ code' = [code EXCEPT ![e] = Append(@, Content)]
  /\ pc' = [pc EXCEPT ![e] = IF Len(Html[Content]) <= Len(code[e]) THEN "compile" ELSE "read"]
  /\ UNCHANGED <<file, bytecode, st, private, loads, held, mixed, replaced>>

\* What was read is converted and compiled.  The errors of the compiler are told before the table of the page is pointed at.
Compile(e) ==
  /\ pc[e] = "compile"
  /\ Compiles[Front(code[e])]
  /\ pc' = [pc EXCEPT ![e] = "execute"]
  /\ private' = [private EXCEPT ![e] = "own"]
  /\ UNCHANGED <<file, bytecode, st, code, loads, held, mixed, replaced>>

NoCompile(e) ==
  /\ pc[e] = "compile"
  /\ ~Compiles[Front(code[e])]
  /\ Fire(e)
  /\ UNCHANGED <<file, bytecode, st, loads, held, mixed>>

\* The script defines onrequest and runs what comes before it, successfully ...
Execute(e) ==
  /\ pc[e] = "execute"
  /\ pc' = [pc EXCEPT ![e] = IF private[e] = "own" THEN "publish" ELSE "call"]
  /\ UNCHANGED <<file, bytecode, st, code, private, loads, held, mixed, replaced>>

\* ... or not.
NoExecute(e) ==
  /\ pc[e] = "execute"
  /\ Fire(e)
  /\ UNCHANGED <<file, bytecode, st, loads, held, mixed>>

\* Fault: the time that the file has by now.
EntryNow(e) == [tm |-> mtime, code |-> code[e], rlines |-> LinesOf[Front(code[e])]]
\* The time that goes with the code is that of the stat.
EntryOf(e) == [tm |-> st[e], code |-> code[e], rlines |-> LinesOf[Front(code[e])]]

\* Another load of the same file: stat gave the same time to both, and nothing was written since or in that second.
SameFile(o, e) == st[o] = st[e] /\ st[e] \notin mixed /\ \E p \in Page : held[o] = {p}

\* Under the write lock.
Publish(e) ==
  /\ pc[e] = "publish"
  /\ bytecode' = {EntryOf(e)}
  /\ pc' = [pc EXCEPT ![e] = "bind"]
  /\ replaced' = (replaced \cup {o \in Engine : (private[o] = "entry" \/ pc[o] = "bind") /\ ~SameFile(o, e)}) \ {e}
  /\ UNCHANGED <<file, st, code, private, loads, held, mixed>>

\* Fault: the table on the stack of load_file remains the one pointed at.
BindNothing(e) ==
  /\ pc[e] = "bind"
  /\ pc' = [pc EXCEPT ![e] = "call"]
  /\ UNCHANGED <<file, bytecode, st, code, private, loads, held, mixed, replaced>>
\* Without the lock: whatever is the entry of the page by now.
Bind(e) ==
  /\ pc[e] = "bind"
  /\ private' = [private EXCEPT ![e] = "entry"]
  /\ pc' = [pc EXCEPT ![e] = "call"]
  /\ UNCHANGED <<file, bytecode, st, code, loads, held, mixed, replaced>>

\* The selector calls onrequest and answers; the engine is given back.
Call(e) ==
  /\ pc[e] = "call"
  /\ Fire(e)
  /\ UNCHANGED <<file, bytecode, st, loads, held, mixed>>

----------------------------------------------------------------------------
(* The file *)

Edit ==
  /\ edits < MaxEdits
  /\ edits' = edits + 1
  /\ text' \in (NewPage \cup {None}) \ {text}
  /\ mtime' = now
  /\ mixed' = IF mtime = now THEN mixed \cup {now} ELSE mixed
  /\ held' = [e \in Engine |-> IF pc[e] = "idle" THEN held[e] ELSE held[e] \cup {Content'}]
  /\ UNCHANGED <<now, bytecode, engine, loads, replaced>>

Tick ==
  /\ now < MaxTime
  /\ now' = now + 1
  /\ UNCHANGED <<text, mtime, edits, bytecode, engine, loads, held, mixed, replaced>>

Next ==
  \/ Edit \/ Tick
  \/ \E e \in Engine : \/ Stat(e) \/ NoStat(e) \/ Hit(e) \/ Miss(e) \/ Read(e) \/ Compile(e) \/ NoCompile(e)
                       \/ Execute(e) \/ NoExecute(e) \/ Publish(e) \/ Bind(e) \/ Call(e)

Spec == Init /\ [][Next]_vars

----------------------------------------------------------------------------
(* Properties *)

PCs == {"idle", "lookup", "read", "compile", "execute", "publish", "bind", "call"}
Runs(e) == pc[e] \in {"execute", "publish", "bind", "call"}

\* Reads of full blocks, and those that a short one has ended.
Full(m) == \A k \in 1..Len(m) : k <= Len(Html[m[k]])
Reading(m) == m # <<>> /\ (\A k \in 1..Len(m) - 1 : k <= Len(Html[m[k]])) /\ Len(Html[m[Len(m)]]) < Len(m)

\* The variables have the values the code gives them: an engine has read a page to its end when it compiles it, and
\* points at a line table exactly while it has a script: at its own until the script is in the map, and at that of
\* the map from then on.
TypeOK ==
  /\ text \in Page \cup {None} /\ mtime \in Nat /\ now \in Nat /\ mtime <= now
  /\ \A c \in bytecode : c.tm \in Nat /\ c.code \in Seq(Page) /\ Reading(c.code) /\ c.rlines = LinesOf[Front(c.code)]
  /\ \A c, d \in bytecode : c = d
  /\ pc \in [Engine -> PCs] /\ st \in [Engine -> Nat] /\ code \in [Engine -> Seq(Page)]
  /\ private \in [Engine -> {"none", "own", "entry"}]
  /\ \A e \in Engine :
       /\ pc[e] \in {"idle", "lookup"} => code[e] = <<>>
       /\ pc[e] = "read" => Full(code[e])
       /\ pc[e] = "compile" \/ Runs(e) => Reading(code[e])
       /\ pc[e] \in {"idle", "lookup", "read", "compile"} <=> private[e] = "none"
       /\ pc[e] \in {"publish", "bind"} => private[e] = "own"
       /\ pc[e] = "call" => private[e] = "entry"
       /\ private[e] = "entry" \/ pc[e] = "bind" => bytecode # {}
  /\ held \in [Engine -> SUBSET Page] /\ mixed \subseteq Nat /\ replaced \subseteq Engine

\* A request is answered by a script of what the file contained since the load began, whoever compiled it, and in
\* whatever order several engines that compiled it wrote the entry: by the file as it is if it was not edited since,
\* and else by what it contained each time that the page was read on, which is as much as the loop can promise.
\* Unless the file was given two contents within the second that stat reports.
FreshCode == \A e \in Engine : Runs(e) => (\A k \in DOMAIN code[e] : code[e][k] \in held[e]) \/ st[e] \in mixed

\* The line tables that the engine may point at.  Its own is on the stack of load_file.
Tables(e) ==
  CASE private[e] = "entry" -> {c.rlines : c \in bytecode}
    [] private[e] = "own" /\ pc[e] # "call" -> {LinesOf[Front(code[e])]}
    [] OTHER -> {}

\* While a script runs, its engine points at a table that there is, and in which the error reporter finds the line of
\* the page for each row of that script, if no row above has a carriage return, which is another line to the
\* compiler; also when other engines write the entry, unless they have loaded another file than it, by the time of
\* stat, or the file was edited since.
Reported ==
  \A e \in Engine : Runs(e) /\ e \notin replaced =>
    \E t \in Tables(e) : LET out == Script[Front(code[e])].out IN
      \A i \in DOMAIN out : FirstLine(out, i) = i => LineTold(t, i) = out[i].no

\* A page that is run has been translated faithfully, each line of it to rows that tell its number: see JsHtml.
Translated == [b \in Blocks |-> Faithful(PageOf(b), Script[b])]
Converted == \A e \in Engine : Runs(e) => Translated[Front(code[e])]
=============================================================================
