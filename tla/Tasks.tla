--------------------------------- MODULE Tasks ---------------------------------
(***************************************************************************)
(* The server process and its tasks: main of teapoyd (src/app/teapoyd.cc)  *)
(* as a daemon, which starts the server again whenever it ends, and the    *)
(* threads that the script of the server has started with task and         *)
(* task_once (src/sni/sys.cpp).  A task loads the script it is given,      *)
(* calls it again and again, and loads it anew when stat gives another     *)
(* time of modification.  Somebody edits the script meanwhile.             *)
(***************************************************************************)
EXTENDS Integers, FiniteSets

CONSTANTS
  Timer, Once,         \* the tasks that the server starts: with task, with task_once
  Version,             \* what the file may contain
  Good,                \* those that can be loaded
  MaxChanges,          \* edits of the file
  MaxClock,            \* the last second of the file's times
  NoScript

Task == Timer \cup Once

ASSUME TaskAssumption == Timer \cap Once = {}
ASSUME ScriptAssumption == Good \subseteq Version /\ NoScript \notin Version
ASSUME ClockAssumption == MaxClock \in Nat

VARIABLES
  parent,              \* the supervisor: none without -d
  server,              \* the server: down, running the main script, before or after it set no_exit_mode,
                       \* or staying after its return
  script, stamp,       \* the script of the tasks: what it contains, its time of modification
  clock,
  at, st0,             \* of a task: where it is and the time its script had
  eng,                 \* what its engine has loaded
  changes,
  since,               \* history: what the file contained since the task's last stat
  twice                \* history: the seconds in which the file had two contents with the same time

process == <<parent, server>>
scriptFile == <<script, stamp, clock, changes, twice>>
task == <<at, st0, eng>>
taskVars == <<process, scriptFile, task, since>>

TasksInit ==
  /\ parent \in {"none", "fork"}
  /\ server = IF parent = "fork" THEN "down" ELSE "main"
  /\ script \in Version \cup {NoScript} /\ stamp = 0 /\ clock = 1
  /\ at = [t \in Task |-> "none"]
  /\ st0 = [t \in Task |-> 0]
  /\ eng = [t \in Task |-> NoScript]
  /\ changes = 0
  /\ since = [t \in Task |-> {}] /\ twice = {}

----------------------------------------------------------------------------
(* The supervisor *)

Fork ==
  /\ parent = "fork"
  /\ parent' = "wait"
  /\ server' = "main"
  /\ UNCHANGED <<scriptFile, task, since>>

\* waitpid returns the child or, when there is none, an error: neither is 0.
Wait ==
  /\ parent = "wait" /\ server = "down"
  /\ parent' = "fork"
  /\ UNCHANGED <<server, scriptFile, task, since>>

\* The process ends, and with it its threads and their engines.
Down ==
  /\ server' = "down"
  /\ at' = [t \in Task |-> "none"]
  /\ eng' = [t \in Task |-> NoScript]
  /\ st0' = [t \in Task |-> 0]
  /\ since' = [t \in Task |-> {}]

----------------------------------------------------------------------------
(* The server *)

\* Teapoy.noexit(true) or (false), called by the main script.
NoExit ==
  /\ server \in {"main", "noexit"}
  /\ server' \in {"main", "noexit"} \ {server}
  /\ UNCHANGED <<parent, scriptFile, task, since>>

\* task and task_once: the thread is created and detached.
Start(t) ==
  /\ server \in {"main", "noexit"} /\ at[t] = "none"
  /\ at' = [at EXCEPT ![t] = "stat0"]
  /\ UNCHANGED <<process, scriptFile, st0, eng, since>>

\* The main script returns, after it has started its tasks or without having done so.
Stay ==
  /\ server = "noexit"
  /\ server' = "stay"
  /\ UNCHANGED <<parent, scriptFile, task, since>>
Exit ==
  /\ server = "main"
  /\ Down
  /\ UNCHANGED <<parent, scriptFile>>

\* Anything in the process that kills it.
Crash ==
  /\ server # "down"
  /\ Down
  /\ UNCHANGED <<parent, scriptFile>>

----------------------------------------------------------------------------
(* A task *)

Step(t, from, to) == at[t] = from /\ at' = [at EXCEPT ![t] = to]

\* Both threads begin alike.  While there is no file they sleep and try again.
Stat0(t) ==
  /\ script # NoScript
  /\ Step(t, "stat0", "load")
  /\ st0' = [st0 EXCEPT ![t] = stamp]
  /\ since' = [since EXCEPT ![t] = {script}]
  /\ UNCHANGED <<process, scriptFile, eng>>

\* While it cannot be loaded they sleep and try again: with the time they have.
Load(t) ==
  /\ script \in Good
  /\ Step(t, "load", "stat1")
  /\ eng' = [eng EXCEPT ![t] = script]
  /\ UNCHANGED <<process, scriptFile, st0, since>>

\* Fault: the first time is kept.
Stat1First(t) ==
  /\ script # NoScript
  /\ Step(t, "stat1", "call")
  /\ since' = [since EXCEPT ![t] = {script}]
  /\ UNCHANGED <<process, scriptFile, st0, eng>>
\* Before each call.
Stat1(t) ==
  /\ script # NoScript
  /\ Step(t, "stat1", IF stamp # st0[t] THEN "reload" ELSE "call")
  /\ st0' = [st0 EXCEPT ![t] = stamp]
  /\ since' = [since EXCEPT ![t] = {script}]
  /\ UNCHANGED <<process, scriptFile, eng>>

\* Fault: without reset, so that load_file refuses.
ReloadKept(t) ==
  /\ Step(t, "reload", "call")
  /\ UNCHANGED <<process, scriptFile, st0, eng, since>>
\* reset and load_file, whose result is not looked at.
Reload(t) ==
  /\ Step(t, "reload", "call")
  /\ eng' = [eng EXCEPT ![t] = IF script \in Good THEN script ELSE NoScript]
  /\ UNCHANGED <<process, scriptFile, st0, since>>

\* ontimer is called; false ends the task.  An engine without a script has nothing to call.
Ontimer(t) ==
  /\ t \in Timer
  /\ \/ Step(t, "call", "sleep")
     \/ eng[t] # NoScript /\ Step(t, "call", "end")
  /\ UNCHANGED <<process, scriptFile, st0, eng, since>>

\* onthread is called once, whatever it returns.
Onthread(t) ==
  /\ t \in Once
  /\ Step(t, "call", "end")
  /\ UNCHANGED <<process, scriptFile, st0, eng, since>>

Sleep(t) ==
  /\ Step(t, "sleep", "stat1")
  /\ UNCHANGED <<process, scriptFile, st0, eng, since>>

\* The engine goes back to the pool or is destroyed.
End(t) ==
  /\ at[t] = "end" /\ eng[t] # NoScript
  /\ eng' = [eng EXCEPT ![t] = NoScript]
  /\ since' = [since EXCEPT ![t] = {}]
  /\ UNCHANGED <<process, scriptFile, at, st0>>

TaskStep(t) ==
  Stat0(t) \/ Load(t) \/ Stat1(t) \/ Reload(t) \/ Ontimer(t) \/ Onthread(t) \/ Sleep(t) \/ End(t)

----------------------------------------------------------------------------
(* The file *)

EditScript ==
  /\ changes < MaxChanges
  /\ changes' = changes + 1
  /\ script' \in (Version \cup {NoScript}) \ {script}
  /\ IF script' = NoScript THEN UNCHANGED <<stamp, twice>>
     ELSE stamp' = clock /\ twice' = IF stamp = clock THEN twice \cup {clock} ELSE twice
  /\ since' = [t \in Task |-> IF at[t] \in {"none", "stat0", "end"} THEN {} ELSE since[t] \cup {script'}]
  /\ UNCHANGED <<clock, process, task>>

TickClock ==
  /\ clock < MaxClock
  /\ clock' = clock + 1
  /\ UNCHANGED <<script, stamp, changes, twice, process, task, since>>

TasksNext ==
  \/ Fork \/ Wait \/ NoExit \/ Stay \/ Exit \/ Crash \/ EditScript \/ TickClock
  \/ \E t \in Task : Start(t) \/ TaskStep(t)

\* The supervisor and the threads are scheduled, and a call of a script returns.  What the main script
\* does, and how often the file is edited, is not promised.
TasksSpec ==
  /\ TasksInit /\ [][TasksNext]_taskVars
  /\ WF_taskVars(Fork) /\ WF_taskVars(Wait) /\ \A t \in Task : WF_taskVars(TaskStep(t))

----------------------------------------------------------------------------
(* Properties *)

\* The variables have the values the code gives them; a task runs only in a process, and has an engine with
\* a script only once it has loaded one.
TasksTypeOK ==
  /\ parent \in {"none", "fork", "wait"} /\ server \in {"down", "main", "noexit", "stay"}
  /\ parent = "fork" => server = "down"
  /\ script \in Version \cup {NoScript} /\ stamp \in Nat /\ clock \in Nat /\ stamp <= clock /\ twice \subseteq Nat
  /\ at \in [Task -> {"none", "stat0", "load", "stat1", "reload", "call", "sleep", "end"}]
  /\ st0 \in [Task -> Nat] /\ eng \in [Task -> Version \cup {NoScript}]
  /\ since \in [Task -> SUBSET (Version \cup {NoScript})]
  /\ \A t \in Task : /\ server = "down" => at[t] = "none"
                     /\ at[t] \in {"none", "stat0", "load"} => eng[t] = NoScript
                     /\ eng[t] # NoScript => eng[t] \in Good

\* A task calls what the file contained at some time since it looked last (thread_task), or nothing, if the
\* file could not be loaded then: unless the file was given two contents within the second that stat reports.
FreshTask ==
  \A t \in Task : at[t] = "call" =>
    \/ eng[t] \in since[t]
    \/ eng[t] = NoScript /\ ~(since[t] \subseteq Good)
    \/ st0[t] \in twice

\* When the file stays as it is and can be loaded, a timer that goes on running comes to call it, also after
\* loads that failed and after the server was started anew; unless its content was given the same second as
\* another: what a load has failed on is not looked at again before the time changes.
Reloaded ==
  \A t \in Timer :
    <>[](at[t] \notin {"none", "end"} /\ script \in Good /\ stamp \notin twice) => <>[](eng[t] = script)
=============================================================================
