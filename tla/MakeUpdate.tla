----------------------------- MODULE MakeUpdate -----------------------------
(***************************************************************************)
(* How GNU make brings targets up to date (make-3.81/remake.c, with        *)
(* set_command_state and remove_intermediates of file.c).  The recursion   *)
(* of update_file_1 and check_dep over the prerequisites is a stack of     *)
(* frames; a pass over the goals ends when each has been considered once,  *)
(* and passes follow until all goals are finished.  Jobs (MakeJobs) run    *)
(* beside this: any of those that run may turn out to have ended whenever  *)
(* a new job is started, and at least one has between two passes.          *)
(*                                                                         *)
(* Double-colon rules, VPATH, archives, and the flags -n, -t, -q are left  *)
(* out.  An instance is a set of makefiles with files of any age.          *)
(***************************************************************************)
EXTENDS Integers, Sequences, FiniteSets, SequencesExt

CONSTANTS
  Files,      \* the names
  Makefiles,  \* makefiles with the options that make is started with
  Ages        \* the modification times that files may have before the build

Nonexistent == 0
Unknown == -1
Unset == -1   \* update_status of a file that was not touched

(* deps[f] is a sequence of prerequisites; cmds[f] is "none", "empty" (a   *)
(* rule with empty commands), "touch" (commands that write the target) or  *)
(* "keep" (commands that leave it as it is); also[f] are the targets that  *)
(* the same commands make.  precious and secondary are .PRECIOUS and       *)
(* .SECONDARY.  maxJobs, keepGoing and alwaysMake are -j, -k and -B; the   *)
(* commands of the files in mayFail may fail; make is run rounds times.    *)
ASSUME UpdateAssumption ==
  /\ Ages \subseteq Nat
  /\ \E t \in Ages : \A a \in Ages : a <= t
  /\ \A r \in Makefiles :
       /\ r.deps \in [Files -> Seq([file : Files, order : BOOLEAN])]
       /\ r.cmds \in [Files -> {"none", "empty", "touch", "keep"}]
       /\ r.targets \subseteq Files /\ r.phony \subseteq Files
       /\ r.intermediate \subseteq Files
       /\ r.precious \subseteq Files /\ r.secondary \subseteq r.intermediate
       /\ r.also \in [Files -> SUBSET Files]
       /\ r.goals \in Seq(Files)
       /\ r.maxJobs \in Nat \ {0} /\ r.rounds \in Nat \ {0}
       /\ r.keepGoing \in BOOLEAN /\ r.alwaysMake \in BOOLEAN
       /\ r.mayFail \subseteq Files

VARIABLES
  mk,            \* the makefile and the options
  disk,          \* the modification time of every file
  now,           \* the clock
  deps,          \* the prerequisites that are left: cycles are cut
  last_mtime,    \* the modification time as make knows it
  command_state, \* not_started, deps_running, running, finished
  update_status, \* Unset, 0 or 2
  updated,
  considered,    \* the pass in which a file was considered last
  pass,          \* the value that considered has in this pass
  updating,      \* the files that are being considered
  changed,       \* changed[f][i]: the i-th prerequisite of f has changed
  stack,         \* the calls of update_file_1 and check_dep
  rv,            \* what the last call returned: a status, and must_make
  goals,         \* the goals that are not finished
  gi,            \* the goal of this pass
  upc,           \* where update_goal_chain is
  jobs,          \* the targets whose commands run
  exit,          \* Unset, or the exit status
  runs,          \* how often the commands of a target were run in this round
  round,
  old            \* the times of the files when make was started

fileVars == <<last_mtime, command_state, update_status, updated>>
vars == <<mk, disk, now, deps, last_mtime, command_state, update_status,
          updated, considered, pass, updating, changed, stack, rv, goals, gi,
          upc, jobs, exit, runs, round, old>>

(* What make starts with, whatever an earlier run has left; snap_deps says *)
(* of phony files that they do not exist.                                  *)
Fresh(r) ==
  [deps |-> r.deps,
   last |-> [f \in Files |-> IF f \in r.phony THEN Nonexistent ELSE Unknown],
   state |-> [f \in Files |-> "not_started"],
   status |-> [f \in Files |-> Unset], updated |-> [f \in Files |-> FALSE],
   considered |-> [f \in Files |-> FALSE],
   changed |-> [f \in Files |-> [i \in DOMAIN r.deps[f] |-> FALSE]]]

UpdateInit ==
  /\ mk \in Makefiles
  /\ disk \in [Files -> Ages]
  /\ now = 1 + CHOOSE t \in Ages : \A a \in Ages : a <= t
  /\ deps = Fresh(mk).deps /\ last_mtime = Fresh(mk).last
  /\ command_state = Fresh(mk).state /\ update_status = Fresh(mk).status
  /\ updated = Fresh(mk).updated /\ considered = Fresh(mk).considered
  /\ changed = Fresh(mk).changed
  /\ pass = TRUE /\ updating = {} /\ stack = <<>>
  /\ rv = [status |-> 0, must |-> FALSE]
  /\ goals = mk.goals /\ gi = 1 /\ upc = "wait" /\ jobs = {}
  /\ exit = Unset /\ runs = [f \in Files |-> 0] /\ round = 1 /\ old = disk

-----------------------------------------------------------------------------
(* file_mtime: ask the system once, then remember.                         *)
mtime(f) == IF last_mtime[f] = Unknown THEN disk[f] ELSE last_mtime[f]
Known(last, S) ==
  [f \in Files |-> IF f \in S /\ last[f] = Unknown THEN disk[f] ELSE last[f]]

Busy(f) == command_state[f] \in {"running", "deps_running"}
HasCommands(f) == mk.cmds[f] # "none"

(* Mutated form: the other targets of the commands keep their state. *)
SetAlone(st, f, s) == [st EXCEPT ![f] = s]

(* set_command_state: the state is that of all targets of the commands.    *)
set_command_state(st, f, s) ==
  [x \in Files |-> IF x = f \/ x \in mk.also[f] THEN s ELSE st[x]]

(* The status of a file that needs nothing (more) in this pass.            *)
Settled(f) ==
  \/ considered[f] = pass
  \/ updated[f] \/ command_state[f] \in {"running", "finished"}
SettledStatus(f) ==
  IF (updated[f] \/ command_state[f] = "finished") /\ update_status[f] > 0
  THEN update_status[f] ELSE 0

Frame(kind, f, must, this) ==
  [kind |-> kind, f |-> f, phase |-> "dep", i |-> 1, must |-> must,
   status |-> 0, running |-> FALSE, this |-> this, before |-> Nonexistent]

(* update_file, called with the stack st: prune, or consider the file.     *)
update_file(f, st) ==
  /\ considered' = [considered EXCEPT ![f] = pass]
  /\ IF Settled(f)
       THEN /\ stack' = st
            /\ rv' = [rv EXCEPT !.status = SettledStatus(f)]
            /\ UNCHANGED <<last_mtime, updating>>
       ELSE /\ updating' = updating \cup {f}
            /\ last_mtime' = Known(last_mtime, {f})
            /\ stack' = Append(st, Frame("file", f, mtime(f) = Nonexistent, mtime(f)))
            /\ UNCHANGED rv

(* Top and the frame on top with some fields replaced. *)
Top == Last(stack)
Becomes(frame) == Append(Front(stack), frame)

-----------------------------------------------------------------------------
(* Mutated form: the time is not asked for again. *)
AskAgainNot(f, ran) == FALSE
AskAgain(f, ran) == ran /\ f \notin mk.phony

(* notice_finished_file, for a file whose state is cs and status us; the   *)
(* time is asked for again when commands have run.                         *)
Finished(f, cs, us, last, dk) ==
  LET ran  == cs[f] = "running"
      with == IF ran /\ us[f] # Unset THEN mk.also[f] ELSE {}
      st   == IF us[f] = Unset THEN 0 ELSE us[f]
  IN  /\ command_state' = [x \in Files |-> IF x \in {f} \cup with THEN "finished" ELSE cs[x]]
      /\ updated' = [x \in Files |-> updated[x] \/ x \in {f} \cup with]
      /\ update_status' = [x \in Files |-> IF x \in {f} \cup with THEN st ELSE us[x]]
      /\ last_mtime' = [x \in Files |->
           IF x = f /\ AskAgain(f, ran) THEN Unknown
           ELSE IF x \in with /\ x \notin mk.phony THEN dk[x] ELSE last[x]]

Return(status, must) ==
  /\ stack' = Front(stack)
  /\ rv' = [status |-> status, must |-> must]

Worse(s, t) == IF s = 0 THEN t ELSE s
Dep(frame) == deps[frame.f][frame.i]
PastEnd(frame) == frame.i > Len(deps[frame.f])

-----------------------------------------------------------------------------
(* update_file_1: the prerequisites one after the other.                   *)
InFile(phase) == upc = "pass" /\ stack # <<>> /\ Top.kind = "file" /\ Top.phase = phase

(* A prerequisite that is being considered already is dropped.             *)
Drop(f, i) ==
  /\ deps' = [deps EXCEPT ![f] = RemoveAt(@, i)]
  /\ changed' = [changed EXCEPT ![f] = RemoveAt(@, i)]

Circular(d) == d \in updating

DropCircular ==
  /\ InFile("dep") /\ ~PastEnd(Top)
  /\ Circular(Dep(Top).file)
  /\ Drop(Top.f, Top.i)
  /\ UNCHANGED <<mk, disk, now, fileVars, considered, pass, updating, stack, rv,
                 goals, gi, upc, jobs, exit, runs, round, old>>

CheckPrerequisite ==
  /\ InFile("dep") /\ ~PastEnd(Top)
  /\ LET d == Dep(Top).file IN
       /\ ~Circular(d)
       /\ last_mtime' = Known(last_mtime, {d})
       /\ updating' = updating \cup {d}
       /\ stack' = Append(Becomes([Top EXCEPT !.phase = "back", !.before = mtime(d)]),
                          Frame("check", d, Top.must, Top.this))
  /\ UNCHANGED <<mk, disk, now, deps, command_state, update_status, updated,
                 considered, pass, changed, rv, goals, gi, upc, jobs, exit, runs,
                 round, old>>

(* Mutated form: prerequisites that are still being made do not count. *)
StillRunningNot(frame) == FALSE
StillRunning(frame) == frame.running \/ Busy(Dep(frame).file)

(* Its status, whether it is newer, and whether it is still being made.    *)
PrerequisiteChecked ==
  /\ InFile("back")
  /\ LET d == Dep(Top)
         running == StillRunning(Top)
         status == Worse(Top.status, rv.status)
         next == [Top EXCEPT !.status = status, !.running = running,
                             !.must = IF d.order THEN @ ELSE rv.must]
     IN  /\ last_mtime' = Known(last_mtime, {d.file})
         /\ IF status # 0 /\ ~mk.keepGoing
              THEN /\ stack' = Becomes([next EXCEPT !.phase = "inter", !.i = 1])
                   /\ UNCHANGED changed
              ELSE /\ stack' = Becomes([next EXCEPT !.phase = "dep", !.i = @ + 1])
                   /\ changed' = IF running THEN changed
                                 ELSE [changed EXCEPT ![Top.f] =
                                        [@ EXCEPT ![Top.i] = mtime(d.file) # Top.before]]
  /\ UNCHANGED <<mk, disk, now, deps, command_state, update_status, updated,
                 considered, pass, updating, rv, goals, gi, upc, jobs, exit, runs,
                 round, old>>

(* The second loop makes the intermediate files that are missing.          *)
ToIntermediates ==
  /\ InFile("dep") /\ PastEnd(Top)
  /\ stack' = Becomes([Top EXCEPT !.phase = "inter", !.i = 1])
  /\ UNCHANGED <<mk, disk, now, deps, fileVars, considered, pass, updating,
                 changed, rv, goals, gi, upc, jobs, exit, runs, round, old>>

Wanted(frame) == ~PastEnd(frame) /\ (frame.must \/ mk.alwaysMake)

UpdateIntermediate ==
  /\ InFile("inter") /\ Wanted(Top)
  /\ LET d == Dep(Top).file IN
       IF d \in mk.intermediate
         THEN update_file(d, Becomes([Top EXCEPT !.phase = "interback",
                                                 !.before = mtime(d)]))
         ELSE /\ stack' = Becomes([Top EXCEPT !.i = @ + 1])
              /\ UNCHANGED <<last_mtime, considered, updating, rv>>
  /\ UNCHANGED <<mk, disk, now, deps, command_state, update_status, updated,
                 pass, changed, goals, gi, upc, jobs, exit, runs, round, old>>

IntermediateUpdated ==
  /\ InFile("interback")
  /\ LET d == Dep(Top).file
         running == StillRunning(Top)
         status == Worse(Top.status, rv.status)
         next == [Top EXCEPT !.status = status, !.running = running]
     IN  /\ last_mtime' = Known(last_mtime, {d})
         /\ IF status # 0 /\ ~mk.keepGoing
              THEN /\ stack' = Becomes([next EXCEPT !.phase = "finish"])
                   /\ UNCHANGED changed
              ELSE /\ stack' = Becomes([next EXCEPT !.phase = "inter", !.i = @ + 1])
                   /\ changed' = IF running THEN changed
                                 ELSE [changed EXCEPT ![Top.f] = [@ EXCEPT ![Top.i] =
                                        \/ Top.f \in mk.phony /\ HasCommands(Top.f)
                                        \/ mtime(d) # Top.before]]
  /\ UNCHANGED <<mk, disk, now, deps, command_state, update_status, updated,
                 considered, pass, updating, rv, goals, gi, upc, jobs, exit, runs,
                 round, old>>

PrerequisitesDone ==
  /\ InFile("inter") /\ ~Wanted(Top)
  /\ stack' = Becomes([Top EXCEPT !.phase = "finish"])
  /\ UNCHANGED <<mk, disk, now, deps, fileVars, considered, pass, updating,
                 changed, rv, goals, gi, upc, jobs, exit, runs, round, old>>

-----------------------------------------------------------------------------
(* update_file_1, once the prerequisites have been considered.             *)

(* Some of them are still being made: come back in the next pass.          *)
WaitForPrerequisites ==
  /\ InFile("finish") /\ Top.running
  /\ updating' = updating \ {Top.f}
  /\ command_state' = set_command_state(command_state, Top.f, "deps_running")
  /\ Return(0, FALSE)
  /\ UNCHANGED <<mk, disk, now, deps, last_mtime, update_status, updated,
                 considered, pass, changed, goals, gi, upc, jobs, exit, runs, round, old>>

GiveUp ==
  /\ InFile("finish") /\ ~Top.running /\ Top.status # 0
  /\ updating' = updating \ {Top.f}
  /\ Finished(Top.f, command_state, [update_status EXCEPT ![Top.f] = Top.status],
              last_mtime, disk)
  /\ Return(Top.status, FALSE)
  /\ UNCHANGED <<mk, disk, now, deps, considered, pass, changed, goals, gi, upc,
                 jobs, exit, runs, round, old>>

(* Whether to run the commands.                                            *)
MustMake(frame) ==
  LET f == frame.f
      noexist == frame.this = Nonexistent
      plain == {i \in DOMAIN deps[f] : ~deps[f][i].order}
      missing == \E i \in plain : /\ mtime(deps[f][i].file) = Nonexistent
                                  /\ deps[f][i].file \notin mk.intermediate
      deps_changed == \E i \in plain : changed[f][i]
  IN  IF ~noexist /\ f \in mk.targets /\ ~deps_changed /\ ~HasCommands(f) /\ ~mk.alwaysMake
        THEN FALSE
        ELSE frame.must \/ missing \/ (HasCommands(f) /\ mk.alwaysMake)

(* The state before the commands: deps_running is over.                    *)
Reset(f) == IF command_state[f] = "deps_running"
            THEN set_command_state(command_state, f, "not_started")
            ELSE command_state

Ready == InFile("finish") /\ ~Top.running /\ Top.status = 0

NoNeedToRemake ==
  /\ Ready /\ ~MustMake(Top)
  /\ updating' = updating \ {Top.f}
  /\ Finished(Top.f, Reset(Top.f), update_status, last_mtime, disk)
  /\ Return(0, FALSE)
  /\ UNCHANGED <<mk, disk, now, deps, considered, pass, changed, goals, gi, upc,
                 jobs, exit, runs, round, old>>

(* remake_file without commands to run.                                    *)
RemakeWithout ==
  /\ Ready /\ MustMake(Top) /\ mk.cmds[Top.f] \in {"none", "empty"}
  /\ updating' = updating \ {Top.f}
  /\ LET f == Top.f
         norule == mk.cmds[f] = "none" /\ f \notin mk.phony \cup mk.targets
         status == IF norule THEN 2 ELSE 0
         cs == IF mk.cmds[f] = "empty"
               THEN set_command_state(Reset(f), f, "running") ELSE Reset(f)
     IN  IF norule /\ ~mk.keepGoing
           THEN /\ upc' = "dying" /\ exit' = 2
                /\ UNCHANGED <<fileVars, stack, rv>>
           ELSE /\ Finished(f, cs, [update_status EXCEPT ![f] = status], last_mtime, disk)
                /\ Return(status, FALSE)
                /\ UNCHANGED <<upc, exit>>
  /\ UNCHANGED <<mk, disk, now, deps, considered, pass, changed, goals, gi, jobs,
                 runs, round, old>>

RemakeWith ==
  /\ Ready /\ MustMake(Top) /\ mk.cmds[Top.f] \in {"touch", "keep"}
  /\ updating' = updating \ {Top.f}
  /\ command_state' = Reset(Top.f)
  /\ stack' = Becomes([Top EXCEPT !.phase = "job"])
  /\ UNCHANGED <<mk, disk, now, deps, last_mtime, update_status, updated,
                 considered, pass, changed, rv, goals, gi, upc, jobs, exit, runs,
                 round, old>>

(* new_job, when a slot is free; with one slot it waits for the commands.  *)
StartCommands ==
  /\ InFile("job") /\ Cardinality(jobs) < mk.maxJobs
  /\ command_state' = set_command_state(command_state, Top.f, "running")
  /\ jobs' = jobs \cup {Top.f}
  /\ runs' = [runs EXCEPT ![Top.f] = @ + 1]
  /\ stack' = Becomes([Top EXCEPT !.phase = "started"])
  /\ UNCHANGED <<mk, disk, now, deps, last_mtime, update_status, updated,
                 considered, pass, updating, changed, rv, goals, gi, upc, exit,
                 round, old>>

CommandsStarted ==
  /\ InFile("started") /\ (mk.maxJobs = 1 => Top.f \notin jobs)
  /\ Return(IF command_state[Top.f] = "finished" THEN update_status[Top.f] ELSE 0, FALSE)
  /\ UNCHANGED <<mk, disk, now, deps, fileVars, considered, pass, updating,
                 changed, goals, gi, upc, jobs, exit, runs, round, old>>

-----------------------------------------------------------------------------
(* check_dep *)
InCheck(phase) == upc = "pass" /\ stack # <<>> /\ Top.kind = "check" /\ Top.phase = phase
Ordinary(f) == f \in mk.phony \/ f \notin mk.intermediate

CheckOrdinary ==
  /\ InCheck("dep") /\ Ordinary(Top.f)
  /\ update_file(Top.f, Becomes([Top EXCEPT !.phase = "updated"]))
  /\ UNCHANGED <<mk, disk, now, deps, command_state, update_status, updated,
                 pass, changed, goals, gi, upc, jobs, exit, runs, round, old>>

(* Mutated form: files of the same age are out of date. *)
NewerOrEqual(t, this) == t = Nonexistent \/ t >= this
Newer(t, this) == t = Nonexistent \/ t > this

OrdinaryUpdated ==
  /\ InCheck("updated")
  /\ last_mtime' = Known(last_mtime, {Top.f})
  /\ updating' = updating \ {Top.f}
  /\ Return(rv.status, Top.must \/ Newer(mtime(Top.f), Top.this))
  /\ UNCHANGED <<mk, disk, now, deps, command_state, update_status, updated,
                 considered, pass, changed, goals, gi, upc, jobs, exit, runs, round, old>>

(* An intermediate file that exists and is newer decides; else its own     *)
(* prerequisites do.                                                       *)
CheckIntermediate ==
  /\ InCheck("dep") /\ ~Ordinary(Top.f)
  /\ last_mtime' = Known(last_mtime, {Top.f})
  /\ IF mtime(Top.f) # Nonexistent /\ mtime(Top.f) > Top.this
       THEN Return(0, TRUE) /\ updating' = updating \ {Top.f}
       ELSE /\ stack' = Becomes([Top EXCEPT !.phase = "through"])
            /\ UNCHANGED <<rv, updating>>
  /\ UNCHANGED <<mk, disk, now, deps, command_state, update_status, updated,
                 considered, pass, changed, goals, gi, upc, jobs, exit, runs, round, old>>

CheckThrough ==
  /\ InCheck("through") /\ ~PastEnd(Top)
  /\ LET d == Dep(Top).file IN
       IF Circular(d)
         THEN Drop(Top.f, Top.i) /\ UNCHANGED <<stack, updating>>
         ELSE /\ updating' = updating \cup {d}
              /\ stack' = Append(Becomes([Top EXCEPT !.phase = "throughback"]),
                                 Frame("check", d, Top.must, Top.this))
              /\ UNCHANGED <<deps, changed>>
  /\ UNCHANGED <<mk, disk, now, fileVars, considered, pass, rv, goals, gi, upc,
                 jobs, exit, runs, round, old>>

CheckedThrough ==
  /\ InCheck("throughback")
  /\ LET d == Dep(Top)
         next == [Top EXCEPT !.status = Worse(@, rv.status),
                             !.must = IF d.order THEN @ ELSE rv.must]
     IN  IF next.status # 0 /\ ~mk.keepGoing
           THEN /\ Return(next.status, next.must)
                /\ updating' = updating \ {Top.f}
                /\ UNCHANGED command_state
           ELSE /\ stack' = Becomes([next EXCEPT !.phase = "through", !.i = @ + 1])
                /\ command_state' = IF Busy(d.file)
                     THEN set_command_state(command_state, Top.f, "deps_running")
                     ELSE command_state
                /\ UNCHANGED <<rv, updating>>
  /\ UNCHANGED <<mk, disk, now, deps, last_mtime, update_status, updated,
                 considered, pass, changed, goals, gi, upc, jobs, exit, runs, round, old>>

CheckedIntermediate ==
  /\ InCheck("through") /\ PastEnd(Top)
  /\ updating' = updating \ {Top.f}
  /\ Return(Top.status, Top.must)
  /\ UNCHANGED <<mk, disk, now, deps, fileVars, considered, pass, changed, goals,
                 gi, upc, jobs, exit, runs, round, old>>

-----------------------------------------------------------------------------
(* Commands end, and make notices: between two passes, before it starts    *)
(* new ones, and while it waits for the only slot.                         *)
CanReap ==
  \/ upc \in {"wait", "more", "dying"}
  \/ InFile("job") \/ (InFile("started") /\ mk.maxJobs = 1)

(* delete_child_targets: the targets that are not precious and whose time  *)
(* is no longer the one that make knows.                                   *)
Changed(j, dk) ==
  {f \in {j} \cup mk.also[j] : f \notin mk.precious \cup mk.phony /\ dk[f] # last_mtime[f]}

(* The clock need not move on between two commands.  The targets of failed *)
(* commands are deleted after a signal, under .DELETE_ON_ERROR, and when a *)
(* later line of the commands does not start.                              *)
Reap(j) ==
  /\ CanReap /\ j \in jobs
  /\ \E ok \in {TRUE} \cup (IF j \in mk.mayFail THEN {FALSE} ELSE {}),
        writes \in BOOLEAN, deletes \in BOOLEAN, later \in {0, 1} :
       /\ ok => writes = (mk.cmds[j] = "touch") /\ ~deletes
       /\ ~ok => later = 0
       /\ now' = now + later
       /\ LET written == [f \in Files |-> IF writes /\ (f = j \/ f \in mk.also[j])
                                          THEN now + later ELSE disk[f]]
              gone == IF deletes THEN Changed(j, written) ELSE {}
          IN  disk' = [f \in Files |-> IF f \in gone THEN Nonexistent ELSE written[f]]
       /\ Finished(j, command_state,
                   [update_status EXCEPT ![j] = IF ok THEN 0 ELSE 2], last_mtime, disk')
       /\ IF ok \/ mk.keepGoing \/ upc = "dying"
            THEN UNCHANGED exit /\ upc' = IF upc = "wait" THEN "more" ELSE upc
            ELSE exit' = 2 /\ upc' = "dying"
  /\ jobs' = jobs \ {j}
  /\ UNCHANGED <<mk, deps, considered, pass, updating, changed, stack, rv, goals,
                 gi, runs, round, old>>

BeginPass ==
  /\ upc = "more" \/ (upc = "wait" /\ jobs = {})
  /\ upc' = "goal" /\ gi' = 1
  /\ UNCHANGED <<mk, disk, now, deps, fileVars, considered, pass, updating,
                 changed, stack, rv, goals, jobs, exit, runs, round, old>>

UpdateGoal ==
  /\ upc = "goal" /\ gi <= Len(goals)
  /\ update_file(goals[gi], <<>>)
  /\ upc' = "pass"
  /\ UNCHANGED <<mk, disk, now, deps, command_state, update_status, updated, pass,
                 changed, goals, gi, jobs, exit, runs, round, old>>

(* The exit status becomes that of the first goal that fails.              *)
GoalConsidered ==
  /\ upc = "pass" /\ stack = <<>>
  /\ upc' = "goal"
  /\ IF updated[goals[gi]]
       THEN goals' = RemoveAt(goals, gi) /\ UNCHANGED gi
       ELSE gi' = gi + 1 /\ UNCHANGED goals
  /\ exit' = IF updated[goals[gi]] /\ update_status[goals[gi]] # 0 THEN 2 ELSE exit
  /\ UNCHANGED <<mk, disk, now, deps, fileVars, considered, pass, updating,
                 changed, stack, rv, jobs, runs, round, old>>

(* Mutated form: the files stay considered. *)
SamePass == pass
NextPass == ~pass

EndPass ==
  /\ upc = "goal" /\ gi > Len(goals)
  /\ pass' = NextPass
  /\ IF goals = <<>>
       THEN upc' = "dying" /\ exit' = IF exit = Unset THEN 0 ELSE exit
       ELSE upc' = "wait" /\ UNCHANGED exit
  /\ UNCHANGED <<mk, disk, now, deps, fileVars, considered, updating, changed,
                 stack, rv, goals, gi, jobs, runs, round, old>>

(* The intermediate files that may be deleted: not what the user names.    *)
Passing == mk.intermediate \ (mk.precious \cup mk.secondary \cup ToSet(mk.goals))

(* Mutated form: the ones whose commands have failed are left. *)
RemovedMade == {f \in Passing : update_status[f] = 0}
Removed == {f \in Passing : update_status[f] # Unset}

(* die: no job runs any more; remove the intermediate files that were made. *)
remove_intermediates ==
  /\ upc = "dying" /\ jobs = {}
  /\ disk' = [f \in Files |-> IF f \in Removed THEN Nonexistent ELSE disk[f]]
  /\ upc' = "exited"
  /\ UNCHANGED <<mk, now, deps, fileVars, considered, pass, updating, changed,
                 stack, rv, goals, gi, jobs, exit, runs, round, old>>

(* make is run again.                                                      *)
Again ==
  /\ upc = "exited" /\ round < mk.rounds
  /\ LET new == Fresh(mk) IN
       /\ deps' = new.deps /\ last_mtime' = new.last
       /\ command_state' = new.state /\ update_status' = new.status
       /\ updated' = new.updated /\ considered' = new.considered
       /\ changed' = new.changed
  /\ pass' = TRUE /\ updating' = {} /\ stack' = <<>>
  /\ rv' = [status |-> 0, must |-> FALSE]
  /\ goals' = mk.goals /\ gi' = 1 /\ upc' = "wait"
  /\ exit' = Unset /\ runs' = [f \in Files |-> 0] /\ round' = round + 1 /\ old' = disk
  /\ UNCHANGED <<mk, disk, now, jobs>>

Stop == upc = "exited" /\ round = mk.rounds /\ UNCHANGED vars

UpdateNext ==
  \/ DropCircular \/ CheckPrerequisite \/ PrerequisiteChecked \/ ToIntermediates
  \/ UpdateIntermediate \/ IntermediateUpdated \/ PrerequisitesDone
  \/ WaitForPrerequisites \/ GiveUp \/ NoNeedToRemake \/ RemakeWithout
  \/ RemakeWith \/ StartCommands \/ CommandsStarted
  \/ CheckOrdinary \/ OrdinaryUpdated \/ CheckIntermediate \/ CheckThrough
  \/ CheckedThrough \/ CheckedIntermediate
  \/ BeginPass \/ UpdateGoal \/ GoalConsidered \/ EndPass
  \/ remove_intermediates \/ Again \/ Stop
  \/ \E j \in Files : Reap(j)

UpdateSpec == UpdateInit /\ [][UpdateNext]_vars

(* make goes on, and commands end.                                         *)
UpdateFairSpec == UpdateSpec /\ WF_vars(UpdateNext)

-----------------------------------------------------------------------------
UpdateTypeOK ==
  /\ disk \in [Files -> Nat] /\ now \in Nat
  /\ last_mtime \in [Files -> Nat \cup {Unknown}]
  /\ command_state \in [Files -> {"not_started", "deps_running", "running", "finished"}]
  /\ update_status \in [Files -> {Unset, 0, 2}]
  /\ updated \in [Files -> BOOLEAN] /\ considered \in [Files -> BOOLEAN]
  /\ updating \subseteq Files /\ jobs \subseteq Files
  /\ \A f \in Files : Len(changed[f]) = Len(deps[f])
  /\ exit \in {Unset, 0, 2} /\ round \in 1 .. mk.rounds
  /\ upc \in {"wait", "more", "goal", "pass", "dying", "exited"}

(* Commands never run beside those of a prerequisite, order-only ones and  *)
(* ones behind intermediate files included, nor after one that has failed. *)
PrerequisitesReady ==
  \A f \in jobs : \A i \in DOMAIN deps[f] :
    LET d == deps[f][i].file
    IN  d \notin jobs /\ ~Busy(d) /\ update_status[d] # 2

(* However many passes it takes and however many targets the commands      *)
(* have, they are run at most once.                                        *)
CommandsOnce ==
  /\ UpdateTypeOK
  /\ \A f \in Files : runs[f] <= 1 /\ (runs[f] = 1 => \A x \in mk.also[f] : x # f => runs[x] = 0)

(* The prerequisites of f, and what is behind those that are intermediate. *)
Plain(f) == {deps[f][i].file : i \in {k \in DOMAIN deps[f] : ~deps[f][k].order}}
Behind(f) ==
  LET reach[n \in 0 .. Cardinality(Files)] ==
        IF n = 0 THEN Plain(f)
        ELSE reach[n - 1] \cup UNION {Plain(d) : d \in reach[n - 1] \cap mk.intermediate}
  IN  reach[Cardinality(Files)]

(* Every file that the goals need.                                         *)
NeededFiles ==
  LET reach[n \in 0 .. Cardinality(Files)] ==
        IF n = 0 THEN ToSet(mk.goals)
        ELSE reach[n - 1] \cup
             UNION {{deps[f][i].file : i \in DOMAIN deps[f]} : f \in reach[n - 1]}
  IN  reach[Cardinality(Files)]

(* Success means that nothing has failed, a later success hides no failure *)
(* of another pass, and that all is up to date: what has commands that     *)
(* write it exists and is not older than anything it is made from.         *)
SuccessIsUpToDate ==
  upc = "exited" /\ exit = 0 =>
    /\ \A f \in Files : update_status[f] # 2
    /\ \A f \in NeededFiles :
         mk.cmds[f] = "touch" /\ f \notin mk.phony \cup mk.intermediate =>
           disk[f] # Nonexistent /\ \A d \in Behind(f) : disk[d] <= disk[f]

(* Commands are run only where something was missing, phony or newer.      *)
NothingNeedless ==
  upc = "dying" /\ jobs = {} /\ ~mk.alwaysMake =>
    \A f \in Files : runs[f] > 0 =>
      \/ f \in mk.phony \/ old[f] = Nonexistent
      \/ \E d \in Behind(f) : d \in mk.phony \/ disk[d] = Nonexistent \/ disk[d] > old[f]

(* An intermediate file that was not there before make is not there after  *)
(* it either, also when its commands or later ones have failed; the files  *)
(* of .PRECIOUS and .SECONDARY and the goals may stay.                     *)
IntermediatesGone ==
  upc = "exited" => \A f \in Passing : old[f] = Nonexistent => disk[f] = Nonexistent

(* A makefile whose targets are all written by their commands.             *)
Tidy ==
  \A f \in mk.targets : mk.cmds[f] = "touch" /\ f \notin mk.phony

(* Running make again after a success runs nothing, also when the clock    *)
(* has not moved and the intermediate files are gone.                      *)
AgainRunsNothing ==
  round > 1 /\ Tidy => \A f \in Files : runs[f] = 0

(* Cycles in the makefile included, make ends.                             *)
MakeEnds == <>(upc = "exited" /\ round = mk.rounds)

(* "This tells the upper levels to wait on processing it until the         *)
(* commands are finished" (check_dep): no file waits for its prerequisites *)
(* for ever.                                                               *)
WaitingEnds ==
  \A f \in Files : command_state[f] = "deps_running" ~> command_state[f] # "deps_running"

=============================================================================
