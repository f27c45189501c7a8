----------------------------- MODULE MCMakeJobs -----------------------------
(***************************************************************************)
(* Builds of up to three makes for MakeJobs.                               *)
(***************************************************************************)
EXTENDS MakeJobs, TLC

MCMakes == {"top", "lib", "app"}
MCJobs == {"lib-dir", "app-dir", "all", "a.o", "b.o", "main.o", "prog"}

(* The jobs that each make is given in a build. *)
Rules(top, lib, app) ==
  [m \in MCMakes |-> CASE m = "top" -> top [] m = "lib" -> lib [] m = "app" -> app]

MCLines == [j \in MCJobs |->
  CASE j = "lib-dir" -> <<"lib">>
    [] j = "app-dir" -> <<"nop", "app">>
    [] j = "main.o"  -> <<"nop", "run">>
    [] OTHER         -> <<"run">>]

NoPrerequisites == [j \in MCJobs |-> {}]

(* A make with a make below it, and nothing goes wrong. *)
Plain ==
  [todo |-> Rules(<<"lib-dir", "all">>, <<"a.o", "b.o">>, << >>),
   after |-> NoPrerequisites, lines |-> MCLines, ignore |-> {}, noRule |-> {},
   mayFail |-> {}, serial |-> {}, notParallel |-> {},
   keepGoing |-> FALSE, loadLimit |-> FALSE, forkFails |-> FALSE, signals |-> FALSE]

(* Two makes below the first, one without the pipe; commands and forks fail. *)
Tree ==
  [Plain EXCEPT
     !.todo = Rules(<<"lib-dir", "all", "app-dir">>, <<"a.o", "b.o">>, <<"main.o", "prog">>),
     !.after = [@ EXCEPT !["prog"] = {"main.o"}, !["all"] = {"lib-dir"}],
     !.noRule = {"prog"}, !.mayFail = {"b.o"}, !.serial = {"app"}]

(* Rules of several lines, whose processes may not start. *)
Forks ==
  [Plain EXCEPT !.lines = [@ EXCEPT !["a.o"] = <<"run", "nop", "run">>,
                                    !["b.o"] = <<"nop">>],
                !.mayFail = {"a.o"}, !.ignore = {"a.o"}, !.forkFails = TRUE]

(* -k under a limit on the load. *)
Load ==
  [Tree EXCEPT !.todo = Rules(<<"lib-dir", "app-dir">>, <<"a.o", "b.o">>, <<"main.o", "prog">>),
               !.serial = {}, !.notParallel = {"app"},
               !.keepGoing = TRUE, !.loadLimit = TRUE]

(* A limit on the load without -k. *)
Impatient ==
  [Plain EXCEPT !.todo = Rules(<<"lib-dir", "all", "main.o">>, <<"a.o">>, << >>),
                !.mayFail = {"a.o", "all"}, !.loadLimit = TRUE]

(* Any make may get SIGTERM at any time. *)
Killed ==
  [Plain EXCEPT !.todo = Rules(<<"lib-dir">>, <<"a.o", "b.o", "prog">>, << >>),
                !.keepGoing = TRUE, !.signals = TRUE]

MCBuilds ==
  [name \in {"tree", "forks", "load", "impatient", "killed"} |->
     CASE name = "tree" -> Tree
       [] name = "forks" -> Forks
       [] name = "load" -> Load
       [] name = "impatient" -> Impatient
       [] name = "killed" -> Killed]

=============================================================================
