---------------------------- MODULE MCMakeUpdate ----------------------------
(***************************************************************************)
(* Small makefiles for MakeUpdate, each with files of all ages.            *)
(***************************************************************************)
EXTENDS MakeUpdate, TLC

Names == {"prog", "x", "y", "src"}

On(s) == [i \in DOMAIN s |-> [file |-> s[i], order |-> FALSE]]
Rule(p, x, y) ==
  [f \in Names |-> IF f = "prog" THEN p ELSE IF f = "x" THEN x
                   ELSE IF f = "y" THEN y ELSE <<>>]
Touch(S) == [f \in Names |-> IF f \in S THEN "touch" ELSE "none"]
Alone == [f \in Names |-> {}]

Makefile(d, targets) ==
  [deps |-> d, cmds |-> Touch(targets), targets |-> targets, phony |-> {},
   intermediate |-> {}, precious |-> {}, secondary |-> {}, also |-> Alone, goals |-> <<"prog">>,
   maxJobs |-> 2, keepGoing |-> FALSE, alwaysMake |-> FALSE,
   mayFail |-> {"x", "y"}, rounds |-> 1]

All == {"prog", "x", "y"}
Chain == Makefile(Rule(On(<<"x">>), On(<<"y">>), On(<<"src">>)), All)
Diamond == Makefile(Rule(On(<<"x", "y">>), On(<<"src">>), On(<<"src">>)), All)
Order ==
  Makefile(Rule(<<[file |-> "x", order |-> FALSE], [file |-> "y", order |-> TRUE]>>,
                On(<<"y">>), On(<<"src">>)), All)
Middle == [Makefile(Rule(On(<<"x", "y">>), On(<<"src">>), On(<<"src">>)), All)
             EXCEPT !.intermediate = {"x"}]
Middles == [Chain EXCEPT !.intermediate = {"x", "y"}]
KeptMiddles == [Middles EXCEPT !.precious = {"x"}, !.secondary = {"y"}]
(* What is behind the intermediate file is made in a slot beside make.     *)
BehindMiddle == [Chain EXCEPT !.intermediate = {"x"}]
SharedMiddle == [Makefile(Rule(On(<<"x">>), On(<<"src">>), On(<<"x">>)), All)
                   EXCEPT !.intermediate = {"x"}, !.goals = <<"prog", "y">>]
Pair == [Diamond EXCEPT !.also = [f \in Names |-> IF f \in {"x", "y"} THEN {"x", "y"} ELSE {}]]
Cycle == Makefile(Rule(On(<<"x", "src">>), On(<<"y">>), On(<<"prog", "src">>)), All)
MiddleCycle == [Cycle EXCEPT !.intermediate = {"x", "y"}]
PreciousPair == [Pair EXCEPT !.precious = {"x"}]
PhonyGoal == [Diamond EXCEPT !.phony = {"prog"}]
Force == [Makefile(Rule(On(<<"x", "y">>), <<>>, On(<<"src">>)), All)
            EXCEPT !.cmds = [f \in Names |-> IF f \in {"prog", "y"} THEN "touch" ELSE "none"]]
KeepOld == [Chain EXCEPT !.cmds = [@ EXCEPT !["x"] = "keep"]]
EmptyRule == [Chain EXCEPT !.cmds = [@ EXCEPT !["x"] = "empty"]]
NoRule == Makefile(Rule(On(<<"x", "y">>), On(<<"src">>), <<>>), {"prog", "x"})

AllMakefiles ==
  {Chain, Diamond, Order, Middle, Middles, KeptMiddles, SharedMiddle, Pair,
   PreciousPair, Cycle, MiddleCycle, PhonyGoal, Force, KeepOld, EmptyRule, NoRule}
TidyMakefiles ==
  {Chain, Diamond, Order, Middle, Middles, KeptMiddles, BehindMiddle, SharedMiddle, Pair}

(* The prerequisite of an intermediate file whose commands do not make it  *)
(* newer: they leave it as it is, or they fail and make goes on.           *)
MiddleKeep == [Chain EXCEPT !.intermediate = {"x"}, !.cmds = [@ EXCEPT !["y"] = "keep"]]
MiddleFail == [Chain EXCEPT !.intermediate = {"x"}, !.keepGoing = TRUE]
WaitingMakefiles == {MiddleKeep, MiddleFail}

(* Each of them under each option; the tidy ones twice, without failures.  *)
(* BehindMiddle without the failure under -k for which make waits for ever.  *)
MCMakefiles ==
  UNION {{r, [r EXCEPT !.keepGoing = TRUE], [r EXCEPT !.alwaysMake = TRUE],
          [r EXCEPT !.maxJobs = 1]} : r \in AllMakefiles} \cup
  {BehindMiddle, [BehindMiddle EXCEPT !.alwaysMake = TRUE], [BehindMiddle EXCEPT !.maxJobs = 1],
   [BehindMiddle EXCEPT !.keepGoing = TRUE, !.mayFail = {"x"}]} \cup
  {[r EXCEPT !.mayFail = {}, !.rounds = 2] : r \in TidyMakefiles}
=============================================================================
