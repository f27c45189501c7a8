------------------------------ MODULE MakeJobs ------------------------------
(***************************************************************************)
(* The jobs of GNU make (make-3.81/job.c, and the parts of main.c and      *)
(* remake.c that drive it): a make started with -jN and the makes that run *)
(* below it as commands share N-1 tokens in a pipe.  Each of them starts a *)
(* job with the free token that it owns or with one read from the pipe,    *)
(* reaps its children, puts the tokens back, keeps jobs waiting while the  *)
(* load is high, and ends early when a job fails or a signal arrives.      *)
(*                                                                         *)
(* What other processes and signals can come between is a step of its own: *)
(* every wait, the dup of the pipe, the read, every fork.  SIGCHLD becomes *)
(* pending when a child dies and its handler runs at any later time.       *)
(***************************************************************************)
EXTENDS Integers, Sequences, FiniteSets

CONSTANTS
  Makes,       \* the processes that run make
  Top,         \* the one started by the user, with -j Slots
  Slots,       \* the number of job slots
  Jobs,        \* the targets whose commands are run
  Builds       \* the builds: makefiles, options and what may go wrong

None == "none"
NotDying == -1

(***************************************************************************)
(* A build:                                                                *)
(*   todo[m]      the jobs of m, prerequisites before their targets        *)
(*   after[j]     the prerequisites of j among the jobs of its make        *)
(*   lines[j]     the command lines of j: "run", "nop" or a make           *)
(*   ignore       the jobs whose commands are marked with -                *)
(*   noRule       the targets for which there is no rule                   *)
(*   mayFail      the jobs whose commands may fail                         *)
(*   serial       the makes that got no pipe from their parent (-j1)       *)
(*   notParallel  the makes with .NOTPARALLEL                              *)
(*   keepGoing, loadLimit, forkFails, signals                              *)
(*                -k; -l; whether vfork may fail; whether SIGTERM may come *)
(***************************************************************************)
IsBuild(x) ==
  /\ x.todo \in [Makes -> Seq(Jobs)]
  /\ \A m, n \in Makes : \A i \in DOMAIN x.todo[m], k \in DOMAIN x.todo[n] :
       x.todo[m][i] = x.todo[n][k] => m = n /\ i = k
  /\ x.after \in [Jobs -> SUBSET Jobs]
  /\ \A m \in Makes : \A i \in DOMAIN x.todo[m] : \A d \in x.after[x.todo[m][i]] :
       \E k \in 1 .. (i - 1) : x.todo[m][k] = d
  /\ x.lines \in [Jobs -> Seq({"run", "nop"} \cup (Makes \ {Top}))]
  /\ \A j, k \in Jobs : \A i \in DOMAIN x.lines[j], n \in DOMAIN x.lines[k] :
       x.lines[j][i] = x.lines[k][n] /\ x.lines[j][i] \in Makes => j = k /\ i = n
  /\ Top \notin x.serial
  /\ {x.keepGoing, x.loadLimit, x.forkFails, x.signals} \subseteq BOOLEAN

ASSUME JobsAssumption ==
  /\ IsFiniteSet(Makes) /\ IsFiniteSet(Jobs)
  /\ Top \in Makes /\ None \notin Jobs
  /\ Slots \in Nat /\ Slots > 1
  /\ Makes \cap {"run", "nop"} = {}
  /\ \A name \in DOMAIN Builds : IsBuild(Builds[name])

VARIABLES
  build,    \* the name of the build, chosen at the start
  pipe,     \* the number of tokens in the pipe
  pc,       \* pc[m]: where m is
  ret,      \* where m goes on after reap_children
  wret,     \* where m goes on after start_waiting_jobs
  block,    \* the first argument of reap_children
  pos,      \* the position of m in Todo[m] during a pass over the goals
  tokens,   \* jobserver_tokens
  children, \* the chain of children; job_slots_used is its length
  waiting,  \* the chain of jobs that wait for the load to go down
  rfd,      \* whether job_rfd is open
  sigchld,  \* whether SIGCHLD is pending
  term,     \* SIGTERM: "no", "sent", or "handling"
  status,   \* the exit status; NotDying before die
  state,    \* command_state of the file
  result,   \* update_status of the file
  line,     \* the number of the next command line
  proc      \* the process of the current line

jobVars == <<state, result, line, proc>>
vars == <<build, pipe, pc, ret, wret, block, pos, tokens, children, waiting, rfd,
          sigchld, term, status, state, result, line, proc>>

Todo == Builds[build].todo
After == Builds[build].after
Lines == Builds[build].lines
Ignore == Builds[build].ignore
NoRule == Builds[build].noRule
MayFail == Builds[build].mayFail
Serial == Builds[build].serial
NotParallel == Builds[build].notParallel
KeepGoing == Builds[build].keepGoing
LoadLimit == Builds[build].loadLimit
ForkFails == Builds[build].forkFails
Signals == Builds[build].signals

Owner(j) == CHOOSE m \in Makes : \E i \in DOMAIN Todo[m] : Todo[m][i] = j
JobsOf(m) == {Todo[m][i] : i \in DOMAIN Todo[m]}
Runs(j, m) == \E i \in DOMAIN Lines[j] : Lines[j][i] = m
JobServer(m) == m \notin Serial
Alive(m) == pc[m] \notin {"off", "exited", "internal"}

(* Mutated form: the master writes a token for itself, too. *)
InitialTokensAll == Slots

(* The master writes a token for every slot but the first.                 *)
InitialTokens == Slots - 1

JobsInit ==
  /\ build \in DOMAIN Builds
  /\ pipe = InitialTokens
  /\ pc = [m \in Makes |-> IF m = Top THEN "chain" ELSE "off"]
  /\ ret = [m \in Makes |-> "pass"]
  /\ wret = [m \in Makes |-> "block"]
  /\ block = [m \in Makes |-> FALSE]
  /\ pos = [m \in Makes |-> 1]
  /\ tokens = [m \in Makes |-> 0]
  /\ children = [m \in Makes |-> {}]
  /\ waiting = [m \in Makes |-> <<>>]
  /\ rfd = [m \in Makes |-> JobServer(m)]
  /\ sigchld = [m \in Makes |-> FALSE]
  /\ term = [m \in Makes |-> "no"]
  /\ status = [m \in Makes |-> NotDying]
  /\ state = [j \in Jobs |-> "not_started"]
  /\ result = [j \in Jobs |-> None]
  /\ line = [j \in Jobs |-> 1]
  /\ proc = [j \in Jobs |-> None]

-----------------------------------------------------------------------------
(* Control: a jump, and the two procedures that are called from many places. *)
Goto(m, l) == pc' = [pc EXCEPT ![m] = l]

CallReap(m, blocking, back) ==
  /\ Goto(m, "reap")
  /\ ret' = [ret EXCEPT ![m] = back]
  /\ block' = [block EXCEPT ![m] = blocking]

(* start_waiting_jobs returns at once when no job waits.                    *)
CallStartWaiting(m, back) ==
  IF waiting[m] = <<>>
    THEN Goto(m, back) /\ UNCHANGED wret
    ELSE Goto(m, "waiting") /\ wret' = [wret EXCEPT ![m] = back]

(* The first line from line[j] on that starts a process; 0 if there is none. *)
NextLine(j) ==
  LET more == {i \in line[j] .. Len(Lines[j]) : Lines[j][i] # "nop"}
  IN  IF more = {} THEN 0 ELSE CHOOSE i \in more : \A k \in more : i <= k

(* What start_job_command can make of job j: a process for the next line,  *)
(* success when only empty lines are left, or failure when vfork fails.    *)
Started(j) ==
  IF NextLine(j) = 0
    THEN {[state |-> "finished", result |-> "ok", proc |-> None,
           line |-> Len(Lines[j]) + 1]}
    ELSE {[state |-> "running", result |-> None, proc |-> "alive",
           line |-> NextLine(j) + 1]}
         \cup IF ForkFails
              THEN {[state |-> "finished", result |-> "failed", proc |-> None,
                     line |-> NextLine(j) + 1]}
              ELSE {}

Becomes(j, o) ==
  /\ state' = [state EXCEPT ![j] = o.state]
  /\ result' = [result EXCEPT ![j] = o.result]
  /\ line' = [line EXCEPT ![j] = o.line]
  /\ proc' = [proc EXCEPT ![j] = o.proc]

(* m goes to l; a make that is the new command of j begins.                *)
GotoAndExec(m, l, j, o) ==
  pc' = [x \in Makes |->
           IF x = m THEN l
           ELSE IF o.proc = "alive" /\ Lines[j][o.line - 1] = x THEN "chain"
           ELSE pc[x]]

(* Mutated form: the free token is put into the pipe, too. *)
TokenBackAll(m) == IF JobServer(m) THEN 1 ELSE 0

(* free_child: the last job of a make ran with the free token.             *)
TokenBack(m) == IF JobServer(m) /\ tokens[m] > 1 THEN 1 ELSE 0

free_child(m) ==
  /\ pipe' = pipe + TokenBack(m)
  /\ tokens' = [tokens EXCEPT ![m] = @ - 1]

(* The load is too high, and there is a job to wait for.                   *)
MustWait(m) == children[m] # {} /\ LoadLimit

(* start_waiting_job of j, where w are the other jobs that wait: put back, *)
(* then go to kept; or begin, then go to begun.                            *)
start_waiting_job(m, j, w, kept, begun) ==
  \/ /\ MustWait(m)
     /\ waiting' = [waiting EXCEPT ![m] = <<j>> \o w]
     /\ state' = [state EXCEPT ![j] = "running"]
     /\ Goto(m, kept)
     /\ UNCHANGED <<pipe, tokens, children, result, line, proc>>
  \/ \E o \in Started(j) :
       /\ waiting' = [waiting EXCEPT ![m] = w]
       /\ Becomes(j, o)
       /\ \/ /\ o.proc = "alive"
             /\ children' = [children EXCEPT ![m] = @ \cup {j}]
             /\ GotoAndExec(m, begun, j, o)
             /\ UNCHANGED <<pipe, tokens>>
          \/ /\ o.proc = None /\ tokens[m] = 0
             /\ Goto(m, "internal")
             /\ UNCHANGED <<pipe, tokens, children>>
          \/ /\ o.proc = None /\ tokens[m] > 0
             /\ free_child(m)
             /\ Goto(m, begun)
             /\ UNCHANGED children

-----------------------------------------------------------------------------
(* reap_children *)

(* What becomes of job j of m once its process has ended: a failure, the   *)
(* next command line, or the end.  Nothing is started after a signal.      *)
Reaped(m, j) ==
  LET over(s, r) == {[state |-> s, result |-> r, proc |-> None, line |-> line[j]]}
  IN  IF proc[j] = "lost" /\ j \notin Ignore
        THEN over(IF term[m] = "handling" THEN state[j] ELSE "finished", "failed")
      ELSE IF term[m] = "handling"
        THEN over(state[j], IF line[j] <= Len(Lines[j]) THEN "failed" ELSE "ok")
      ELSE Started(j)

(* A job that failed ends this make, unless -k was given or it is ending.  *)
Fatal(m, j) ==
  /\ proc[j] = "lost" /\ j \notin Ignore
  /\ ~KeepGoing /\ status[m] # 2 /\ term[m] # "handling"

ReapChild(m) ==
  /\ pc[m] = "reap"
  /\ \E j \in children[m] : \E o \in Reaped(m, j) :
       /\ proc[j] \in {"won", "lost"}
       /\ Becomes(j, o)
       /\ \/ /\ o.proc = "alive"
             /\ GotoAndExec(m, "reap", j, o)
             /\ UNCHANGED <<pipe, tokens, children, block, status>>
          \/ /\ o.proc = None /\ tokens[m] = 0
             /\ Goto(m, "internal")
             /\ UNCHANGED <<pipe, tokens, children, block, status>>
          \/ /\ o.proc = None /\ tokens[m] > 0
             /\ children' = [children EXCEPT ![m] = @ \ {j}]
             /\ free_child(m)
             /\ block' = [block EXCEPT ![m] = FALSE]
             /\ IF Fatal(m, j)
                  THEN Goto(m, "die") /\ status' = [status EXCEPT ![m] = 2]
                  ELSE UNCHANGED <<pc, status>>
  /\ UNCHANGED <<ret, wret, pos, waiting, rfd, sigchld, term>>

(* No child is left, or none is dead and there is no need to wait.         *)
ReapNoMore(m) ==
  /\ pc[m] = "reap"
  /\ \/ children[m] = {}
     \/ ~block[m] /\ \A j \in children[m] : proc[j] = "alive"
  /\ Goto(m, ret[m])
  /\ UNCHANGED <<pipe, ret, wret, block, pos, tokens, children, waiting, rfd,
                 sigchld, term, status, jobVars>>

-----------------------------------------------------------------------------
(* start_waiting_jobs: reap what is dead, then try the job that began to   *)
(* wait last; stop when it has to wait again.                              *)
ReapBeforeWaiting(m) ==
  /\ pc[m] = "waiting"
  /\ CallReap(m, FALSE, "try")
  /\ UNCHANGED <<pipe, wret, pos, tokens, children, waiting, rfd, sigchld,
                 term, status, jobVars>>

TryWaiting(m) ==
  /\ pc[m] = "try"
  /\ start_waiting_job(m, Head(waiting[m]), Tail(waiting[m]), wret[m],
                       IF Len(waiting[m]) = 1 THEN wret[m] ELSE "waiting")
  /\ UNCHANGED <<ret, wret, block, pos, rfd, sigchld, term, status>>

-----------------------------------------------------------------------------
(* update_goal_chain, for one goal whose prerequisites are Todo[m].        *)
Cur(m) == Todo[m][pos[m]]
Unfinished(j) == state[j] \in {"running", "deps_running"}

StartPass(m) ==
  /\ pc[m] = "chain"
  /\ CallStartWaiting(m, "block")
  /\ pos' = [pos EXCEPT ![m] = 1]
  /\ UNCHANGED <<pipe, ret, block, tokens, children, waiting, rfd, sigchld,
                 term, status, jobVars>>

AwaitChild(m) ==
  /\ pc[m] = "block"
  /\ CallReap(m, TRUE, "pass")
  /\ UNCHANGED <<pipe, wret, pos, tokens, children, waiting, rfd, sigchld,
                 term, status, jobVars>>

(* Without -k the pass ends at the first prerequisite that has failed.     *)
Considered(m) == {Todo[m][i] : i \in 1 .. (pos[m] - 1)}

(* Mutated form: the status of one prerequisite replaces that of the others. *)
FailedLast(m) == pos[m] > 1 /\ result[Todo[m][pos[m] - 1]] = "failed"

Failed(m) == \E j \in Considered(m) : result[j] = "failed"
PassOver(m) == pos[m] > Len(Todo[m]) \/ (Failed(m) /\ ~KeepGoing)

(* At the end of a pass: another one while jobs run, else the exit status. *)
EndPass(m) ==
  /\ pc[m] = "pass" /\ PassOver(m)
  /\ IF \E j \in Considered(m) : Unfinished(j)
       THEN Goto(m, "chain") /\ UNCHANGED status
       ELSE /\ Goto(m, "die")
            /\ status' = [status EXCEPT ![m] = IF Failed(m) THEN 2 ELSE 0]
  /\ UNCHANGED <<pipe, ret, wret, block, pos, tokens, children, waiting, rfd,
                 sigchld, term, jobVars>>

(* update_file_1: nothing to do yet, or no more; prerequisites still being *)
(* made; prerequisites failed.                                             *)
Consider(m) ==
  /\ pc[m] = "pass" /\ ~PassOver(m)
  /\ LET j == Cur(m) IN
       \/ /\ state[j] \in {"running", "finished"}
          /\ UNCHANGED <<state, result>>
       \/ /\ state[j] \in {"not_started", "deps_running"}
          /\ \E d \in After[j] : Unfinished(d)
          /\ state' = [state EXCEPT ![j] = "deps_running"]
          /\ UNCHANGED result
       \/ /\ state[j] \in {"not_started", "deps_running"}
          /\ \A d \in After[j] : ~Unfinished(d)
          /\ \/ \E d \in After[j] : result[d] = "failed"
             \/ j \in NoRule /\ KeepGoing
          /\ state' = [state EXCEPT ![j] = "finished"]
          /\ result' = [result EXCEPT ![j] = "failed"]
  /\ pos' = [pos EXCEPT ![m] = @ + 1]
  /\ UNCHANGED <<pipe, pc, ret, wret, block, tokens, children, waiting, rfd,
                 sigchld, term, status, line, proc>>

(* Mutated form: a job does not wait for its prerequisites. *)
ReadyAlways(j) == state[j] \in {"not_started", "deps_running"}

(* All prerequisites have been made.                                       *)
Ready(j) ==
  /\ state[j] \in {"not_started", "deps_running"}
  /\ \A d \in After[j] : ~Unfinished(d) /\ result[d] # "failed"

(* new_job begins with the jobs that wait already.                         *)
BeginJob(m) ==
  /\ pc[m] = "pass" /\ ~PassOver(m)
  /\ Ready(Cur(m)) /\ Cur(m) \notin NoRule
  /\ state' = [state EXCEPT ![Cur(m)] = "not_started"]
  /\ CallStartWaiting(m, "new")
  /\ UNCHANGED <<pipe, ret, block, pos, tokens, children, waiting, rfd,
                 sigchld, term, status, result, line, proc>>

(* complain: no rule to make a target, and no -k.                          *)
NoRuleToMake(m) ==
  /\ pc[m] = "pass" /\ ~PassOver(m)
  /\ Ready(Cur(m)) /\ Cur(m) \in NoRule /\ ~KeepGoing
  /\ Goto(m, "die")
  /\ status' = [status EXCEPT ![m] = 2]
  /\ UNCHANGED <<pipe, ret, wret, block, pos, tokens, children, waiting, rfd,
                 sigchld, term, jobVars>>

-----------------------------------------------------------------------------
(* new_job: get a slot.                                                    *)
ReapBeforeJob(m) ==
  /\ pc[m] = "new"
  /\ CallReap(m, FALSE, "need")
  /\ UNCHANGED <<pipe, wret, pos, tokens, children, waiting, rfd, sigchld,
                 term, status, jobVars>>

(* Without a pipe there is one slot: wait until no child is left.          *)
NeedSlot(m) ==
  /\ pc[m] = "need" /\ ~JobServer(m)
  /\ IF children[m] = {}
       THEN Goto(m, "got") /\ UNCHANGED <<ret, block>>
       ELSE CallReap(m, TRUE, "need")
  /\ UNCHANGED <<pipe, wret, pos, tokens, children, waiting, rfd, sigchld,
                 term, status, jobVars>>

(* The free token, or a fresh descriptor to read the pipe with.            *)
NeedToken(m) ==
  /\ pc[m] = "need" /\ JobServer(m)
  /\ IF tokens[m] = 0
       THEN Goto(m, "got") /\ UNCHANGED <<ret, block, rfd>>
       ELSE CallReap(m, FALSE, "woke") /\ rfd' = [rfd EXCEPT ![m] = TRUE]
  /\ UNCHANGED <<pipe, wret, pos, tokens, children, waiting, sigchld,
                 term, status, jobVars>>

StartWaitingBeforeRead(m) ==
  /\ pc[m] = "woke"
  /\ CallStartWaiting(m, "check")
  /\ UNCHANGED <<pipe, ret, block, pos, tokens, children, waiting, rfd,
                 sigchld, term, status, jobVars>>

CheckBeforeRead(m) ==
  /\ pc[m] = "check"
  /\ Goto(m, IF tokens[m] = 0 THEN "got"
             ELSE IF children[m] = {} THEN "internal" ELSE "read")
  /\ UNCHANGED <<pipe, ret, wret, block, pos, tokens, children, waiting, rfd,
                 sigchld, term, status, jobVars>>

(* read: EBADF, a token, or sleep.                                         *)
Read(m) ==
  /\ pc[m] = "read"
  /\ \/ ~rfd[m] /\ Goto(m, "need") /\ UNCHANGED pipe
     \/ rfd[m] /\ pipe > 0 /\ Goto(m, "got") /\ pipe' = pipe - 1
     \/ rfd[m] /\ pipe = 0 /\ Goto(m, "asleep") /\ UNCHANGED pipe
  /\ UNCHANGED <<ret, wret, block, pos, tokens, children, waiting, rfd,
                 sigchld, term, status, jobVars>>

(* A token arrives in the pipe, or the alarm that is set when jobs wait.   *)
Wake(m) ==
  /\ pc[m] = "asleep"
  /\ \/ pipe > 0 /\ Goto(m, "got") /\ pipe' = pipe - 1
     \/ waiting[m] # <<>> /\ Goto(m, "need") /\ UNCHANGED pipe
  /\ UNCHANGED <<ret, wret, block, pos, tokens, children, waiting, rfd,
                 sigchld, term, status, jobVars>>

CountToken(m) ==
  /\ pc[m] = "got"
  /\ tokens' = [tokens EXCEPT ![m] = @ + 1]
  /\ Goto(m, "start")
  /\ UNCHANGED <<pipe, ret, wret, block, pos, children, waiting, rfd,
                 sigchld, term, status, jobVars>>

StartJob(m) ==
  /\ pc[m] = "start"
  /\ start_waiting_job(m, Cur(m), waiting[m], "linear", "linear")
  /\ UNCHANGED <<ret, wret, block, pos, rfd, sigchld, term, status>>

(* A make that runs one job at a time waits for it.                        *)
Linear(m) ==
  /\ pc[m] = "linear"
  /\ IF m \in Serial \cup NotParallel /\ state[Cur(m)] = "running"
       THEN CallReap(m, TRUE, "linear") /\ UNCHANGED pos
       ELSE /\ Goto(m, "pass")
            /\ pos' = [pos EXCEPT ![m] = @ + 1]
            /\ UNCHANGED <<ret, block>>
  /\ UNCHANGED <<pipe, wret, tokens, children, waiting, rfd, sigchld,
                 term, status, jobVars>>

-----------------------------------------------------------------------------
(* die and signals *)

(* The make that m ran under learns how m ended.                           *)
Exit(m, how) ==
  /\ Goto(m, "exited")
  /\ proc' = [j \in Jobs |-> IF proc[j] = "alive" /\ Lines[j][line[j] - 1] = m
                             THEN how ELSE proc[j]]
  /\ sigchld' = [x \in Makes |->
       sigchld[x] \/ \E j \in JobsOf(x) :
                        proc[j] = "alive" /\ Lines[j][line[j] - 1] = m]

(* Mutated form: die does not wait for the children. *)
DieWaitsNot(m) == FALSE

(* die waits for the children that still run.                              *)
DieWaits(m) == children[m] # {}

Die(m) ==
  /\ pc[m] = "die" /\ DieWaits(m)
  /\ CallReap(m, TRUE, "die")
  /\ UNCHANGED <<pipe, wret, pos, tokens, children, waiting, rfd, sigchld,
                 term, status, jobVars>>

(* clean_jobserver: after a failure, write back what was not written yet.  *)
clean_jobserver(m) ==
  IF JobServer(m) /\ status[m] = 2
    THEN pipe' = pipe + tokens[m] /\ tokens' = [tokens EXCEPT ![m] = 0]
    ELSE UNCHANGED <<pipe, tokens>>

DieExit(m) ==
  /\ pc[m] = "die" /\ ~DieWaits(m)
  /\ clean_jobserver(m)
  /\ Exit(m, IF status[m] = 0 THEN "won" ELSE "lost")
  /\ UNCHANGED <<ret, wret, block, pos, children, waiting, rfd, term, status,
                 state, result, line>>

(* Mutated form: the handler leaves the descriptor open. *)
ClosedNot(m) == rfd

(* The handler closes the copy of the pipe's descriptor.                   *)
Closed(m) == [rfd EXCEPT ![m] = FALSE]

(* child_handler; it interrupts a read that sleeps.                        *)
child_handler(m) ==
  /\ UNCHANGED build
  /\ Alive(m) /\ sigchld[m]
  /\ sigchld' = [sigchld EXCEPT ![m] = FALSE]
  /\ rfd' = Closed(m)
  /\ IF pc[m] = "asleep" THEN Goto(m, "need") ELSE UNCHANGED pc
  /\ UNCHANGED <<pipe, ret, wret, block, pos, tokens, children, waiting,
                 term, status, jobVars>>

(* fatal_error_signal: pass the signal on to the makes below, and wait.    *)
fatal_error_signal(m) ==
  /\ UNCHANGED build
  /\ Alive(m) /\ term[m] = "sent"
  /\ term' = [x \in Makes |->
       IF x = m THEN "handling"
       ELSE IF term[x] = "no" /\ \E j \in children[m] :
                 proc[j] = "alive" /\ Lines[j][line[j] - 1] = x THEN "sent"
       ELSE term[x]]
  /\ Goto(m, "fatal")
  /\ UNCHANGED <<pipe, ret, wret, block, pos, tokens, children, waiting, rfd,
                 sigchld, status, jobVars>>

FatalOver(m) == pc[m] = "fatal" /\ children[m] = {}

FatalWaits(m) ==
  /\ pc[m] = "fatal" /\ children[m] # {}
  /\ CallReap(m, TRUE, "fatal")
  /\ UNCHANGED <<pipe, wret, pos, tokens, children, waiting, rfd, sigchld,
                 term, status, jobVars>>

(* The signal ends the process; what waits in the chain is not put back.   *)
FatalExit(m) ==
  /\ FatalOver(m)
  /\ Exit(m, "lost")
  /\ UNCHANGED <<pipe, ret, wret, block, pos, tokens, children, waiting, rfd,
                 term, status, state, result, line>>

-----------------------------------------------------------------------------
(* The world: commands end, and somebody terminates a make.                *)
EndCommand(j) ==
  /\ UNCHANGED build
  /\ proc[j] = "alive" /\ Lines[j][line[j] - 1] = "run"
  /\ \E how \in {"won", "lost"} :
       /\ how = "lost" => j \in MayFail \/ term[Owner(j)] # "no"
       /\ proc' = [proc EXCEPT ![j] = how]
  /\ sigchld' = [sigchld EXCEPT ![Owner(j)] = TRUE]
  /\ UNCHANGED <<pipe, pc, ret, wret, block, pos, tokens, children, waiting,
                 rfd, term, status, state, result, line>>

Terminate(m) ==
  /\ UNCHANGED build
  /\ Signals /\ Alive(m) /\ \A x \in Makes : term[x] = "no"
  /\ term' = [term EXCEPT ![m] = "sent"]
  /\ UNCHANGED <<pipe, pc, ret, wret, block, pos, tokens, children, waiting,
                 rfd, sigchld, status, jobVars>>

(* Everything has ended. *)
AllEnded ==
  /\ \A m \in Makes : ~Alive(m)
  /\ UNCHANGED vars

Step(m) ==
  /\ UNCHANGED build
  /\ \/ ReapChild(m) \/ ReapNoMore(m)
     \/ ReapBeforeWaiting(m) \/ TryWaiting(m)
     \/ StartPass(m) \/ AwaitChild(m) \/ EndPass(m)
     \/ Consider(m) \/ BeginJob(m) \/ NoRuleToMake(m)
     \/ ReapBeforeJob(m) \/ NeedSlot(m) \/ NeedToken(m)
     \/ StartWaitingBeforeRead(m) \/ CheckBeforeRead(m) \/ Read(m) \/ Wake(m)
     \/ CountToken(m) \/ StartJob(m) \/ Linear(m)
     \/ Die(m) \/ DieExit(m) \/ FatalWaits(m) \/ FatalExit(m)

JobsNext ==
  \/ \E m \in Makes :
       Step(m) \/ child_handler(m) \/ fatal_error_signal(m) \/ Terminate(m)
  \/ \E j \in Jobs : EndCommand(j)
  \/ AllEnded

JobsSpec == JobsInit /\ [][JobsNext]_vars

(* The kernel runs every process that can run, delivers signals, and every *)
(* command ends some day.                                                  *)
JobsFairness ==
  /\ \A m \in Makes : WF_vars(Step(m)) /\ WF_vars(child_handler(m))
                      /\ WF_vars(fatal_error_signal(m))
  /\ \A j \in Jobs : WF_vars(EndCommand(j))

JobsFairSpec == JobsSpec /\ JobsFairness

-----------------------------------------------------------------------------
(* The types of the state. *)
JobsTypeOK ==
  /\ build \in DOMAIN Builds
  /\ pipe \in Nat
  /\ pc \in [Makes -> {"off", "chain", "block", "pass", "new", "need", "woke",
                       "check", "read", "asleep", "got", "start", "linear",
                       "reap", "waiting", "try", "die", "fatal", "exited",
                       "internal"}]
  /\ ret \in [Makes -> {"pass", "need", "woke", "linear", "try", "die", "fatal"}]
  /\ wret \in [Makes -> {"block", "new", "check"}]
  /\ block \in [Makes -> BOOLEAN]
  /\ pos \in [Makes -> Nat \ {0}]
  /\ tokens \in [Makes -> Nat]
  /\ children \in [Makes -> SUBSET Jobs]
  /\ waiting \in [Makes -> Seq(Jobs)]
  /\ rfd \in [Makes -> BOOLEAN]
  /\ sigchld \in [Makes -> BOOLEAN]
  /\ term \in [Makes -> {"no", "sent", "handling"}]
  /\ status \in [Makes -> {NotDying, 0, 2}]
  /\ state \in [Jobs -> {"not_started", "deps_running", "running", "finished"}]
  /\ result \in [Jobs -> {None, "ok", "failed"}]
  /\ line \in [Jobs -> Nat \ {0}]
  /\ proc \in [Jobs -> {None, "alive", "won", "lost"}]

(* A make that dies of a failure while a job of it waits for the load      *)
(* writes all its tokens back, the free one included (clean_jobserver,     *)
(* main.c 3005): one slot too many from then on.                           *)
Surplus ==
  Cardinality({m \in Makes : /\ JobServer(m) /\ pc[m] = "exited"
                             /\ status[m] = 2 /\ waiting[m] # <<>>})

(* Between them all, the makes never run more commands at the same time    *)
(* than there are slots, commands that are makes not counted, but for the  *)
(* slots that clean_jobserver makes up.                                    *)
NeverMoreThanSlots ==
  Cardinality({j \in Jobs : proc[j] = "alive" /\ Lines[j][line[j] - 1] = "run"})
    <= Slots + Surplus

(* The tokens that m has taken out of the pipe: its first job has none.    *)
Taken(m) ==
  IF JobServer(m) /\ Alive(m)
    THEN (IF tokens[m] > 0 THEN tokens[m] - 1 ELSE 0)
         + (IF pc[m] = "got" /\ tokens[m] > 0 THEN 1 ELSE 0)
    ELSE 0

(* The tokens that the makes hold, where m holds t[m] of them. *)
Held(t) == UNION {{m} \X (1 .. t[m]) : m \in Makes}

(* Whatever fails, ends or waits, no token is made up in any other way,    *)
(* and none is lost unless a signal has ended a make.                      *)
TokensConserved ==
  LET all == pipe + Cardinality(Held([m \in Makes |-> Taken(m)]))
  IN  /\ JobsTypeOK
      /\ all <= Slots - 1 + Surplus
      /\ (\A m \in Makes : term[m] = "no") => all = Slots - 1 + Surplus

(* A make that has ended, by itself or by a signal, leaves no command or   *)
(* make running below it.                                                  *)
NobodyLeftBehind ==
  \A m \in Makes : pc[m] = "exited" => \A j \in JobsOf(m) : proc[j] # "alive"

(* No command of a target runs before its prerequisites have been made.    *)
PrerequisitesFirst ==
  \A j \in Jobs : proc[j] = "alive" =>
    \A d \in After[j] : state[d] = "finished" /\ result[d] = "ok"

(* Success means that everything was made; with -k, all that could be made *)
(* was: a target fails for a reason of its own or for a prerequisite.      *)
ExitTells ==
  \A m \in Makes : pc[m] = "exited" /\ term[m] = "no" =>
    /\ status[m] = 0 => \A j \in JobsOf(m) : state[j] = "finished" /\ result[j] = "ok"
    /\ KeepGoing => \A j \in JobsOf(m) :
         /\ state[j] = "finished"
         /\ result[j] = "failed" =>
              \/ j \in MayFail \cup NoRule \/ ForkFails
              \/ \E d \in After[j] : result[d] = "failed"
              \/ \E x \in Makes : Runs(j, x) /\ (status[x] # 0 \/ term[x] # "no")

(* No death of a child is missed by a make that goes to sleep: whatever    *)
(* the order of deaths, signals and reads, every make that was started     *)
(* ends, and none in one of the two internal errors of job.c (free_child   *)
(* without a token to return, new_job waiting for the pipe without a child *)
(* that would wake it).                                                    *)
EveryMakeEnds == <>(\A m \in Makes : pc[m] \in {"off", "exited"})

=============================================================================
