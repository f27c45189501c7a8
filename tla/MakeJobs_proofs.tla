--------------------------- MODULE MakeJobs_proofs ---------------------------
(***************************************************************************)
(* Proofs about MakeJobs, for any number of makes, jobs and slots and for  *)
(* every build: the tokens are conserved, no more commands run than there  *)
(* are slots, no internal error is met, nobody is left behind, and         *)
(* prerequisites are made first.                                           *)
(*                                                                         *)
(* The argument: a step of a make touches its own variables and its own    *)
(* jobs (OthersKept), so that what holds of each make by itself (Local) is *)
(* kept by the steps of the others.  A make is started by one command line *)
(* only and so only once (StartedOnce).  The counter jobserver_tokens is   *)
(* the length of both chains, plus the job that new_job is about to start  *)
(* (SlotsOf); hence no step of the pipe can lose or make up a token.       *)
(***************************************************************************)
EXTENDS MakeJobs, FiniteSetTheorems, TLAPS

(* The types of the variables, apart. *)
PcType ==
  pc \in [Makes -> {"off", "chain", "block", "pass", "new", "need", "woke",
                    "check", "read", "asleep", "got", "start", "linear",
                    "reap", "waiting", "try", "die", "fatal", "exited",
                    "internal"}]

ReturnType ==
  /\ ret \in [Makes -> {"pass", "need", "woke", "linear", "try", "die", "fatal"}]
  /\ wret \in [Makes -> {"block", "new", "check"}]
  /\ term \in [Makes -> {"no", "sent", "handling"}]
  /\ status \in [Makes -> {NotDying, 0, 2}]

FlagType ==
  /\ block \in [Makes -> BOOLEAN]
  /\ rfd \in [Makes -> BOOLEAN]
  /\ sigchld \in [Makes -> BOOLEAN]

CountType ==
  /\ pipe \in Nat
  /\ pos \in [Makes -> Nat \ {0}]
  /\ tokens \in [Makes -> Nat]

ChainType ==
  /\ children \in [Makes -> SUBSET Jobs]
  /\ waiting \in [Makes -> Seq(Jobs)]

JobType ==
  /\ state \in [Jobs -> {"not_started", "deps_running", "running", "finished"}]
  /\ result \in [Jobs -> {None, "ok", "failed"}]
  /\ line \in [Jobs -> Nat \ {0}]
  /\ proc \in [Jobs -> {None, "alive", "won", "lost"}]

LEMMA TypeParts ==
  JobsTypeOK <=> /\ build \in DOMAIN Builds
                 /\ PcType /\ ReturnType /\ FlagType /\ CountType /\ ChainType /\ JobType
  BY DEF JobsTypeOK, PcType, ReturnType, FlagType, CountType, ChainType, JobType

(* new_job works for the target at pos[m], and has not started it yet;     *)
InWaitingJobs(m) ==
  pc[m] \in {"waiting", "try"} \/ (pc[m] = "reap" /\ ret[m] = "try")

Before(m) ==
  \/ pc[m] \in {"new", "need", "woke", "check", "read", "asleep", "got", "start"}
  \/ pc[m] = "reap" /\ ret[m] \in {"need", "woke"}
  \/ InWaitingJobs(m) /\ wret[m] \in {"new", "check"}

(* or has started it, and may wait for it.                                 *)
Begun(m) == pc[m] = "linear" \/ (pc[m] = "reap" /\ ret[m] = "linear")

(* m is about to exit; m handles a signal. *)
Dying(m) == pc[m] = "die" \/ (pc[m] = "reap" /\ ret[m] = "die")
Handling(m) == pc[m] = "fatal" \/ (pc[m] = "reap" /\ ret[m] = "fatal")

Made(j) == state[j] = "finished" /\ result[j] = "ok"

(* Where a pass is: everything in front of pos[m] has been considered.     *)
PassOf(m) ==
  /\ pos[m] <= Len(Todo[m]) + 1
  /\ \A i \in 1 .. (pos[m] - 1) : state[Todo[m][i]] # "not_started"
  /\ Before(m) \/ Begun(m) => pos[m] <= Len(Todo[m])
  /\ Before(m) => /\ state[Cur(m)] = "not_started"
                  /\ \A d \in After[Cur(m)] : Made(d)
  /\ Begun(m) => state[Cur(m)] # "not_started"

(* Which variables are set where. *)
FlowOf(m) ==
  /\ pc[m] # "internal"
  /\ pc[m] = "off" => /\ children[m] = {} /\ waiting[m] = <<>>
                      /\ tokens[m] = 0 /\ status[m] = NotDying
                      /\ term[m] # "handling"
  /\ InWaitingJobs(m) => waiting[m] # <<>>
  /\ (pc[m] \in {"woke", "check", "read", "asleep"} \/ ret[m] = "woke"
        \/ wret[m] = "check") => JobServer(m)
  /\ pc[m] \in {"read", "asleep"} => tokens[m] > 0
  /\ pc[m] = "check" /\ waiting[m] # <<>> => children[m] # {}
  /\ ~JobServer(m) => waiting[m] = <<>>
  /\ ~JobServer(m) /\ pc[m] \in {"got", "start"} => children[m] = {}
  /\ Handling(m) <=> term[m] = "handling" /\ Alive(m)
  /\ Dying(m) => status[m] # NotDying
  /\ status[m] # NotDying => Dying(m) \/ Handling(m) \/ pc[m] = "exited"
  /\ pc[m] = "exited" => /\ children[m] = {}
                         /\ term[m] = "handling" \/ status[m] # NotDying

(* The chain of children: every process, and what waits has none.          *)
ChainsOf(m) ==
  /\ \A j \in children[m] :
       /\ j \in JobsOf(m) /\ proc[j] # None
       /\ state[j] = "running" /\ result[j] = None
  /\ \A i \in DOMAIN waiting[m] :
       /\ waiting[m][i] \in JobsOf(m) /\ proc[waiting[m][i]] = None
       /\ state[waiting[m][i]] = "running" /\ result[waiting[m][i]] = None
  /\ \A i, k \in DOMAIN waiting[m] : waiting[m][i] = waiting[m][k] => i = k
  /\ \A j \in JobsOf(m) : proc[j] # None => j \in children[m]

(* jobserver_tokens. *)
Used(m) ==
  Cardinality(children[m]) + Len(waiting[m]) + (IF pc[m] = "start" THEN 1 ELSE 0)

SlotsOf(m) ==
  Alive(m) => /\ Used(m) <= tokens[m]
              /\ term[m] # "handling" => Used(m) = tokens[m]

(* The targets of m. *)
TargetsOf(m) ==
  /\ \A j \in JobsOf(m) :
       /\ state[j] = "finished" => result[j] # None
       /\ state[j] \in {"not_started", "deps_running"} => result[j] = None
       /\ state[j] = "running" => \A d \in After[j] : Made(d)
  /\ status[m] = 0 => \A j \in JobsOf(m) : Made(j)
  /\ KeepGoing /\ status[m] # NotDying =>
       \A j \in JobsOf(m) : state[j] = "finished"

(* The lines of a target's commands. *)
LineOf(j) ==
  /\ line[j] <= Len(Lines[j]) + 1
  /\ proc[j] # None => /\ line[j] > 1
                       /\ Lines[j][line[j] - 1] # "nop"

LinesOf(m) == \A j \in JobsOf(m) : LineOf(j)

Local(m) ==
  PassOf(m) /\ FlowOf(m) /\ ChainsOf(m) /\ SlotsOf(m) /\ TargetsOf(m) /\ LinesOf(m)

(* A make that has been started is that of a command line that has been    *)
(* reached, and as long as it lives that line has a process.               *)
StartedOnce ==
  \A x \in Makes \ {Top} :
    /\ pc[x] # "off" =>
         \E j \in Jobs : \E i \in DOMAIN Lines[j] : i < line[j] /\ Lines[j][i] = x
    /\ Alive(x) =>
         \E j \in Jobs : proc[j] = "alive" /\ line[j] > 1 /\ Lines[j][line[j] - 1] = x

(* Why a target may fail. *)
Reason(j) ==
  \/ j \in MayFail \cup NoRule \/ ForkFails
  \/ \E d \in After[j] : result[d] = "failed"
  \/ \E x \in Makes : Runs(j, x) /\ pc[x] = "exited" /\ (status[x] # 0 \/ term[x] # "no")
  \/ \E m \in Makes : j \in JobsOf(m) /\ term[m] # "no"

Reasons ==
  \A j \in Jobs : result[j] = "failed" \/ proc[j] = "lost" => Reason(j)

(* Jobs of no make. *)
Idle == \A j \in Jobs : (\A m \in Makes : j \notin JobsOf(m)) => proc[j] = None /\ result[j] = None

(* A make without a pipe runs one job at a time. *)
OneByOne == \A m \in Makes : ~JobServer(m) => tokens[m] <= 1

Balance ==
  LET all == pipe + Cardinality(Held([m \in Makes |-> Taken(m)]))
  IN  /\ all <= Slots - 1 + Surplus
      /\ (\A m \in Makes : term[m] = "no") => all = Slots - 1 + Surplus

JInv ==
  /\ JobsTypeOK
  /\ \A m \in Makes : Local(m)
  /\ StartedOnce
  /\ Reasons
  /\ Idle
  /\ OneByOne
  /\ Balance

-----------------------------------------------------------------------------
(* Every build is well formed. *)
LEMMA BuildFacts ==
  ASSUME build \in DOMAIN Builds
  PROVE  /\ Todo \in [Makes -> Seq(Jobs)]
         /\ \A m, n \in Makes : \A i \in DOMAIN Todo[m], k \in DOMAIN Todo[n] :
              Todo[m][i] = Todo[n][k] => m = n /\ i = k
         /\ After \in [Jobs -> SUBSET Jobs]
         /\ \A m \in Makes : \A i \in DOMAIN Todo[m] : \A d \in After[Todo[m][i]] :
              \E k \in 1 .. (i - 1) : Todo[m][k] = d
         /\ Lines \in [Jobs -> Seq({"run", "nop"} \cup (Makes \ {Top}))]
         /\ \A j, k \in Jobs : \A i \in DOMAIN Lines[j], n \in DOMAIN Lines[k] :
              Lines[j][i] = Lines[k][n] /\ Lines[j][i] \in Makes => j = k /\ i = n
         /\ JobServer(Top)
  BY JobsAssumption DEF IsBuild, Todo, After, Lines, Serial, JobServer

(* What the build fixes stays as it is. *)
LEMMA BuildKept ==
  ASSUME build' = build
  PROVE  /\ Todo' = Todo /\ After' = After /\ Lines' = Lines
         /\ Ignore' = Ignore /\ NoRule' = NoRule /\ MayFail' = MayFail
         /\ KeepGoing' = KeepGoing /\ ForkFails' = ForkFails
         /\ \A m : JobServer(m)' = JobServer(m)
         /\ \A m : JobsOf(m)' = JobsOf(m)
         /\ \A j, m : Runs(j, m)' = Runs(j, m)
  BY DEF Todo, After, Lines, Ignore, NoRule, MayFail, KeepGoing, ForkFails,
         Serial, JobServer, JobsOf, Runs

(* Every job has one owner. *)
LEMMA OneOwner ==
  ASSUME build \in DOMAIN Builds, NEW m \in Makes
  PROVE  /\ JobsOf(m) \subseteq Jobs
         /\ \A n \in Makes : \A j \in JobsOf(m) : j \in JobsOf(n) => m = n
         /\ \A j \in JobsOf(m) : After[j] \subseteq JobsOf(m)
  <1>0. Todo[m] \in Seq(Jobs) /\ DOMAIN Todo[m] = 1 .. Len(Todo[m])
    BY BuildFacts
  <1>1. JobsOf(m) \subseteq Jobs
    BY <1>0 DEF JobsOf
  <1>2. ASSUME NEW n \in Makes, NEW j \in JobsOf(m), j \in JobsOf(n)
        PROVE  m = n
    <2>1. PICK i \in DOMAIN Todo[m] : j = Todo[m][i]
      BY DEF JobsOf
    <2>2. PICK k \in DOMAIN Todo[n] : j = Todo[n][k]
      BY <1>2 DEF JobsOf
    <2>3. Todo[m][i] = Todo[n][k] => m = n
      BY BuildFacts, Zenon
    <2> QED BY <2>1, <2>2, <2>3
  <1>3. ASSUME NEW j \in JobsOf(m), NEW d \in After[j]
        PROVE  d \in JobsOf(m)
    <2>1. PICK i \in DOMAIN Todo[m] : j = Todo[m][i]
      BY DEF JobsOf
    <2>2. PICK k \in 1 .. (i - 1) : Todo[m][k] = d
      BY <2>1, BuildFacts
    <2>3. k \in DOMAIN Todo[m]
      BY <1>0, <2>1, <2>2
    <2> QED BY <2>2, <2>3 DEF JobsOf
  <1> QED
    BY <1>1, <1>2, <1>3

(* Every nonempty set of natural numbers has a smallest element. *)
LEMMA LeastExists ==
  ASSUME NEW T, T \subseteq Nat, T # {}
  PROVE  \E i \in T : \A j \in T : i <= j
  <1>1. PICK i \in T : \A j \in T : ~ (<<j, i>> \in OpToRel(<, Nat))
    BY NatLessThanWellFounded, WFMin
  <1>2. \A j \in T : ~ (j < i)
    BY <1>1 DEF OpToRel
  <1> QED
    BY <1>2

LEMMA NextLineIs ==
  ASSUME JobsTypeOK, NEW j \in Jobs, NextLine(j) # 0
  PROVE  /\ NextLine(j) \in line[j] .. Len(Lines[j])
         /\ Lines[j][NextLine(j)] # "nop"
  <1> DEFINE more == {i \in line[j] .. Len(Lines[j]) : Lines[j][i] # "nop"}
  <1>0. Lines[j] \in Seq({"run", "nop"} \cup (Makes \ {Top})) /\ line[j] \in Nat
    BY BuildFacts DEF JobsTypeOK
  <1>1. more # {} /\ NextLine(j) = CHOOSE i \in more : \A k \in more : i <= k
    BY DEF NextLine
  <1>2. more \subseteq Nat
    BY <1>0
  <1>3. \E i \in more : \A k \in more : i <= k
    <2> HIDE DEF more
    <2> QED BY <1>1, <1>2, LeastExists
  <1>4. NextLine(j) \in more
    BY <1>1, <1>3
  <1> QED
    BY <1>4

(* What start_job_command can come to. *)
LEMMA StartedIs ==
  ASSUME JobsTypeOK, NEW j \in Jobs, LineOf(j), NEW o \in Started(j)
  PROVE  /\ o.line \in Nat /\ line[j] <= o.line /\ o.line <= Len(Lines[j]) + 1
         /\ \/ /\ o.proc = None /\ o.state = "finished"
               /\ o.result \in {"ok", "failed"}
               /\ o.result = "failed" => ForkFails
            \/ /\ o.proc = "alive" /\ o.state = "running" /\ o.result = None
               /\ line[j] < o.line
               /\ Lines[j][o.line - 1] # "nop"
  <1>0. Lines[j] \in Seq({"run", "nop"} \cup (Makes \ {Top})) /\ line[j] \in Nat \ {0}
    BY BuildFacts DEF JobsTypeOK
  <1>1. CASE NextLine(j) = 0
    BY <1>0, <1>1 DEF Started, LineOf, None
  <1>2. CASE NextLine(j) # 0
    BY <1>0, <1>2, NextLineIs DEF Started, None
  <1> QED
    BY <1>1, <1>2

-----------------------------------------------------------------------------
(* Counting what is held. *)
LEMMA ColumnSize ==
  ASSUME NEW m, NEW k \in Nat
  PROVE  IsFiniteSet({m} \X (1 .. k)) /\ Cardinality({m} \X (1 .. k)) = k
  <1>1. IsFiniteSet({m}) /\ Cardinality({m}) = 1
    BY FS_Singleton
  <1>2. IsFiniteSet(1 .. k) /\ Cardinality(1 .. k) = k
    BY FS_Interval
  <1>3. /\ IsFiniteSet({m} \X (1 .. k))
        /\ Cardinality({m} \X (1 .. k)) = Cardinality({m}) * Cardinality(1 .. k)
    BY <1>1, <1>2, FS_Product
  <1> QED
    BY <1>1, <1>2, <1>3

LEMMA HeldFinite ==
  ASSUME NEW t \in [Makes -> Nat]
  PROVE  IsFiniteSet(Held(t)) /\ Cardinality(Held(t)) \in Nat
  <1> DEFINE Column(m) == {m} \X (1 .. t[m])
             f == [m \in Makes |-> Column(m)]
             All == {Column(m) : m \in Makes}
  <1>1. f \in Surjection(Makes, All)
    BY DEF Surjection
  <1>2. IsFiniteSet(All)
    <2> HIDE DEF All, f
    <2> QED BY <1>1, FS_Surjection, JobsAssumption
  <1>3. ASSUME NEW T \in All PROVE IsFiniteSet(T)
    <2>1. PICK m \in Makes : T = Column(m)
      OBVIOUS
    <2> QED BY <2>1, ColumnSize
  <1>4. IsFiniteSet(UNION All)
    <2> HIDE DEF All
    <2> QED BY <1>2, <1>3, FS_UNION
  <1>5. Held(t) = UNION All
    BY DEF Held
  <1> QED
    BY <1>4, <1>5, FS_CardinalityType

(* When one make holds more or fewer, so do all together. *)
LEMMA HeldChanges ==
  ASSUME NEW t \in [Makes -> Nat], NEW u \in [Makes -> Nat], NEW m \in Makes,
         \A n \in Makes \ {m} : u[n] = t[n]
  PROVE  Cardinality(Held(u)) - u[m] = Cardinality(Held(t)) - t[m]
  <1> DEFINE Rest(x) == {p \in Held(x) : p[1] # m}
             Column(x) == {m} \X (1 .. x[m])
  <1>1. ASSUME NEW x \in [Makes -> Nat]
        PROVE  /\ IsFiniteSet(Rest(x))
               /\ Cardinality(Held(x)) = Cardinality(Rest(x)) + x[m]
               /\ Cardinality(Rest(x)) \in Nat
    <2>1. IsFiniteSet(Rest(x)) /\ Cardinality(Rest(x)) \in Nat
      <3>1. Rest(x) \in SUBSET Held(x)
        OBVIOUS
      <3>2. IsFiniteSet(Held(x))
        BY HeldFinite
      <3> QED BY <3>1, <3>2, FS_Subset, FS_CardinalityType
    <2>2. Held(x) = Rest(x) \cup Column(x)
      BY DEF Held
    <2>3. Rest(x) \cap Column(x) = {}
      OBVIOUS
    <2>4. IsFiniteSet(Column(x)) /\ Cardinality(Column(x)) = x[m]
      BY ColumnSize
    <2> HIDE DEF Rest, Column
    <2>5. Cardinality(Rest(x) \cup Column(x))
            = Cardinality(Rest(x)) + Cardinality(Column(x)) - Cardinality({})
      BY <2>1, <2>3, <2>4, FS_Union
    <2> QED BY <2>1, <2>2, <2>4, <2>5, FS_EmptySet
  <1>2. Rest(t) = Rest(u)
    BY DEF Held
  <1> HIDE DEF Rest
  <1> QED
    BY <1>1, <1>2

-----------------------------------------------------------------------------
(* A step of m leaves the other makes and their jobs alone, but for this:  *)
(* a make may be started, a command may end, a signal may be sent.         *)
OthersKept(m) ==
  /\ build' = build
  /\ \A n \in Makes \ {m} :
       /\ pc'[n] = pc[n] \/ (pc[n] = "off" /\ pc'[n] = "chain")
       /\ ret'[n] = ret[n] /\ wret'[n] = wret[n] /\ pos'[n] = pos[n]
       /\ tokens'[n] = tokens[n] /\ children'[n] = children[n]
       /\ waiting'[n] = waiting[n] /\ status'[n] = status[n]
       /\ term'[n] = term[n] \/ (term[n] = "no" /\ term'[n] = "sent")
       /\ \A j \in JobsOf(n) :
            /\ state'[j] = state[j] /\ result'[j] = result[j] /\ line'[j] = line[j]
            /\ \/ proc'[j] = proc[j]
               \/ proc[j] = "alive" /\ proc'[j] \in {"won", "lost"}

LEMMA OthersLocal ==
  ASSUME JobsTypeOK, NEW m, NEW n \in Makes \ {m}, Local(n), OthersKept(m)
  PROVE  Local(n)'
  <1> build' = build
    BY DEF OthersKept
  <1>k. /\ Todo' = Todo /\ After' = After /\ Lines' = Lines /\ KeepGoing' = KeepGoing
        /\ JobServer(n)' = JobServer(n) /\ JobsOf(n)' = JobsOf(n)
    BY BuildKept
  <1>v. /\ pc'[n] = pc[n] \/ (pc[n] = "off" /\ pc'[n] = "chain")
        /\ ret'[n] = ret[n] /\ wret'[n] = wret[n] /\ pos'[n] = pos[n]
        /\ tokens'[n] = tokens[n] /\ children'[n] = children[n]
        /\ waiting'[n] = waiting[n] /\ status'[n] = status[n]
        /\ term'[n] = term[n] \/ (term[n] = "no" /\ term'[n] = "sent")
    BY DEF OthersKept
  <1>j. \A j \in JobsOf(n) :
            /\ state'[j] = state[j] /\ result'[j] = result[j] /\ line'[j] = line[j]
            /\ \/ proc'[j] = proc[j]
               \/ proc[j] = "alive" /\ proc'[j] \in {"won", "lost"}
    BY DEF OthersKept
  <1>t. Todo[n] \in Seq(Jobs) /\ DOMAIN Todo[n] = 1 .. Len(Todo[n]) /\ pos[n] \in Nat \ {0}
    BY BuildFacts DEF JobsTypeOK
  <1>a. /\ \A j \in JobsOf(n) : After[j] \subseteq JobsOf(n)
        /\ \A i \in 1 .. Len(Todo[n]) : Todo[n][i] \in JobsOf(n)
    BY <1>t, OneOwner DEF JobsTypeOK, JobsOf
  <1>1. PassOf(n)'
    <2>1. PassOf(n)
      BY DEF Local
    <2>2. Before(n)' => Before(n)
      BY <1>v DEF Before, InWaitingJobs
    <2>3. Begun(n)' => Begun(n)
      BY <1>v DEF Begun
    <2>4. \A i \in 1 .. (pos[n] - 1) : state'[Todo[n][i]] = state[Todo[n][i]]
      BY <1>j, <1>a, <1>t, <2>1 DEF PassOf
    <2>5. pos[n] <= Len(Todo[n]) => Cur(n)' = Cur(n) /\ Cur(n) \in JobsOf(n)
      BY <1>k, <1>v, <1>a, <1>t DEF Cur
    <2>6. \A j \in JobsOf(n) : Made(j)' = Made(j)
      BY <1>j DEF Made
    <2>7. /\ pos'[n] <= Len(Todo'[n]) + 1
          /\ \A i \in 1 .. (pos'[n] - 1) : state'[Todo'[n][i]] # "not_started"
      BY <1>k, <1>v, <2>1, <2>4 DEF PassOf
    <2>8. Before(n)' \/ Begun(n)' => pos'[n] <= Len(Todo'[n])
      BY <1>k, <1>v, <2>1, <2>2, <2>3 DEF PassOf
    <2>9. Before(n)' => /\ state'[Cur(n)'] = "not_started"
                        /\ \A d \in After'[Cur(n)'] : Made(d)'
      BY <1>k, <1>v, <1>j, <1>a, <2>1, <2>2, <2>5, <2>6 DEF PassOf
    <2>10. Begun(n)' => state'[Cur(n)'] # "not_started"
      BY <1>j, <2>1, <2>3, <2>5 DEF PassOf
    <2> QED BY <2>7, <2>8, <2>9, <2>10 DEF PassOf
  <1>2. FlowOf(n)'
    BY <1>k, <1>v DEF Local, FlowOf, InWaitingJobs, Handling, Dying, Alive, JobServer
  <1>3. ChainsOf(n)'
    BY <1>k, <1>v, <1>j DEF Local, ChainsOf, None
  <1>4. SlotsOf(n)'
    <2>1. CASE pc'[n] = pc[n]
      BY <1>v, <2>1 DEF Local, SlotsOf, Used, Alive
    <2>2. CASE pc[n] = "off" /\ pc'[n] = "chain"
      <3>1. children'[n] = {} /\ waiting'[n] = <<>> /\ tokens'[n] = 0
        BY <1>v, <2>2 DEF Local, FlowOf
      <3>2. Used(n)' = 0
        BY <2>2, <3>1, FS_EmptySet DEF Used
      <3> QED BY <3>1, <3>2 DEF SlotsOf
    <2> QED BY <1>v, <2>1, <2>2
  <1>5. TargetsOf(n)'
    BY <1>k, <1>v, <1>j, <1>a DEF Local, TargetsOf, Made
  <1>6. LinesOf(n)'
    BY <1>k, <1>j DEF Local, LinesOf, LineOf, None
  <1> QED
    BY <1>1, <1>2, <1>3, <1>4, <1>5, <1>6 DEF Local

(* Steps that leave the chains and the jobs alone. *)
LEMMA JobsUntouched ==
  ASSUME NEW m \in Makes, Local(m), build' = build,
         UNCHANGED <<children, waiting, jobVars>>
  PROVE  /\ ChainsOf(m)' /\ LinesOf(m)'
         /\ status'[m] = status[m] => TargetsOf(m)'
  <1>k. /\ After' = After /\ Lines' = Lines /\ KeepGoing' = KeepGoing
        /\ JobsOf(m)' = JobsOf(m)
    BY BuildKept
  <1> USE DEF jobVars
  <1>1. ChainsOf(m)'
    BY <1>k DEF Local, ChainsOf
  <1>2. LinesOf(m)'
    BY <1>k DEF Local, LinesOf, LineOf
  <1>3. status'[m] = status[m] => TargetsOf(m)'
    BY <1>k DEF Local, TargetsOf, Made
  <1> QED
    BY <1>1, <1>2, <1>3

-----------------------------------------------------------------------------
(* The steps of a make that only move on. *)
USE DEF Goto, CallReap, CallStartWaiting, jobVars

LEMMA ReapNoMoreLocal ==
  ASSUME NEW m \in Makes, JobsTypeOK, Local(m), build' = build, ReapNoMore(m)
  PROVE  JobsTypeOK' /\ OthersKept(m) /\ Local(m)'
  <1>k. /\ Todo' = Todo /\ After' = After
        /\ JobServer(m)' = JobServer(m)
    BY BuildKept
  <1>1. JobsTypeOK'
    BY DEF JobsTypeOK, ReapNoMore
  <1>2. OthersKept(m)
    BY DEF JobsTypeOK, OthersKept, ReapNoMore
  <1>3. PassOf(m)'
    BY <1>k, ZenonT(60) DEF JobsTypeOK, Local, PassOf, Before, Begun, InWaitingJobs, Cur, Made, ReapNoMore
  <1>4. FlowOf(m)'
    BY <1>k, ZenonT(60) DEF JobsTypeOK, Local, FlowOf, InWaitingJobs, Handling, Dying, Alive, ReapNoMore
  <1>5. SlotsOf(m)'
    BY DEF JobsTypeOK, Local, SlotsOf, Used, Alive, ReapNoMore
  <1>6. ChainsOf(m)' /\ LinesOf(m)' /\ TargetsOf(m)'
    BY JobsUntouched DEF ReapNoMore
  <1> QED
    BY <1>1, <1>2, <1>3, <1>4, <1>5, <1>6 DEF Local

LEMMA ReapBeforeWaitingLocal ==
  ASSUME NEW m \in Makes, JobsTypeOK, Local(m), build' = build, ReapBeforeWaiting(m)
  PROVE  JobsTypeOK' /\ OthersKept(m) /\ Local(m)'
  <1>k. /\ Todo' = Todo /\ After' = After
        /\ JobServer(m)' = JobServer(m)
    BY BuildKept
  <1>1. JobsTypeOK'
    BY DEF JobsTypeOK, ReapBeforeWaiting
  <1>2. OthersKept(m)
    BY DEF JobsTypeOK, OthersKept, ReapBeforeWaiting
  <1>3. PassOf(m)'
    BY <1>k DEF JobsTypeOK, Local, PassOf, Before, Begun, InWaitingJobs, Cur, Made, ReapBeforeWaiting
  <1>4. FlowOf(m)'
    BY <1>k DEF JobsTypeOK, Local, FlowOf, InWaitingJobs, Handling, Dying, Alive, ReapBeforeWaiting
  <1>5. SlotsOf(m)'
    BY DEF JobsTypeOK, Local, SlotsOf, Used, Alive, ReapBeforeWaiting
  <1>6. ChainsOf(m)' /\ LinesOf(m)' /\ TargetsOf(m)'
    BY JobsUntouched DEF ReapBeforeWaiting
  <1> QED
    BY <1>1, <1>2, <1>3, <1>4, <1>5, <1>6 DEF Local

LEMMA StartPassLocal ==
  ASSUME NEW m \in Makes, JobsTypeOK, Local(m), build' = build, StartPass(m)
  PROVE  JobsTypeOK' /\ OthersKept(m) /\ Local(m)'
  <1>k. /\ Todo' = Todo /\ After' = After
        /\ JobServer(m)' = JobServer(m)
    BY BuildKept
  <1>1. JobsTypeOK'
    <2>0. PcType /\ ReturnType /\ FlagType /\ CountType /\ ChainType /\ JobType
      BY TypeParts
    <2>1. PcType'
      BY <2>0 DEF PcType, ReturnType, StartPass
    <2>2. ReturnType'
      BY <2>0 DEF ReturnType, StartPass
    <2>3. FlagType'
      BY <2>0 DEF FlagType, StartPass
    <2>4. CountType'
      BY <2>0 DEF CountType, StartPass
    <2>5. ChainType' /\ JobType'
      BY <2>0 DEF ChainType, JobType, StartPass
    <2> QED
      BY <2>1, <2>2, <2>3, <2>4, <2>5
      DEF JobsTypeOK, PcType, ReturnType, FlagType, CountType, ChainType, JobType
  <1>2. OthersKept(m)
    BY DEF JobsTypeOK, OthersKept, StartPass
  <1>3. PassOf(m)'
    <2>1. CASE waiting[m] = <<>>
      BY <1>k, <2>1 DEF JobsTypeOK, Local, PassOf, Before, Begun, InWaitingJobs, Cur, Made, StartPass
    <2>2. CASE waiting[m] # <<>>
      BY <1>k, <2>2 DEF JobsTypeOK, Local, PassOf, Before, Begun, InWaitingJobs, Cur, Made, StartPass
    <2> QED BY <2>1, <2>2 DEF StartPass
  <1>4. FlowOf(m)'
    BY <1>k DEF JobsTypeOK, Local, FlowOf, InWaitingJobs, Handling, Dying, Alive, StartPass
  <1>5. SlotsOf(m)'
    BY DEF JobsTypeOK, Local, SlotsOf, Used, Alive, StartPass
  <1>6. ChainsOf(m)' /\ LinesOf(m)' /\ TargetsOf(m)'
    BY JobsUntouched DEF StartPass
  <1> QED
    BY <1>1, <1>2, <1>3, <1>4, <1>5, <1>6 DEF Local

LEMMA AwaitChildLocal ==
  ASSUME NEW m \in Makes, JobsTypeOK, Local(m), build' = build, AwaitChild(m)
  PROVE  JobsTypeOK' /\ OthersKept(m) /\ Local(m)'
  <1>k. /\ Todo' = Todo /\ After' = After
        /\ JobServer(m)' = JobServer(m)
    BY BuildKept
  <1>1. JobsTypeOK'
    BY DEF JobsTypeOK, AwaitChild
  <1>2. OthersKept(m)
    BY DEF JobsTypeOK, OthersKept, AwaitChild
  <1>3. PassOf(m)'
    BY <1>k DEF JobsTypeOK, Local, PassOf, Before, Begun, InWaitingJobs, Cur, Made, AwaitChild
  <1>4. FlowOf(m)'
    BY <1>k DEF JobsTypeOK, Local, FlowOf, InWaitingJobs, Handling, Dying, Alive, AwaitChild
  <1>5. SlotsOf(m)'
    BY DEF JobsTypeOK, Local, SlotsOf, Used, Alive, AwaitChild
  <1>6. ChainsOf(m)' /\ LinesOf(m)' /\ TargetsOf(m)'
    BY JobsUntouched DEF AwaitChild
  <1> QED
    BY <1>1, <1>2, <1>3, <1>4, <1>5, <1>6 DEF Local

LEMMA ReapBeforeJobLocal ==
  ASSUME NEW m \in Makes, JobsTypeOK, Local(m), build' = build, ReapBeforeJob(m)
  PROVE  JobsTypeOK' /\ OthersKept(m) /\ Local(m)'
  <1>k. /\ Todo' = Todo /\ After' = After
        /\ JobServer(m)' = JobServer(m)
    BY BuildKept
  <1>1. JobsTypeOK'
    BY DEF JobsTypeOK, ReapBeforeJob
  <1>2. OthersKept(m)
    BY DEF JobsTypeOK, OthersKept, ReapBeforeJob
  <1>3. PassOf(m)'
    BY <1>k DEF JobsTypeOK, Local, PassOf, Before, Begun, InWaitingJobs, Cur, Made, ReapBeforeJob
  <1>4. FlowOf(m)'
    BY <1>k DEF JobsTypeOK, Local, FlowOf, InWaitingJobs, Handling, Dying, Alive, ReapBeforeJob
  <1>5. SlotsOf(m)'
    BY DEF JobsTypeOK, Local, SlotsOf, Used, Alive, ReapBeforeJob
  <1>6. ChainsOf(m)' /\ LinesOf(m)' /\ TargetsOf(m)'
    BY JobsUntouched DEF ReapBeforeJob
  <1> QED
    BY <1>1, <1>2, <1>3, <1>4, <1>5, <1>6 DEF Local

LEMMA NeedSlotLocal ==
  ASSUME NEW m \in Makes, JobsTypeOK, Local(m), build' = build, NeedSlot(m)
  PROVE  JobsTypeOK' /\ OthersKept(m) /\ Local(m)'
  <1>k. /\ Todo' = Todo /\ After' = After
        /\ JobServer(m)' = JobServer(m)
    BY BuildKept
  <1>1. JobsTypeOK'
    <2>0. PcType /\ ReturnType /\ FlagType /\ CountType /\ ChainType /\ JobType
      BY TypeParts
    <2>1. PcType'
      BY <2>0 DEF PcType, ReturnType, NeedSlot
    <2>2. ReturnType'
      BY <2>0 DEF ReturnType, NeedSlot
    <2>3. FlagType'
      BY <2>0 DEF FlagType, NeedSlot
    <2>4. CountType'
      BY <2>0 DEF CountType, NeedSlot
    <2>5. ChainType' /\ JobType'
      BY <2>0 DEF ChainType, JobType, NeedSlot
    <2> QED
      BY <2>1, <2>2, <2>3, <2>4, <2>5
      DEF JobsTypeOK, PcType, ReturnType, FlagType, CountType, ChainType, JobType
  <1>2. OthersKept(m)
    BY DEF JobsTypeOK, OthersKept, NeedSlot
  <1>3. PassOf(m)'
    BY <1>k DEF JobsTypeOK, Local, PassOf, Before, Begun, InWaitingJobs, Cur, Made, NeedSlot
  <1>4. FlowOf(m)'
    BY <1>k DEF JobsTypeOK, Local, FlowOf, InWaitingJobs, Handling, Dying, Alive, NeedSlot
  <1>5. SlotsOf(m)'
    BY DEF JobsTypeOK, Local, SlotsOf, Used, Alive, NeedSlot
  <1>6. ChainsOf(m)' /\ LinesOf(m)' /\ TargetsOf(m)'
    BY JobsUntouched DEF NeedSlot
  <1> QED
    BY <1>1, <1>2, <1>3, <1>4, <1>5, <1>6 DEF Local

LEMMA NeedTokenLocal ==
  ASSUME NEW m \in Makes, JobsTypeOK, Local(m), build' = build, NeedToken(m)
  PROVE  JobsTypeOK' /\ OthersKept(m) /\ Local(m)'
  <1>k. /\ Todo' = Todo /\ After' = After
        /\ JobServer(m)' = JobServer(m)
    BY BuildKept
  <1>1. JobsTypeOK'
    <2>0. PcType /\ ReturnType /\ FlagType /\ CountType /\ ChainType /\ JobType
      BY TypeParts
    <2>1. PcType'
      BY <2>0 DEF PcType, ReturnType, NeedToken
    <2>2. ReturnType'
      BY <2>0 DEF ReturnType, NeedToken
    <2>3. FlagType'
      BY <2>0 DEF FlagType, NeedToken
    <2>4. CountType'
      BY <2>0 DEF CountType, NeedToken
    <2>5. ChainType' /\ JobType'
      BY <2>0 DEF ChainType, JobType, NeedToken
    <2> QED
      BY <2>1, <2>2, <2>3, <2>4, <2>5
      DEF JobsTypeOK, PcType, ReturnType, FlagType, CountType, ChainType, JobType
  <1>2. OthersKept(m)
    BY DEF JobsTypeOK, OthersKept, NeedToken
  <1>3. PassOf(m)'
    <2>1. CASE tokens[m] = 0
      BY <1>k, <2>1 DEF JobsTypeOK, Local, PassOf, Before, Begun, InWaitingJobs, Cur, Made, NeedToken
    <2>2. CASE tokens[m] # 0
      BY <1>k, <2>2 DEF JobsTypeOK, Local, PassOf, Before, Begun, InWaitingJobs, Cur, Made, NeedToken
    <2> QED BY <2>1, <2>2 DEF NeedToken
  <1>4. FlowOf(m)'
    BY <1>k DEF JobsTypeOK, Local, FlowOf, InWaitingJobs, Handling, Dying, Alive, NeedToken
  <1>5. SlotsOf(m)'
    BY DEF JobsTypeOK, Local, SlotsOf, Used, Alive, NeedToken
  <1>6. ChainsOf(m)' /\ LinesOf(m)' /\ TargetsOf(m)'
    BY JobsUntouched DEF NeedToken
  <1> QED
    BY <1>1, <1>2, <1>3, <1>4, <1>5, <1>6 DEF Local

LEMMA StartWaitingBeforeReadLocal ==
  ASSUME NEW m \in Makes, JobsTypeOK, Local(m), build' = build, StartWaitingBeforeRead(m)
  PROVE  JobsTypeOK' /\ OthersKept(m) /\ Local(m)'
  <1>k. /\ Todo' = Todo /\ After' = After
        /\ JobServer(m)' = JobServer(m)
    BY BuildKept
  <1>1. JobsTypeOK'
    BY ZenonT(60) DEF JobsTypeOK, StartWaitingBeforeRead
  <1>2. OthersKept(m)
    BY DEF JobsTypeOK, OthersKept, StartWaitingBeforeRead
  <1>3. PassOf(m)'
    BY <1>k DEF JobsTypeOK, Local, PassOf, Before, Begun, InWaitingJobs, Cur, Made, StartWaitingBeforeRead
  <1>4. FlowOf(m)'
    BY <1>k DEF JobsTypeOK, Local, FlowOf, InWaitingJobs, Handling, Dying, Alive, StartWaitingBeforeRead
  <1>5. SlotsOf(m)'
    BY DEF JobsTypeOK, Local, SlotsOf, Used, Alive, StartWaitingBeforeRead
  <1>6. ChainsOf(m)' /\ LinesOf(m)' /\ TargetsOf(m)'
    BY JobsUntouched DEF StartWaitingBeforeRead
  <1> QED
    BY <1>1, <1>2, <1>3, <1>4, <1>5, <1>6 DEF Local

LEMMA CheckBeforeReadLocal ==
  ASSUME NEW m \in Makes, JobsTypeOK, Local(m), build' = build, CheckBeforeRead(m)
  PROVE  JobsTypeOK' /\ OthersKept(m) /\ Local(m)'
  <1>k. /\ Todo' = Todo /\ After' = After
        /\ JobServer(m)' = JobServer(m)
    BY BuildKept
  <1>1. JobsTypeOK'
    BY DEF JobsTypeOK, CheckBeforeRead
  <1>2. OthersKept(m)
    BY DEF JobsTypeOK, OthersKept, CheckBeforeRead
  <1>3. PassOf(m)'
    BY <1>k DEF JobsTypeOK, Local, PassOf, Before, Begun, InWaitingJobs, Cur, Made, CheckBeforeRead
  <1>4. FlowOf(m)'
    <2>1. waiting[m] = <<>> /\ children[m] = {} => tokens[m] = 0
      <3>1. Used(m) = tokens[m]
        BY DEF CheckBeforeRead, Local, FlowOf, Handling, SlotsOf, Alive
      <3>2. children[m] = {} => Cardinality(children[m]) = 0
        BY FS_EmptySet
      <3> QED BY <3>1, <3>2 DEF Used, CheckBeforeRead
    <2>2. tokens[m] # 0 => children[m] # {}
      BY <2>1 DEF Local, FlowOf, CheckBeforeRead
    <2> QED
      BY <1>k, <2>2
      DEF JobsTypeOK, Local, FlowOf, InWaitingJobs, Handling, Dying, Alive, CheckBeforeRead
  <1>5. SlotsOf(m)'
    BY DEF JobsTypeOK, Local, SlotsOf, Used, Alive, CheckBeforeRead
  <1>6. ChainsOf(m)' /\ LinesOf(m)' /\ TargetsOf(m)'
    BY JobsUntouched DEF CheckBeforeRead
  <1> QED
    BY <1>1, <1>2, <1>3, <1>4, <1>5, <1>6 DEF Local

LEMMA ReadLocal ==
  ASSUME NEW m \in Makes, JobsTypeOK, Local(m), build' = build, Read(m)
  PROVE  JobsTypeOK' /\ OthersKept(m) /\ Local(m)'
  <1>k. /\ Todo' = Todo /\ After' = After
        /\ JobServer(m)' = JobServer(m)
    BY BuildKept
  <1>1. JobsTypeOK'
    <2>0. PcType /\ ReturnType /\ FlagType /\ CountType /\ ChainType /\ JobType
      BY TypeParts
    <2>1. PcType'
      BY <2>0 DEF PcType, ReturnType, Read
    <2>2. ReturnType'
      BY <2>0 DEF ReturnType, Read
    <2>3. FlagType'
      BY <2>0 DEF FlagType, Read
    <2>4. CountType'
      BY <2>0 DEF CountType, Read
    <2>5. ChainType' /\ JobType'
      BY <2>0 DEF ChainType, JobType, Read
    <2> QED
      BY <2>1, <2>2, <2>3, <2>4, <2>5
      DEF JobsTypeOK, PcType, ReturnType, FlagType, CountType, ChainType, JobType
  <1>2. OthersKept(m)
    BY DEF JobsTypeOK, OthersKept, Read
  <1>3. PassOf(m)'
    BY <1>k DEF JobsTypeOK, Local, PassOf, Before, Begun, InWaitingJobs, Cur, Made, Read
  <1>4. FlowOf(m)'
    BY <1>k DEF JobsTypeOK, Local, FlowOf, InWaitingJobs, Handling, Dying, Alive, Read
  <1>5. SlotsOf(m)'
    BY DEF JobsTypeOK, Local, SlotsOf, Used, Alive, Read
  <1>6. ChainsOf(m)' /\ LinesOf(m)' /\ TargetsOf(m)'
    BY JobsUntouched DEF Read
  <1> QED
    BY <1>1, <1>2, <1>3, <1>4, <1>5, <1>6 DEF Local

LEMMA WakeLocal ==
  ASSUME NEW m \in Makes, JobsTypeOK, Local(m), build' = build, Wake(m)
  PROVE  JobsTypeOK' /\ OthersKept(m) /\ Local(m)'
  <1>k. /\ Todo' = Todo /\ After' = After
        /\ JobServer(m)' = JobServer(m)
    BY BuildKept
  <1>1. JobsTypeOK'
    <2>1. CASE UNCHANGED pipe
      BY <2>1 DEF JobsTypeOK, Wake
    <2>2. CASE pipe > 0 /\ pc' = [pc EXCEPT ![m] = "got"] /\ pipe' = pipe - 1
      BY <2>2 DEF JobsTypeOK, Wake
    <2> QED BY <2>1, <2>2 DEF Wake
  <1>2. OthersKept(m)
    BY DEF JobsTypeOK, OthersKept, Wake
  <1>3. PassOf(m)'
    BY <1>k DEF JobsTypeOK, Local, PassOf, Before, Begun, InWaitingJobs, Cur, Made, Wake
  <1>4. FlowOf(m)'
    BY <1>k DEF JobsTypeOK, Local, FlowOf, InWaitingJobs, Handling, Dying, Alive, Wake
  <1>5. SlotsOf(m)'
    BY DEF JobsTypeOK, Local, SlotsOf, Used, Alive, Wake
  <1>6. ChainsOf(m)' /\ LinesOf(m)' /\ TargetsOf(m)'
    BY JobsUntouched DEF Wake
  <1> QED
    BY <1>1, <1>2, <1>3, <1>4, <1>5, <1>6 DEF Local

LEMMA LinearLocal ==
  ASSUME NEW m \in Makes, JobsTypeOK, Local(m), build' = build, Linear(m)
  PROVE  JobsTypeOK' /\ OthersKept(m) /\ Local(m)'
  <1>k. /\ Todo' = Todo /\ After' = After
        /\ JobServer(m)' = JobServer(m)
    BY BuildKept
  <1>1. JobsTypeOK'
    <2>0. PcType /\ ReturnType /\ FlagType /\ CountType /\ ChainType /\ JobType
      BY TypeParts
    <2>1. PcType'
      BY <2>0 DEF PcType, ReturnType, Linear
    <2>2. ReturnType'
      BY <2>0 DEF ReturnType, Linear
    <2>3. FlagType'
      BY <2>0 DEF FlagType, Linear
    <2>4. CountType'
      BY <2>0 DEF CountType, Linear
    <2>5. ChainType' /\ JobType'
      BY <2>0 DEF ChainType, JobType, Linear
    <2> QED
      BY <2>1, <2>2, <2>3, <2>4, <2>5
      DEF JobsTypeOK, PcType, ReturnType, FlagType, CountType, ChainType, JobType
  <1>2. OthersKept(m)
    BY DEF JobsTypeOK, OthersKept, Linear
  <1>3. PassOf(m)'
    <2>1. CASE m \in Serial \cup NotParallel /\ state[Cur(m)] = "running"
      BY <1>k, <2>1 DEF JobsTypeOK, Local, PassOf, Before, Begun, InWaitingJobs, Cur, Made, Linear
    <2>2. CASE ~(m \in Serial \cup NotParallel /\ state[Cur(m)] = "running")
      BY <1>k, <2>2 DEF JobsTypeOK, Local, PassOf, Before, Begun, InWaitingJobs, Cur, Made, Linear
    <2> QED BY <2>1, <2>2 DEF Linear
  <1>4. FlowOf(m)'
    BY <1>k DEF JobsTypeOK, Local, FlowOf, InWaitingJobs, Handling, Dying, Alive, Linear
  <1>5. SlotsOf(m)'
    BY DEF JobsTypeOK, Local, SlotsOf, Used, Alive, Linear
  <1>6. ChainsOf(m)' /\ LinesOf(m)' /\ TargetsOf(m)'
    BY JobsUntouched DEF Linear
  <1> QED
    BY <1>1, <1>2, <1>3, <1>4, <1>5, <1>6 DEF Local

LEMMA DieLocal ==
  ASSUME NEW m \in Makes, JobsTypeOK, Local(m), build' = build, Die(m)
  PROVE  JobsTypeOK' /\ OthersKept(m) /\ Local(m)'
  <1>k. /\ Todo' = Todo /\ After' = After
        /\ JobServer(m)' = JobServer(m)
    BY BuildKept
  <1>1. JobsTypeOK'
    BY DEF JobsTypeOK, Die
  <1>2. OthersKept(m)
    BY DEF JobsTypeOK, OthersKept, Die
  <1>3. PassOf(m)'
    BY <1>k DEF JobsTypeOK, Local, PassOf, Before, Begun, InWaitingJobs, Cur, Made, Die
  <1>4. FlowOf(m)'
    BY <1>k DEF JobsTypeOK, Local, FlowOf, InWaitingJobs, Handling, Dying, Alive, Die
  <1>5. SlotsOf(m)'
    BY DEF JobsTypeOK, Local, SlotsOf, Used, Alive, Die
  <1>6. ChainsOf(m)' /\ LinesOf(m)' /\ TargetsOf(m)'
    BY JobsUntouched DEF Die
  <1> QED
    BY <1>1, <1>2, <1>3, <1>4, <1>5, <1>6 DEF Local

LEMMA FatalWaitsLocal ==
  ASSUME NEW m \in Makes, JobsTypeOK, Local(m), build' = build, FatalWaits(m)
  PROVE  JobsTypeOK' /\ OthersKept(m) /\ Local(m)'
  <1>k. /\ Todo' = Todo /\ After' = After
        /\ JobServer(m)' = JobServer(m)
    BY BuildKept
  <1>1. JobsTypeOK'
    BY DEF JobsTypeOK, FatalWaits
  <1>2. OthersKept(m)
    BY DEF JobsTypeOK, OthersKept, FatalWaits
  <1>3. PassOf(m)'
    BY <1>k DEF JobsTypeOK, Local, PassOf, Before, Begun, InWaitingJobs, Cur, Made, FatalWaits
  <1>4. FlowOf(m)'
    BY <1>k DEF JobsTypeOK, Local, FlowOf, InWaitingJobs, Handling, Dying, Alive, FatalWaits
  <1>5. SlotsOf(m)'
    BY DEF JobsTypeOK, Local, SlotsOf, Used, Alive, FatalWaits
  <1>6. ChainsOf(m)' /\ LinesOf(m)' /\ TargetsOf(m)'
    BY JobsUntouched DEF FatalWaits
  <1> QED
    BY <1>1, <1>2, <1>3, <1>4, <1>5, <1>6 DEF Local

LEMMA child_handlerLocal ==
  ASSUME NEW m \in Makes, JobsTypeOK, Local(m), build' = build, child_handler(m)
  PROVE  JobsTypeOK' /\ OthersKept(m) /\ Local(m)'
  <1>k. /\ Todo' = Todo /\ After' = After
        /\ JobServer(m)' = JobServer(m)
    BY BuildKept
  <1>1. JobsTypeOK'
    <2>0. PcType /\ ReturnType /\ FlagType /\ CountType /\ ChainType /\ JobType
      BY TypeParts
    <2>1. PcType'
      BY <2>0 DEF PcType, ReturnType, child_handler
    <2>2. ReturnType'
      BY <2>0 DEF ReturnType, child_handler
    <2>3. FlagType'
      BY <2>0 DEF FlagType, child_handler, Closed
    <2>4. CountType'
      BY <2>0 DEF CountType, child_handler
    <2>5. ChainType' /\ JobType'
      BY <2>0 DEF ChainType, JobType, child_handler
    <2> QED
      BY <2>1, <2>2, <2>3, <2>4, <2>5
      DEF JobsTypeOK, PcType, ReturnType, FlagType, CountType, ChainType, JobType
  <1>2. OthersKept(m)
    BY DEF JobsTypeOK, OthersKept, child_handler
  <1>3. PassOf(m)'
    BY <1>k DEF JobsTypeOK, Local, PassOf, Before, Begun, InWaitingJobs, Cur, Made, child_handler
  <1>4. FlowOf(m)'
    BY <1>k DEF JobsTypeOK, Local, FlowOf, InWaitingJobs, Handling, Dying, Alive, child_handler
  <1>5. SlotsOf(m)'
    BY DEF JobsTypeOK, Local, SlotsOf, Used, Alive, child_handler
  <1>6. ChainsOf(m)' /\ LinesOf(m)' /\ TargetsOf(m)'
    BY JobsUntouched DEF child_handler
  <1> QED
    BY <1>1, <1>2, <1>3, <1>4, <1>5, <1>6 DEF Local

LEMMA TerminateLocal ==
  ASSUME NEW m \in Makes, JobsTypeOK, Local(m), build' = build, Terminate(m)
  PROVE  JobsTypeOK' /\ OthersKept(m) /\ Local(m)'
  <1>k. /\ Todo' = Todo /\ After' = After
        /\ JobServer(m)' = JobServer(m)
    BY BuildKept
  <1>1. JobsTypeOK'
    BY DEF JobsTypeOK, Terminate
  <1>2. OthersKept(m)
    BY DEF JobsTypeOK, OthersKept, Terminate
  <1>3. PassOf(m)'
    BY <1>k DEF JobsTypeOK, Local, PassOf, Before, Begun, InWaitingJobs, Cur, Made, Terminate
  <1>4. FlowOf(m)'
    BY <1>k DEF JobsTypeOK, Local, FlowOf, InWaitingJobs, Handling, Dying, Alive, Terminate
  <1>5. SlotsOf(m)'
    BY DEF JobsTypeOK, Local, SlotsOf, Used, Alive, Terminate
  <1>6. ChainsOf(m)' /\ LinesOf(m)' /\ TargetsOf(m)'
    BY JobsUntouched DEF Terminate
  <1> QED
    BY <1>1, <1>2, <1>3, <1>4, <1>5, <1>6 DEF Local

-----------------------------------------------------------------------------
(* The pass over the targets. *)

(* Where the pass is, in terms of jobs. *)
LEMMA CurIs ==
  ASSUME NEW m \in Makes, JobsTypeOK, pos[m] <= Len(Todo[m])
  PROVE  /\ Cur(m) \in JobsOf(m) /\ Cur(m) \in Jobs
         /\ \A i \in 1 .. (pos[m] - 1) : Todo[m][i] # Cur(m) /\ Todo[m][i] \in JobsOf(m)
         /\ \A d \in After[Cur(m)] : \E i \in 1 .. (pos[m] - 1) : Todo[m][i] = d
  <1>0. /\ Todo[m] \in Seq(Jobs) /\ DOMAIN Todo[m] = 1 .. Len(Todo[m])
        /\ pos[m] \in DOMAIN Todo[m] /\ pos[m] \in Nat
    BY BuildFacts DEF JobsTypeOK
  <1>1. Cur(m) \in JobsOf(m) /\ Cur(m) \in Jobs
    BY <1>0 DEF Cur, JobsOf
  <1>2. ASSUME NEW i \in 1 .. (pos[m] - 1)
        PROVE  Todo[m][i] # Cur(m) /\ Todo[m][i] \in JobsOf(m)
    <2>1. i \in DOMAIN Todo[m] /\ i # pos[m]
      BY <1>0
    <2>2. \A a, b \in DOMAIN Todo[m] : Todo[m][a] = Todo[m][b] => a = b
      BY BuildFacts, Zenon DEF JobsTypeOK
    <2> QED BY <1>0, <2>1, <2>2 DEF Cur, JobsOf
  <1>3. \A d \in After[Cur(m)] : \E i \in 1 .. (pos[m] - 1) : Todo[m][i] = d
    BY <1>0, BuildFacts DEF JobsTypeOK, Cur
  <1> QED
    BY <1>1, <1>2, <1>3

LEMMA EndPassLocal ==
  ASSUME NEW m \in Makes, JobsTypeOK, Local(m), build' = build, EndPass(m)
  PROVE  JobsTypeOK' /\ OthersKept(m) /\ Local(m)'
  <1>k. /\ Todo' = Todo /\ After' = After /\ Lines' = Lines /\ KeepGoing' = KeepGoing
        /\ JobServer(m)' = JobServer(m) /\ JobsOf(m)' = JobsOf(m)
    BY BuildKept
  <1>1. JobsTypeOK'
    <2>0. PcType /\ ReturnType /\ FlagType /\ CountType /\ ChainType /\ JobType
      BY TypeParts
    <2>1. PcType'
      BY <2>0 DEF PcType, ReturnType, EndPass
    <2>2. ReturnType'
      BY <2>0 DEF ReturnType, EndPass
    <2>3. FlagType'
      BY <2>0 DEF FlagType, EndPass
    <2>4. CountType'
      BY <2>0 DEF CountType, EndPass
    <2>5. ChainType' /\ JobType'
      BY <2>0 DEF ChainType, JobType, EndPass
    <2> QED
      BY <2>1, <2>2, <2>3, <2>4, <2>5
      DEF JobsTypeOK, PcType, ReturnType, FlagType, CountType, ChainType, JobType
  <1>2. OthersKept(m)
    BY DEF JobsTypeOK, OthersKept, EndPass
  <1>3. PassOf(m)'
    BY <1>k DEF JobsTypeOK, Local, PassOf, Before, Begun, InWaitingJobs, Cur, Made, EndPass
  <1>4. FlowOf(m)'
    BY <1>k DEF JobsTypeOK, Local, FlowOf, InWaitingJobs, Handling, Dying, Alive, NotDying, EndPass
  <1>5. SlotsOf(m)'
    BY DEF JobsTypeOK, Local, SlotsOf, Used, Alive, EndPass
  <1>6. ChainsOf(m)' /\ LinesOf(m)'
    BY JobsUntouched DEF EndPass
  <1>7. TargetsOf(m)'
    <2>1. CASE status' = status
      BY <2>1, JobsUntouched DEF EndPass
    <2>2. CASE status' # status
      <3>1. /\ \A j \in Considered(m) : ~Unfinished(j)
            /\ status'[m] = 0 => ~Failed(m)
            /\ PassOver(m)
        BY <2>2 DEF EndPass, JobsTypeOK
      <3>2. pos[m] > Len(Todo[m]) => JobsOf(m) \subseteq Considered(m)
        BY BuildFacts DEF JobsTypeOK, JobsOf, Considered
      <3>3. \A j \in Considered(m) : state[j] = "finished"
        <4>1. Considered(m) \subseteq JobsOf(m)
          BY BuildFacts, SMTT(30) DEF JobsTypeOK, JobsOf, Considered, Local, PassOf
        <4>2. \A j \in Considered(m) : state[j] # "not_started"
          BY DEF Considered, Local, PassOf
        <4>3. JobsOf(m) \subseteq Jobs
          BY OneOwner DEF JobsTypeOK
        <4> QED BY <3>1, <4>1, <4>2, <4>3 DEF Unfinished, JobsTypeOK
      <3>4. status'[m] = 0 => \A j \in JobsOf(m) : Made(j)
        <4>1. JobsOf(m) \subseteq Jobs
          BY OneOwner DEF JobsTypeOK
        <4> QED
          BY <3>1, <3>2, <3>3, <4>1
          DEF PassOver, Failed, Made, Local, TargetsOf, JobsTypeOK
      <3>5. KeepGoing => \A j \in JobsOf(m) : state[j] = "finished"
        BY <3>1, <3>2, <3>3 DEF PassOver
      <3>6. UNCHANGED <<state, result>>
        BY DEF EndPass
      <3> QED BY <1>k, <3>4, <3>5, <3>6 DEF Local, TargetsOf, Made
    <2> QED BY <2>1, <2>2
  <1> QED
    BY <1>1, <1>2, <1>3, <1>4, <1>5, <1>6, <1>7 DEF Local

LEMMA NoRuleToMakeLocal ==
  ASSUME NEW m \in Makes, JobsTypeOK, Local(m), build' = build, NoRuleToMake(m)
  PROVE  JobsTypeOK' /\ OthersKept(m) /\ Local(m)'
  <1>k. /\ Todo' = Todo /\ After' = After /\ Lines' = Lines /\ KeepGoing' = KeepGoing
        /\ JobServer(m)' = JobServer(m) /\ JobsOf(m)' = JobsOf(m)
    BY BuildKept
  <1>1. JobsTypeOK'
    <2>0. PcType /\ ReturnType /\ FlagType /\ CountType /\ ChainType /\ JobType
      BY TypeParts
    <2>1. PcType'
      BY <2>0 DEF PcType, ReturnType, NoRuleToMake
    <2>2. ReturnType'
      BY <2>0 DEF ReturnType, NoRuleToMake
    <2>3. FlagType'
      BY <2>0 DEF FlagType, NoRuleToMake
    <2>4. CountType'
      BY <2>0 DEF CountType, NoRuleToMake
    <2>5. ChainType' /\ JobType'
      BY <2>0 DEF ChainType, JobType, NoRuleToMake
    <2> QED
      BY <2>1, <2>2, <2>3, <2>4, <2>5
      DEF JobsTypeOK, PcType, ReturnType, FlagType, CountType, ChainType, JobType
  <1>2. OthersKept(m)
    BY DEF JobsTypeOK, OthersKept, NoRuleToMake
  <1>3. PassOf(m)'
    BY <1>k DEF JobsTypeOK, Local, PassOf, Before, Begun, InWaitingJobs, Cur, Made, NoRuleToMake
  <1>4. FlowOf(m)'
    BY <1>k DEF JobsTypeOK, Local, FlowOf, InWaitingJobs, Handling, Dying, Alive, NotDying, NoRuleToMake
  <1>5. SlotsOf(m)'
    BY DEF JobsTypeOK, Local, SlotsOf, Used, Alive, NoRuleToMake
  <1>6. ChainsOf(m)' /\ LinesOf(m)'
    BY JobsUntouched DEF NoRuleToMake
  <1>7. TargetsOf(m)'
    BY <1>k DEF Local, TargetsOf, Made, JobsTypeOK, NoRuleToMake
  <1> QED
    BY <1>1, <1>2, <1>3, <1>4, <1>5, <1>6, <1>7 DEF Local

LEMMA CountTokenLocal ==
  ASSUME NEW m \in Makes, JobsTypeOK, Local(m), build' = build, CountToken(m)
  PROVE  JobsTypeOK' /\ OthersKept(m) /\ Local(m)'
  <1>k. /\ Todo' = Todo /\ After' = After /\ Lines' = Lines /\ KeepGoing' = KeepGoing
        /\ JobServer(m)' = JobServer(m) /\ JobsOf(m)' = JobsOf(m)
    BY BuildKept
  <1>1. JobsTypeOK'
    <2>0. PcType /\ ReturnType /\ FlagType /\ CountType /\ ChainType /\ JobType
      BY TypeParts
    <2>1. PcType'
      BY <2>0 DEF PcType, ReturnType, CountToken
    <2>2. ReturnType'
      BY <2>0 DEF ReturnType, CountToken
    <2>3. FlagType'
      BY <2>0 DEF FlagType, CountToken
    <2>4. CountType'
      BY <2>0 DEF CountType, CountToken
    <2>5. ChainType' /\ JobType'
      BY <2>0 DEF ChainType, JobType, CountToken
    <2> QED
      BY <2>1, <2>2, <2>3, <2>4, <2>5
      DEF JobsTypeOK, PcType, ReturnType, FlagType, CountType, ChainType, JobType
  <1>2. OthersKept(m)
    BY DEF JobsTypeOK, OthersKept, CountToken
  <1>3. PassOf(m)'
    BY <1>k DEF JobsTypeOK, Local, PassOf, Before, Begun, InWaitingJobs, Cur, Made, CountToken
  <1>4. FlowOf(m)'
    BY <1>k DEF JobsTypeOK, Local, FlowOf, InWaitingJobs, Handling, Dying, Alive, CountToken
  <1>5. SlotsOf(m)'
    <2>1. Used(m) = tokens[m]
      BY DEF CountToken, Local, FlowOf, Handling, SlotsOf, Alive
    <2>2. children'[m] = children[m] /\ waiting'[m] = waiting[m]
      BY DEF CountToken
    <2>3. IsFiniteSet(children[m])
      BY FS_Subset, JobsAssumption DEF JobsTypeOK
    <2>4. Cardinality(children[m]) \in Nat
      BY <2>3, FS_CardinalityType
    <2>5. tokens'[m] = tokens[m] + 1
      BY DEF CountToken, JobsTypeOK
    <2>6. Used(m)' = Used(m) + 1
      BY <2>2, <2>4 DEF Used, CountToken, JobsTypeOK
    <2>7. tokens[m] \in Nat
      BY DEF JobsTypeOK
    <2> QED BY <2>1, <2>5, <2>6, <2>7 DEF SlotsOf
  <1>6. ChainsOf(m)' /\ LinesOf(m)' /\ TargetsOf(m)'
    BY JobsUntouched DEF CountToken
  <1> QED
    BY <1>1, <1>2, <1>3, <1>4, <1>5, <1>6 DEF Local

LEMMA ConsiderLocal ==
  ASSUME NEW m \in Makes, JobsTypeOK, Local(m), build' = build, Consider(m)
  PROVE  JobsTypeOK' /\ OthersKept(m) /\ Local(m)'
  <1>k. /\ Todo' = Todo /\ After' = After /\ Lines' = Lines /\ KeepGoing' = KeepGoing
        /\ JobServer(m)' = JobServer(m) /\ JobsOf(m)' = JobsOf(m)
    BY BuildKept
  <1>c. /\ Cur(m) \in JobsOf(m) /\ Cur(m) \in Jobs
        /\ \A i \in 1 .. (pos[m] - 1) : Todo[m][i] # Cur(m) /\ Todo[m][i] \in JobsOf(m)
        /\ pos[m] <= Len(Todo[m])
    <2>1. pos[m] <= Len(Todo[m])
      BY BuildFacts DEF Consider, PassOver, JobsTypeOK
    <2> QED BY <2>1, CurIs
  <1>o. \/ /\ state[Cur(m)] \in {"running", "finished"}
           /\ state' = state /\ result' = result
        \/ /\ state[Cur(m)] \in {"not_started", "deps_running"}
           /\ state' = [state EXCEPT ![Cur(m)] = "deps_running"] /\ result' = result
        \/ /\ state[Cur(m)] \in {"not_started", "deps_running"}
           /\ state' = [state EXCEPT ![Cur(m)] = "finished"]
           /\ result' = [result EXCEPT ![Cur(m)] = "failed"]
    BY DEF Consider
  <1>u. UNCHANGED <<children, waiting, line, proc, ret, wret, tokens, status, term, pc>>
        /\ pos' = [pos EXCEPT ![m] = @ + 1]
    BY DEF Consider
  <1>1. JobsTypeOK'
    <2>0. PcType /\ ReturnType /\ FlagType /\ CountType /\ ChainType /\ JobType
      BY TypeParts
    <2>1. PcType'
      BY <2>0 DEF PcType, ReturnType, Consider
    <2>2. ReturnType'
      BY <2>0 DEF ReturnType, Consider
    <2>3. FlagType'
      BY <2>0 DEF FlagType, Consider
    <2>4. CountType'
      BY <2>0 DEF CountType, Consider
    <2>5. ChainType' /\ JobType'
      BY <1>o, <1>u, <2>0, ZenonT(60) DEF ChainType, JobType
    <2> QED
      BY <2>1, <2>2, <2>3, <2>4, <2>5
      DEF JobsTypeOK, PcType, ReturnType, FlagType, CountType, ChainType, JobType
  <1>2. OthersKept(m)
    <2>1. \A n \in Makes \ {m} : Cur(m) \notin JobsOf(n)
      BY <1>c, OneOwner DEF JobsTypeOK
    <2>2. \A j \in Jobs \ {Cur(m)} : state'[j] = state[j] /\ result'[j] = result[j]
      BY <1>o, <1>c DEF JobsTypeOK
    <2>3. \A n \in Makes : JobsOf(n) \subseteq Jobs
      BY OneOwner DEF JobsTypeOK
    <2> QED BY <1>u, <2>1, <2>2, <2>3 DEF JobsTypeOK, OthersKept
  <1>s. /\ \A j \in Jobs \ {Cur(m)} : state'[j] = state[j] /\ result'[j] = result[j]
        /\ state'[Cur(m)] # "not_started"
        /\ state[Cur(m)] = "running" => state' = state /\ result' = result
        /\ state'[Cur(m)] = "running" => state[Cur(m)] = "running"
        /\ state'[Cur(m)] = "finished" => result'[Cur(m)] # None \/ state[Cur(m)] = "finished"
        /\ state'[Cur(m)] = "deps_running" => result' = result /\ state[Cur(m)] \in {"not_started", "deps_running"}
        /\ state[Cur(m)] = "finished" => state' = state /\ result' = result
    <2>1. CASE state[Cur(m)] \in {"running", "finished"} /\ state' = state /\ result' = result
      BY <2>1, <1>c DEF JobsTypeOK, Made
    <2>2. CASE /\ state[Cur(m)] \in {"not_started", "deps_running"}
               /\ state' = [state EXCEPT ![Cur(m)] = "deps_running"] /\ result' = result
      BY <2>2, <1>c DEF JobsTypeOK, Made
    <2>3. CASE /\ state[Cur(m)] \in {"not_started", "deps_running"}
               /\ state' = [state EXCEPT ![Cur(m)] = "finished"]
               /\ result' = [result EXCEPT ![Cur(m)] = "failed"]
      BY <2>3, <1>c DEF JobsTypeOK, Made, None
    <2> QED BY <1>o, <2>1, <2>2, <2>3
  <1>j. JobsOf(m) \subseteq Jobs /\ \A j \in JobsOf(m) : After[j] \subseteq JobsOf(m)
    BY OneOwner DEF JobsTypeOK
  <1>m. \A d \in JobsOf(m) : Made(d) => Made(d)'
    BY <1>s, <1>j DEF Made
  <1>3. PassOf(m)'
    <2>1. pos'[m] = pos[m] + 1 /\ pos[m] \in Nat \ {0} /\ pc' = pc
      BY DEF Consider, JobsTypeOK
    <2>2. ~Before(m)' /\ ~Begun(m)'
      BY <2>1 DEF Before, Begun, InWaitingJobs, Consider
    <2>3. \A i \in 1 .. (pos[m] - 1) : state'[Todo[m][i]] # "not_started"
      BY <1>c, <1>s, <1>j DEF Local, PassOf
    <2>4. \A i \in 1 .. (pos'[m] - 1) : i \in 1 .. (pos[m] - 1) \/ i = pos[m]
      BY <2>1
    <2>5. \A i \in 1 .. (pos'[m] - 1) : state'[Todo[m][i]] # "not_started"
      BY <1>s, <2>3, <2>4 DEF Cur
    <2>6. pos'[m] <= Len(Todo[m]) + 1
      BY <1>c, <2>1, BuildFacts DEF JobsTypeOK
    <2> QED BY <1>k, <2>2, <2>5, <2>6 DEF PassOf
  <1>4. FlowOf(m)'
    BY <1>k DEF JobsTypeOK, Local, FlowOf, InWaitingJobs, Handling, Dying, Alive, Consider
  <1>5. SlotsOf(m)'
    BY DEF JobsTypeOK, Local, SlotsOf, Used, Alive, Consider
  <1>6. ChainsOf(m)'
    <2>1. UNCHANGED <<children, waiting, proc>>
      BY DEF Consider
    <2>2. \A j \in JobsOf(m) : state[j] = "running" => state'[j] = "running" /\ result'[j] = result[j]
      BY <1>s, <1>j
    <2> QED BY <1>k, <2>1, <2>2 DEF Local, ChainsOf
  <1>7. TargetsOf(m)'
    <2>1. status'[m] = NotDying
      BY DEF Local, FlowOf, Dying, Handling, Consider
    <2>2. \A j \in JobsOf(m) : state'[j] = "finished" => result'[j] # None
      BY <1>s, <1>j DEF Local, TargetsOf
    <2>3. \A j \in JobsOf(m) : state'[j] \in {"not_started", "deps_running"} => result'[j] = None
      BY <1>s, <1>j DEF Local, TargetsOf
    <2>4. \A j \in JobsOf(m) : state'[j] = "running" => state[j] = "running"
      BY <1>s, <1>j
    <2>5. \A j \in JobsOf(m) : state'[j] = "running" => \A d \in After[j] : Made(d)'
      BY <1>m, <1>j, <2>4 DEF Local, TargetsOf
    <2> QED BY <1>k, <2>1, <2>2, <2>3, <2>5 DEF TargetsOf, NotDying
  <1>8. LinesOf(m)'
    BY <1>k DEF Local, LinesOf, LineOf, Consider
  <1> QED
    BY <1>1, <1>2, <1>3, <1>4, <1>5, <1>6, <1>7, <1>8 DEF Local

LEMMA BeginJobLocal ==
  ASSUME NEW m \in Makes, JobsTypeOK, Local(m), build' = build, BeginJob(m)
  PROVE  JobsTypeOK' /\ OthersKept(m) /\ Local(m)'
  <1>k. /\ Todo' = Todo /\ After' = After /\ Lines' = Lines /\ KeepGoing' = KeepGoing
        /\ JobServer(m)' = JobServer(m) /\ JobsOf(m)' = JobsOf(m)
    BY BuildKept
  <1>c. /\ Cur(m) \in JobsOf(m) /\ Cur(m) \in Jobs
        /\ \A i \in 1 .. (pos[m] - 1) : Todo[m][i] # Cur(m) /\ Todo[m][i] \in JobsOf(m)
        /\ pos[m] <= Len(Todo[m])
        /\ \A d \in After[Cur(m)] : \E i \in 1 .. (pos[m] - 1) : Todo[m][i] = d
    <2>1. pos[m] <= Len(Todo[m])
      BY BuildFacts DEF BeginJob, PassOver, JobsTypeOK
    <2> QED BY <2>1, CurIs
  <1>1. JobsTypeOK'
    <2>0. PcType /\ ReturnType /\ FlagType /\ CountType /\ ChainType /\ JobType
      BY TypeParts
    <2>1. PcType'
      BY <2>0 DEF PcType, ReturnType, BeginJob
    <2>2. ReturnType'
      BY <2>0 DEF ReturnType, BeginJob
    <2>3. FlagType'
      BY <2>0 DEF FlagType, BeginJob
    <2>4. CountType'
      BY <2>0 DEF CountType, BeginJob
    <2>5. ChainType' /\ JobType'
      BY <2>0 DEF ChainType, JobType, BeginJob
    <2> QED
      BY <2>1, <2>2, <2>3, <2>4, <2>5
      DEF JobsTypeOK, PcType, ReturnType, FlagType, CountType, ChainType, JobType
  <1>2. OthersKept(m)
    <2>1. \A n \in Makes \ {m} : Cur(m) \notin JobsOf(n)
      BY <1>c, OneOwner DEF JobsTypeOK
    <2> QED BY <2>1 DEF JobsTypeOK, OthersKept, BeginJob
  <1>s. /\ \A j \in Jobs \ {Cur(m)} : state'[j] = state[j]
        /\ state'[Cur(m)] = "not_started" /\ result' = result
        /\ state[Cur(m)] \in {"not_started", "deps_running"}
    BY <1>c DEF JobsTypeOK, Ready, BeginJob
  <1>j. JobsOf(m) \subseteq Jobs /\ \A j \in JobsOf(m) : After[j] \subseteq JobsOf(m)
    BY OneOwner DEF JobsTypeOK
  <1>m. \A d \in JobsOf(m) : Made(d) => Made(d)'
    BY <1>s, <1>j DEF Made
  <1>3. PassOf(m)'
    <2>1. pos'[m] = pos[m] /\ pos[m] \in Nat \ {0} /\ Cur(m)' = Cur(m)
      BY <1>k DEF BeginJob, JobsTypeOK, Cur
    <2>2. ~Begun(m)'
      BY DEF Begun, BeginJob, JobsTypeOK
    <2>3. \A i \in 1 .. (pos[m] - 1) : state'[Todo[m][i]] # "not_started"
      BY <1>c, <1>s, <1>j DEF Local, PassOf
    <2>4. \A d \in After[Cur(m)] : Made(d)
      <3> TAKE d \in After[Cur(m)]
      <3>1. ~Unfinished(d) /\ result[d] # "failed"
        BY DEF BeginJob, Ready
      <3>2. d \in JobsOf(m) /\ d \in Jobs /\ state[d] # "not_started"
        BY <1>c, <1>j DEF Local, PassOf
      <3> QED BY <3>1, <3>2 DEF Local, TargetsOf, Made, Unfinished, JobsTypeOK
    <2>5. \A d \in After[Cur(m)] : Made(d)'
      BY <1>m, <1>j, <1>c, <2>4
    <2> QED BY <1>k, <1>c, <1>s, <2>1, <2>2, <2>3, <2>5 DEF PassOf, Local
  <1>4. FlowOf(m)'
    BY <1>k DEF JobsTypeOK, Local, FlowOf, InWaitingJobs, Handling, Dying, Alive, BeginJob
  <1>5. SlotsOf(m)'
    BY DEF JobsTypeOK, Local, SlotsOf, Used, Alive, BeginJob
  <1>6. ChainsOf(m)'
    <2>1. UNCHANGED <<children, waiting, proc>>
      BY DEF BeginJob
    <2>2. \A j \in JobsOf(m) : state[j] = "running" => state'[j] = "running" /\ result'[j] = result[j]
      BY <1>s, <1>j
    <2> QED BY <1>k, <2>1, <2>2 DEF Local, ChainsOf
  <1>7. TargetsOf(m)'
    <2>1. status'[m] = NotDying
      BY DEF Local, FlowOf, Dying, Handling, BeginJob
    <2>2. \A j \in JobsOf(m) : state'[j] = "finished" => result'[j] # None
      BY <1>s, <1>j DEF Local, TargetsOf
    <2>3. \A j \in JobsOf(m) : state'[j] \in {"not_started", "deps_running"} => result'[j] = None
      BY <1>s, <1>j, <1>c DEF Local, TargetsOf
    <2>4. \A j \in JobsOf(m) : state'[j] = "running" => state[j] = "running"
      BY <1>s, <1>j
    <2>5. \A j \in JobsOf(m) : state'[j] = "running" => \A d \in After[j] : Made(d)'
      BY <1>m, <1>j, <2>4 DEF Local, TargetsOf
    <2> QED BY <1>k, <2>1, <2>2, <2>3, <2>5 DEF TargetsOf, NotDying
  <1>8. LinesOf(m)'
    BY <1>k DEF Local, LinesOf, LineOf, BeginJob
  <1> QED
    BY <1>1, <1>2, <1>3, <1>4, <1>5, <1>6, <1>7, <1>8 DEF Local

-----------------------------------------------------------------------------
(* Jobs that start, go on or end. *)

(* The make of a line that is reached now has not been started before. *)
LEMMA ExecOff ==
  ASSUME JobsTypeOK, StartedOnce, NEW j \in Jobs, LineOf(j), NEW o \in Started(j),
         o.proc = "alive", NEW x \in Makes, Lines[j][o.line - 1] = x
  PROVE  pc[x] = "off" /\ x # Top
  <1>0. Lines[j] \in Seq({"run", "nop"} \cup (Makes \ {Top})) /\ line[j] \in Nat \ {0}
    BY BuildFacts DEF JobsTypeOK
  <1>1. o.line \in Nat /\ line[j] < o.line /\ o.line <= Len(Lines[j]) + 1
    BY StartedIs DEF None
  <1>2. o.line - 1 \in DOMAIN Lines[j] /\ o.line - 1 >= line[j]
    BY <1>0, <1>1
  <1>3. x # Top
    BY <1>0, <1>2, JobsAssumption
  <1>4. ASSUME pc[x] # "off" PROVE FALSE
    <2>1. PICK k \in Jobs : \E i \in DOMAIN Lines[k] : i < line[k] /\ Lines[k][i] = x
      BY <1>3, <1>4 DEF StartedOnce
    <2>2. PICK i \in DOMAIN Lines[k] : i < line[k] /\ Lines[k][i] = x
      BY <2>1
    <2>3. \A p, q \in Jobs : \A a \in DOMAIN Lines[p], b \in DOMAIN Lines[q] :
              Lines[p][a] = Lines[q][b] /\ Lines[p][a] \in Makes => p = q /\ a = b
      BY BuildFacts DEF JobsTypeOK
    <2>4. k = j /\ i = o.line - 1
      <3> DEFINE b == o.line - 1
      <3>1. b \in DOMAIN Lines[j] /\ Lines[j][b] = x
        BY <1>2
      <3> HIDE DEF b
      <3>2. Lines[k][i] = Lines[j][b] /\ Lines[k][i] \in Makes
        BY <2>2, <3>1
      <3>3. k = j /\ i = b
        BY <2>3, <3>1, <3>2
      <3> QED BY <3>3 DEF b
    <2> QED BY <1>0, <1>1, <1>2, <2>2, <2>4
  <1> QED
    BY <1>3, <1>4

(* What may become of a job that has not finished. *)
Outcome(j, o) ==
  /\ o.state \in {"running", "finished"}
  /\ o.result \in {None, "ok", "failed"}
  /\ o.state = "finished" => o.result # None
  /\ o.line \in Nat \ {0} /\ o.line <= Len(Lines[j]) + 1
  /\ o.proc \in {None, "alive"}
  /\ o.proc = "alive" => o.line > 1 /\ Lines[j][o.line - 1] # "nop"

LEMMA StartedOutcome ==
  ASSUME JobsTypeOK, NEW j \in Jobs, LineOf(j), NEW o \in Started(j)
  PROVE  Outcome(j, o)
  <1>1. line[j] \in Nat \ {0}
    BY DEF JobsTypeOK
  <1> QED
    BY <1>1, StartedIs DEF Outcome, None

LEMMA JobStep ==
  ASSUME JobsTypeOK, NEW m \in Makes, Local(m), build' = build,
         NEW j \in JobsOf(m), NEW o, Outcome(j, o), Becomes(j, o),
         state[j] # "finished", \A d \in After[j] : Made(d),
         status'[m] # 0, KeepGoing => status'[m] = NotDying
  PROVE  /\ JobType'
         /\ \A k \in Jobs \ {j} : /\ state'[k] = state[k] /\ result'[k] = result[k]
                                 /\ line'[k] = line[k] /\ proc'[k] = proc[k]
         /\ state'[j] = o.state /\ result'[j] = o.result
         /\ line'[j] = o.line /\ proc'[j] = o.proc
         /\ \A d \in JobsOf(m) : Made(d) => Made(d)'
         /\ TargetsOf(m)' /\ LinesOf(m)'
  <1>k. /\ After' = After /\ Lines' = Lines /\ KeepGoing' = KeepGoing
        /\ JobsOf(m)' = JobsOf(m)
    BY BuildKept
  <1>j. /\ JobsOf(m) \subseteq Jobs /\ j \in Jobs
        /\ \A k \in JobsOf(m) : After[k] \subseteq JobsOf(m)
    BY OneOwner DEF JobsTypeOK
  <1>1. JobType'
    BY <1>j, TypeParts DEF JobType, Becomes, Outcome
  <1>2. \A k \in Jobs \ {j} : /\ state'[k] = state[k] /\ result'[k] = result[k]
                             /\ line'[k] = line[k] /\ proc'[k] = proc[k]
    BY DEF JobsTypeOK, Becomes
  <1>3. /\ state'[j] = o.state /\ result'[j] = o.result
        /\ line'[j] = o.line /\ proc'[j] = o.proc
    BY <1>j DEF JobsTypeOK, Becomes
  <1>4. \A d \in JobsOf(m) : Made(d) => Made(d)'
    BY <1>j, <1>2 DEF Made
  <1>5. TargetsOf(m)'
    <2>1. ASSUME NEW k \in JobsOf(m)
          PROVE  /\ state'[k] = "finished" => result'[k] # None
                 /\ state'[k] \in {"not_started", "deps_running"} => result'[k] = None
                 /\ state'[k] = "running" => \A d \in After[k] : Made(d)'
      <3>1. CASE k = j
        BY <1>j, <1>3, <1>4, <3>1 DEF Outcome
      <3>2. CASE k # j
        BY <1>j, <1>2, <1>4, <3>2 DEF Local, TargetsOf
      <3> QED BY <3>1, <3>2
    <2> QED BY <1>k, <2>1 DEF TargetsOf
  <1>6. LinesOf(m)'
    <2>1. ASSUME NEW k \in JobsOf(m) PROVE LineOf(k)'
      <3>1. CASE k = j
        BY <1>k, <1>3, <3>1 DEF Outcome, LineOf, None
      <3>2. CASE k # j
        BY <1>k, <1>j, <1>2, <3>2 DEF Local, LinesOf, LineOf
      <3> QED BY <3>1, <3>2
    <2> QED BY <1>k, <2>1 DEF LinesOf
  <1> QED
    BY <1>1, <1>2, <1>3, <1>4, <1>5, <1>6

(* The chains of m when j leaves its place and the others stay.  Here w is *)
(* what else waits.                                                        *)
Takes(m, j, w) ==
  /\ j \in JobsOf(m) /\ j \notin children[m]
  /\ proc[j] = None /\ result[j] = None /\ state[j] # "finished"
  /\ \A d \in After[j] : Made(d)
  /\ w \in Seq(Jobs)
  /\ \A i \in DOMAIN w : w[i] # j /\ \E k \in DOMAIN waiting[m] : w[i] = waiting[m][k]
  /\ \A i, k \in DOMAIN w : w[i] = w[k] => i = k
  /\ Cardinality(children[m]) + Len(w) + 1 = tokens[m]

LEMMA ChildrenFinite ==
  ASSUME JobsTypeOK, NEW m \in Makes
  PROVE  IsFiniteSet(children[m]) /\ Cardinality(children[m]) \in Nat
  <1>1. children[m] \in SUBSET Jobs
    BY DEF JobsTypeOK
  <1> QED
    BY <1>1, FS_Subset, FS_CardinalityType, JobsAssumption

(* Put back: the load is too high. *)
LEMMA KeptWaiting ==
  ASSUME JobsTypeOK, NEW m \in Makes, Local(m), build' = build,
         NEW j, NEW w, Takes(m, j, w), status[m] = NotDying, status' = status,
         waiting' = [waiting EXCEPT ![m] = <<j>> \o w],
         state' = [state EXCEPT ![j] = "running"],
         UNCHANGED <<pipe, tokens, children, result, line, proc>>,
         pc'[m] # "start"
  PROVE  /\ JobType' /\ ChainType' /\ TargetsOf(m)' /\ LinesOf(m)' /\ ChainsOf(m)'
         /\ SlotsOf(m)'
         /\ \A k \in Jobs \ {j} : /\ state'[k] = state[k] /\ result'[k] = result[k]
                                 /\ line'[k] = line[k] /\ proc'[k] = proc[k]
         /\ state'[j] = "running" /\ result'[j] = None
         /\ \A d \in JobsOf(m) : Made(d) => Made(d)'
  <1> DEFINE o == [state |-> "running", result |-> result[j], line |-> line[j],
                   proc |-> proc[j]]
  <1>k. JobsOf(m)' = JobsOf(m)
    BY BuildKept
  <1>j. /\ JobsOf(m) \subseteq Jobs /\ j \in Jobs /\ j \in JobsOf(m)
    BY OneOwner DEF JobsTypeOK, Takes
  <1>1. Outcome(j, o)
    BY <1>j DEF Outcome, Takes, JobsTypeOK, Local, LinesOf, LineOf, None
  <1>2. Becomes(j, o)
    BY <1>j DEF Becomes, JobsTypeOK
  <1>3. /\ JobType'
        /\ \A k \in Jobs \ {j} : /\ state'[k] = state[k] /\ result'[k] = result[k]
                                /\ line'[k] = line[k] /\ proc'[k] = proc[k]
        /\ state'[j] = "running" /\ result'[j] = None
        /\ \A d \in JobsOf(m) : Made(d) => Made(d)'
        /\ TargetsOf(m)' /\ LinesOf(m)'
    <2> HIDE DEF o
    <2>1. o.state = "running" /\ o.result = None
      BY DEF o, Takes
    <2> QED
      BY <1>j, <1>1, <1>2, <2>1, JobStep DEF Takes, NotDying
  <1>w. /\ w \in Seq(Jobs) /\ waiting'[m] = <<j>> \o w /\ <<j>> \o w \in Seq(Jobs)
        /\ Len(<<j>> \o w) = Len(w) + 1
        /\ \A i \in DOMAIN (<<j>> \o w) :
             (<<j>> \o w)[i] = IF i = 1 THEN j ELSE w[i - 1]
        /\ DOMAIN (<<j>> \o w) = 1 .. (Len(w) + 1) /\ DOMAIN w = 1 .. Len(w)
    BY <1>j DEF Takes, JobsTypeOK
  <1>4. ChainType'
    BY <1>w, TypeParts DEF ChainType
  <1>5. ChainsOf(m)'
    <2>1. \A i \in DOMAIN (<<j>> \o w) :
             \/ (<<j>> \o w)[i] = j /\ i = 1
             \/ \E k \in DOMAIN waiting[m] : (<<j>> \o w)[i] = waiting[m][k] /\ (<<j>> \o w)[i] # j
      BY <1>w DEF Takes
    <2>2. \A k \in DOMAIN waiting[m] :
            /\ waiting[m][k] \in JobsOf(m) /\ proc[waiting[m][k]] = None
            /\ state[waiting[m][k]] = "running" /\ result[waiting[m][k]] = None
      BY DEF Local, ChainsOf
    <2>3. \A i \in DOMAIN waiting'[m] :
            /\ waiting'[m][i] \in JobsOf(m) /\ proc[waiting'[m][i]] = None
            /\ state'[waiting'[m][i]] = "running" /\ result[waiting'[m][i]] = None
      BY <1>w, <1>j, <1>3, <2>1, <2>2 DEF Takes
    <2>4. \A i, k \in DOMAIN waiting'[m] : waiting'[m][i] = waiting'[m][k] => i = k
      <3> TAKE i, k \in DOMAIN waiting'[m]
      <3>1. i = 1 /\ k # 1 => waiting'[m][i] # waiting'[m][k]
        BY <1>w DEF Takes
      <3>2. k = 1 /\ i # 1 => waiting'[m][i] # waiting'[m][k]
        <4> SUFFICES ASSUME k = 1, i # 1 PROVE waiting'[m][i] # waiting'[m][k]
          OBVIOUS
        <4>1. i - 1 \in DOMAIN w /\ waiting'[m][i] = w[i - 1] /\ waiting'[m][k] = j
          BY <1>w
        <4> QED BY <4>1 DEF Takes
      <3>3. i # 1 /\ k # 1 /\ waiting'[m][i] = waiting'[m][k] => i - 1 = k - 1
        BY <1>w, SMTT(30) DEF Takes
      <3>4. i \in Int /\ k \in Int
        BY <1>w
      <3> QED BY <3>1, <3>2, <3>3, <3>4
    <2>5. \A k \in children[m] : k \in Jobs \ {j} /\ k \in JobsOf(m)
      BY <1>j DEF Takes, Local, ChainsOf
    <2>6. \A k \in children'[m] :
            /\ k \in JobsOf(m) /\ proc[k] # None
            /\ state'[k] = "running" /\ result[k] = None
      BY <1>3, <2>5 DEF Local, ChainsOf
    <2> QED BY <1>k, <2>3, <2>4, <2>6 DEF Local, ChainsOf
  <1>6. SlotsOf(m)'
    <2>1. children'[m] = children[m] /\ Len(waiting'[m]) = Len(w) + 1 /\ Len(w) \in Nat
      BY <1>w
    <2>2. Used(m)' = Cardinality(children[m]) + (Len(w) + 1)
      BY <2>1, ChildrenFinite DEF Used
    <2>3. Cardinality(children[m]) + Len(w) + 1 = tokens[m]
      BY DEF Takes
    <2>4. tokens'[m] = tokens[m] /\ tokens[m] \in Nat
      BY DEF JobsTypeOK
    <2>5. Used(m)' = tokens[m]
      BY <2>1, <2>2, <2>3, ChildrenFinite
    <2> QED BY <2>4, <2>5 DEF SlotsOf
  <1> QED
    BY <1>3, <1>4, <1>5, <1>6

(* Begun: the job has a process and is a child. *)
LEMMA BegunAlive ==
  ASSUME JobsTypeOK, NEW m \in Makes, Local(m), build' = build,
         NEW j, NEW w, Takes(m, j, w), status[m] = NotDying, status' = status,
         NEW o \in Started(j), o.proc = "alive", Becomes(j, o),
         waiting' = [waiting EXCEPT ![m] = w],
         children' = [children EXCEPT ![m] = @ \cup {j}],
         tokens' = tokens, pc'[m] # "start"
  PROVE  /\ JobType' /\ ChainType' /\ TargetsOf(m)' /\ LinesOf(m)' /\ ChainsOf(m)'
         /\ SlotsOf(m)'
         /\ \A k \in Jobs \ {j} : /\ state'[k] = state[k] /\ result'[k] = result[k]
                                 /\ line'[k] = line[k] /\ proc'[k] = proc[k]
         /\ state'[j] = "running" /\ result'[j] = None
         /\ \A d \in JobsOf(m) : Made(d) => Made(d)'
  <1>k. JobsOf(m)' = JobsOf(m)
    BY BuildKept
  <1>j. /\ JobsOf(m) \subseteq Jobs /\ j \in Jobs /\ j \in JobsOf(m) /\ LineOf(j)
    BY OneOwner DEF JobsTypeOK, Takes, Local, LinesOf
  <1>1. Outcome(j, o)
    BY <1>j, StartedOutcome
  <1>2. o.state = "running" /\ o.result = None
    BY <1>j, StartedIs DEF None
  <1>3. /\ JobType'
        /\ \A k \in Jobs \ {j} : /\ state'[k] = state[k] /\ result'[k] = result[k]
                                /\ line'[k] = line[k] /\ proc'[k] = proc[k]
        /\ state'[j] = "running" /\ result'[j] = None /\ proc'[j] = "alive"
        /\ \A d \in JobsOf(m) : Made(d) => Made(d)'
        /\ TargetsOf(m)' /\ LinesOf(m)'
    BY <1>j, <1>1, <1>2, JobStep DEF Takes, NotDying
  <1>w. /\ waiting'[m] = w /\ children'[m] = children[m] \cup {j}
    BY DEF JobsTypeOK
  <1>4. ChainType'
    BY <1>j, TypeParts DEF ChainType, Takes
  <1>5. ChainsOf(m)'
    <2>1. \A i \in DOMAIN w : /\ w[i] \in JobsOf(m) /\ proc[w[i]] = None /\ w[i] # j
                             /\ state[w[i]] = "running" /\ result[w[i]] = None
      BY DEF Local, ChainsOf, Takes
    <2>2. \A i \in DOMAIN waiting'[m] :
            /\ waiting'[m][i] \in JobsOf(m) /\ proc'[waiting'[m][i]] = None
            /\ state'[waiting'[m][i]] = "running" /\ result'[waiting'[m][i]] = None
      BY <1>w, <1>j, <1>3, <2>1
    <2>3. \A k \in children[m] : k \in Jobs \ {j} /\ k \in JobsOf(m)
      BY <1>j DEF Takes, Local, ChainsOf
    <2>4. \A k \in children'[m] :
            /\ k \in JobsOf(m) /\ proc'[k] # None
            /\ state'[k] = "running" /\ result'[k] = None
      BY <1>j, <1>w, <1>3, <2>3 DEF Local, ChainsOf, None
    <2>5. \A i, k \in DOMAIN waiting'[m] : waiting'[m][i] = waiting'[m][k] => i = k
      BY <1>w DEF Takes
    <2>6. \A k \in JobsOf(m) : proc'[k] # None => k \in children'[m]
      BY <1>w, <1>j, <1>3 DEF Local, ChainsOf
    <2> QED BY <1>k, <2>2, <2>4, <2>5, <2>6 DEF ChainsOf
  <1>6. SlotsOf(m)'
    <2>1. Cardinality(children'[m]) = Cardinality(children[m]) + 1
      BY <1>w, ChildrenFinite, FS_AddElement DEF Takes
    <2>2. Used(m)' = tokens[m] /\ tokens'[m] = tokens[m] /\ tokens[m] \in Nat
      BY <1>w, <2>1, ChildrenFinite DEF Used, Takes, JobsTypeOK
    <2> QED BY <2>2 DEF SlotsOf
  <1> QED
    BY <1>3, <1>4, <1>5, <1>6

(* Begun and over at once: the slot is free again. *)
LEMMA BegunNone ==
  ASSUME JobsTypeOK, NEW m \in Makes, Local(m), build' = build,
         NEW j, NEW w, Takes(m, j, w), status[m] = NotDying, status' = status,
         NEW o \in Started(j), o.proc = None, Becomes(j, o),
         waiting' = [waiting EXCEPT ![m] = w],
         children' = children,
         tokens' = [tokens EXCEPT ![m] = @ - 1], pc'[m] # "start"
  PROVE  /\ JobType' /\ ChainType' /\ TargetsOf(m)' /\ LinesOf(m)' /\ ChainsOf(m)'
         /\ SlotsOf(m)'
         /\ \A k \in Jobs \ {j} : /\ state'[k] = state[k] /\ result'[k] = result[k]
                                 /\ line'[k] = line[k] /\ proc'[k] = proc[k]
         /\ state'[j] = "finished" /\ (result'[j] = "failed" => ForkFails)
         /\ \A d \in JobsOf(m) : Made(d) => Made(d)'
  <1>k. JobsOf(m)' = JobsOf(m)
    BY BuildKept
  <1>j. /\ JobsOf(m) \subseteq Jobs /\ j \in Jobs /\ j \in JobsOf(m) /\ LineOf(j)
    BY OneOwner DEF JobsTypeOK, Takes, Local, LinesOf
  <1>1. Outcome(j, o)
    BY <1>j, StartedOutcome
  <1>2. o.state = "finished" /\ (o.result = "failed" => ForkFails)
    BY <1>j, StartedIs DEF None
  <1>3. /\ JobType'
        /\ \A k \in Jobs \ {j} : /\ state'[k] = state[k] /\ result'[k] = result[k]
                                /\ line'[k] = line[k] /\ proc'[k] = proc[k]
        /\ state'[j] = "finished" /\ (result'[j] = "failed" => ForkFails)
        /\ proc'[j] = None
        /\ \A d \in JobsOf(m) : Made(d) => Made(d)'
        /\ TargetsOf(m)' /\ LinesOf(m)'
    BY <1>j, <1>1, <1>2, JobStep DEF Takes, NotDying
  <1>w. /\ waiting'[m] = w /\ children'[m] = children[m]
    BY DEF JobsTypeOK
  <1>4. ChainType'
    BY <1>j, TypeParts DEF ChainType, Takes
  <1>5. ChainsOf(m)'
    <2>1. \A i \in DOMAIN w : /\ w[i] \in JobsOf(m) /\ proc[w[i]] = None /\ w[i] # j
                             /\ state[w[i]] = "running" /\ result[w[i]] = None
      BY DEF Local, ChainsOf, Takes
    <2>2. \A i \in DOMAIN waiting'[m] :
            /\ waiting'[m][i] \in JobsOf(m) /\ proc'[waiting'[m][i]] = None
            /\ state'[waiting'[m][i]] = "running" /\ result'[waiting'[m][i]] = None
      BY <1>w, <1>j, <1>3, <2>1
    <2>3. \A k \in children[m] : k \in Jobs \ {j} /\ k \in JobsOf(m)
      BY <1>j DEF Takes, Local, ChainsOf
    <2>4. \A k \in children'[m] :
            /\ k \in JobsOf(m) /\ proc'[k] # None
            /\ state'[k] = "running" /\ result'[k] = None
      BY <1>w, <1>3, <2>3 DEF Local, ChainsOf
    <2>5. \A i, k \in DOMAIN waiting'[m] : waiting'[m][i] = waiting'[m][k] => i = k
      BY <1>w DEF Takes
    <2>6. \A k \in JobsOf(m) : proc'[k] # None => k \in children'[m]
      BY <1>w, <1>j, <1>3 DEF Local, ChainsOf
    <2> QED BY <1>k, <2>2, <2>4, <2>5, <2>6 DEF ChainsOf
  <1>6. SlotsOf(m)'
    <2>2. /\ Used(m)' = tokens[m] - 1 /\ tokens'[m] = tokens[m] - 1 /\ tokens[m] \in Nat
      BY <1>w, ChildrenFinite DEF Used, Takes, JobsTypeOK
    <2> QED BY <2>2 DEF SlotsOf
  <1> QED
    BY <1>3, <1>4, <1>5, <1>6

(* start_waiting_job, all in all. *)
StartedWaiting(m, j, w, kept, begun) ==
  /\ JobType' /\ ChainType' /\ PcType'
  /\ pipe' \in Nat /\ tokens' \in [Makes -> Nat]
  /\ TargetsOf(m)' /\ LinesOf(m)' /\ ChainsOf(m)' /\ SlotsOf(m)'
  /\ \A k \in Jobs \ {j} : /\ state'[k] = state[k] /\ result'[k] = result[k]
                          /\ line'[k] = line[k] /\ proc'[k] = proc[k]
  /\ state'[j] \in {"running", "finished"}
  /\ \A d \in JobsOf(m) : Made(d) => Made(d)'
  /\ \A n \in Makes \ {m} :
       /\ pc'[n] = pc[n] \/ (pc[n] = "off" /\ pc'[n] = "chain")
       /\ tokens'[n] = tokens[n] /\ children'[n] = children[n]
       /\ waiting'[n] = waiting[n]
  /\ \/ pc'[m] = kept /\ waiting'[m] # <<>> /\ children'[m] # {} /\ children[m] # {}
     \/ pc'[m] = begun /\ waiting'[m] = w

LEMMA StartWaitingIs ==
  ASSUME JobsTypeOK, NEW m \in Makes, Local(m), StartedOnce, build' = build,
         NEW j, NEW w, Takes(m, j, w), status[m] = NotDying, status' = status,
         NEW kept \in {"linear", "block", "new", "check"},
         NEW begun \in {"linear", "block", "new", "check", "waiting"},
         start_waiting_job(m, j, w, kept, begun)
  PROVE  StartedWaiting(m, j, w, kept, begun)
  <1>j. /\ JobsOf(m) \subseteq Jobs /\ j \in Jobs /\ j \in JobsOf(m) /\ LineOf(j)
    BY OneOwner DEF JobsTypeOK, Takes, Local, LinesOf
  <1>t. pipe \in Nat /\ tokens \in [Makes -> Nat] /\ PcType /\ tokens[m] > 0
    BY TypeParts, ChildrenFinite, SMTT(30) DEF JobsTypeOK, Takes
  <1>1. CASE /\ MustWait(m)
             /\ waiting' = [waiting EXCEPT ![m] = <<j>> \o w]
             /\ state' = [state EXCEPT ![j] = "running"]
             /\ pc' = [pc EXCEPT ![m] = kept]
             /\ UNCHANGED <<pipe, tokens, children, result, line, proc>>
    <2>1. pc'[m] = kept /\ PcType' /\ \A n \in Makes \ {m} : pc'[n] = pc[n]
      BY <1>1, <1>t DEF PcType
    <2>2. /\ JobType' /\ ChainType' /\ TargetsOf(m)' /\ LinesOf(m)' /\ ChainsOf(m)'
          /\ SlotsOf(m)'
          /\ \A k \in Jobs \ {j} : /\ state'[k] = state[k] /\ result'[k] = result[k]
                                  /\ line'[k] = line[k] /\ proc'[k] = proc[k]
          /\ state'[j] = "running"
          /\ \A d \in JobsOf(m) : Made(d) => Made(d)'
      BY <1>1, <2>1, KeptWaiting
    <2>3. waiting'[m] # <<>> /\ children'[m] # {} /\ children[m] # {}
      BY <1>1, <1>j DEF MustWait, Takes, JobsTypeOK
    <2>4. \A n \in Makes \ {m} : waiting'[n] = waiting[n]
      BY <1>1 DEF JobsTypeOK
    <2> QED BY <1>1, <1>t, <2>1, <2>2, <2>3, <2>4 DEF StartedWaiting
  <1>2. ASSUME NEW o \in Started(j), waiting' = [waiting EXCEPT ![m] = w], Becomes(j, o),
               o.proc = "alive", children' = [children EXCEPT ![m] = @ \cup {j}],
               GotoAndExec(m, begun, j, o), UNCHANGED <<pipe, tokens>>
        PROVE  StartedWaiting(m, j, w, kept, begun)
    <2>1. \A x \in Makes : Lines[j][o.line - 1] = x => pc[x] = "off"
      BY <1>2, <1>j, ExecOff
    <2>2. /\ pc'[m] = begun
          /\ \A n \in Makes \ {m} : pc'[n] = pc[n] \/ (pc[n] = "off" /\ pc'[n] = "chain")
      BY <1>2, <2>1 DEF GotoAndExec
    <2>3. PcType'
      BY <1>2, <1>t DEF GotoAndExec, PcType
    <2>4. /\ JobType' /\ ChainType' /\ TargetsOf(m)' /\ LinesOf(m)' /\ ChainsOf(m)'
          /\ SlotsOf(m)'
          /\ \A k \in Jobs \ {j} : /\ state'[k] = state[k] /\ result'[k] = result[k]
                                  /\ line'[k] = line[k] /\ proc'[k] = proc[k]
          /\ state'[j] = "running"
          /\ \A d \in JobsOf(m) : Made(d) => Made(d)'
      <3>1. tokens' = tokens /\ pc'[m] # "start"
        BY <1>2, <2>2
      <3> QED BY <1>2, <3>1, BegunAlive
    <2>5. \A n \in Makes \ {m} : children'[n] = children[n] /\ waiting'[n] = waiting[n]
      BY <1>2 DEF JobsTypeOK
    <2>6. waiting'[m] = w
      BY <1>2 DEF JobsTypeOK
    <2> QED BY <1>2, <1>t, <2>2, <2>3, <2>4, <2>5, <2>6 DEF StartedWaiting
  <1>3. ASSUME NEW o \in Started(j), waiting' = [waiting EXCEPT ![m] = w], Becomes(j, o),
               o.proc = None, tokens[m] > 0, free_child(m),
               pc' = [pc EXCEPT ![m] = begun], children' = children
        PROVE  StartedWaiting(m, j, w, kept, begun)
    <2>1. pc'[m] = begun /\ PcType' /\ \A n \in Makes \ {m} : pc'[n] = pc[n]
      BY <1>3, <1>t DEF PcType
    <2>2. /\ pipe' \in Nat /\ tokens' \in [Makes -> Nat]
          /\ tokens' = [tokens EXCEPT ![m] = @ - 1]
      BY <1>3, <1>t DEF free_child, TokenBack
    <2>3. /\ JobType' /\ ChainType' /\ TargetsOf(m)' /\ LinesOf(m)' /\ ChainsOf(m)'
          /\ SlotsOf(m)'
          /\ \A k \in Jobs \ {j} : /\ state'[k] = state[k] /\ result'[k] = result[k]
                                  /\ line'[k] = line[k] /\ proc'[k] = proc[k]
          /\ state'[j] = "finished"
          /\ \A d \in JobsOf(m) : Made(d) => Made(d)'
      BY <1>3, <2>1, <2>2, BegunNone, ZenonT(60)
    <2>4. \A n \in Makes \ {m} : tokens'[n] = tokens[n] /\ waiting'[n] = waiting[n]
      BY <1>3, <2>2 DEF JobsTypeOK
    <2>5. waiting'[m] = w
      BY <1>3 DEF JobsTypeOK
    <2> QED BY <1>3, <2>1, <2>2, <2>3, <2>4, <2>5 DEF StartedWaiting
  <1> QED
    BY <1>1, <1>2, <1>3, <1>t DEF start_waiting_job

LEMMA StartJobLocal ==
  ASSUME NEW m \in Makes, JobsTypeOK, Local(m), build' = build, StartJob(m), StartedOnce
  PROVE  /\ JobsTypeOK' /\ OthersKept(m) /\ Local(m)'
         /\ Takes(m, Cur(m), waiting[m])
  <1>k. /\ Todo' = Todo /\ After' = After /\ Lines' = Lines /\ KeepGoing' = KeepGoing
        /\ JobServer(m)' = JobServer(m) /\ JobsOf(m)' = JobsOf(m)
    BY BuildKept
  <1>b. Before(m) /\ pos[m] <= Len(Todo[m])
    BY DEF StartJob, Before, Local, PassOf
  <1>j. /\ Cur(m) \in JobsOf(m) /\ Cur(m) \in Jobs
        /\ \A i \in 1 .. (pos[m] - 1) : Todo[m][i] # Cur(m) /\ Todo[m][i] \in JobsOf(m)
        /\ JobsOf(m) \subseteq Jobs
    BY <1>b, CurIs, OneOwner DEF JobsTypeOK
  <1>c. state[Cur(m)] = "not_started" /\ \A d \in After[Cur(m)] : Made(d)
    BY <1>b DEF Local, PassOf
  <1>n. status[m] = NotDying /\ status' = status /\ term[m] # "handling" /\ Alive(m)
    BY DEF StartJob, Local, FlowOf, Dying, Handling, Alive
  <1>t. Takes(m, Cur(m), waiting[m])
    <2>1. Cur(m) \notin children[m] /\ proc[Cur(m)] = None
      BY <1>c, <1>j DEF Local, ChainsOf
    <2>2. result[Cur(m)] = None
      BY <1>c, <1>j DEF Local, TargetsOf
    <2>3. \A i \in DOMAIN waiting[m] : waiting[m][i] # Cur(m)
      BY <1>c DEF Local, ChainsOf
    <2>4. Cardinality(children[m]) + Len(waiting[m]) + 1 = tokens[m]
      BY <1>n DEF StartJob, Local, SlotsOf, Used
    <2> QED
      BY <1>c, <1>j, <2>1, <2>2, <2>3, <2>4 DEF Takes, JobsTypeOK, Local, ChainsOf
  <1>s. StartedWaiting(m, Cur(m), waiting[m], "linear", "linear")
    BY <1>t, <1>n, StartWaitingIs DEF StartJob
  <1>1. JobsTypeOK'
    <2>1. ReturnType' /\ FlagType' /\ CountType'
      BY <1>s, TypeParts DEF ReturnType, FlagType, CountType, StartedWaiting, StartJob
    <2> QED
      BY <1>s, <2>1
      DEF JobsTypeOK, StartedWaiting, PcType, ReturnType, FlagType, CountType, ChainType, JobType
  <1>2. OthersKept(m)
    <2>1. \A n \in Makes \ {m} : \A k \in JobsOf(n) : k \in Jobs \ {Cur(m)}
      BY <1>j, OneOwner DEF JobsTypeOK
    <2> QED BY <1>s, <2>1 DEF OthersKept, StartedWaiting, StartJob
  <1>3. PassOf(m)'
    <2>1. pc'[m] = "linear" /\ pos' = pos /\ Cur(m)' = Cur(m)
      BY <1>k, <1>s DEF StartedWaiting, StartJob, Cur
    <2>2. \A i \in 1 .. (pos[m] - 1) : state'[Todo[m][i]] # "not_started"
      BY <1>j, <1>s DEF StartedWaiting, Local, PassOf
    <2>3. state'[Cur(m)] # "not_started"
      BY <1>s DEF StartedWaiting
    <2>4. ~Before(m)'
      BY <2>1 DEF Before, InWaitingJobs
    <2> QED BY <1>k, <1>b, <2>1, <2>2, <2>3, <2>4 DEF Local, PassOf
  <1>4. FlowOf(m)'
    <2>1. pc'[m] = "linear" /\ UNCHANGED <<ret, wret, status, term>>
      BY <1>s DEF StartedWaiting, StartJob
    <2>2. JobServer(m) \/ waiting'[m] = <<>>
      BY <1>s DEF StartedWaiting, StartJob, Local, FlowOf
    <2> QED
      BY <1>k, <1>n, <2>1, <2>2
      DEF Local, FlowOf, InWaitingJobs, Handling, Dying, Alive
  <1> QED
    BY <1>1, <1>2, <1>3, <1>4, <1>s, <1>t DEF Local, StartedWaiting

LEMMA TryWaitingLocal ==
  ASSUME NEW m \in Makes, JobsTypeOK, Local(m), build' = build, TryWaiting(m), StartedOnce
  PROVE  /\ JobsTypeOK' /\ OthersKept(m) /\ Local(m)'
         /\ Takes(m, Head(waiting[m]), Tail(waiting[m]))
  <1> DEFINE j == Head(waiting[m])
             w == Tail(waiting[m])
             begun == IF Len(waiting[m]) = 1 THEN wret[m] ELSE "waiting"
  <1>k. /\ Todo' = Todo /\ After' = After /\ Lines' = Lines /\ KeepGoing' = KeepGoing
        /\ JobServer(m)' = JobServer(m) /\ JobsOf(m)' = JobsOf(m)
    BY BuildKept
  <1>w. /\ waiting[m] \in Seq(Jobs) /\ waiting[m] # <<>>
        /\ 1 \in DOMAIN waiting[m] /\ j = waiting[m][1]
        /\ w \in Seq(Jobs) /\ Len(w) = Len(waiting[m]) - 1
        /\ \A i \in DOMAIN w : i + 1 \in DOMAIN waiting[m] /\ w[i] = waiting[m][i + 1]
        /\ Len(waiting[m]) = 1 \/ w # <<>>
        /\ Len(waiting[m]) = 1 => w = <<>>
    <2>1. waiting[m] \in Seq(Jobs) /\ waiting[m] # <<>>
      BY DEF TryWaiting, JobsTypeOK, Local, FlowOf, InWaitingJobs
    <2>2. Len(waiting[m]) \in Nat \ {0} /\ DOMAIN waiting[m] = 1 .. Len(waiting[m])
      BY <2>1
    <2>3. w \in Seq(Jobs) /\ Len(w) = Len(waiting[m]) - 1 /\ DOMAIN w = 1 .. (Len(waiting[m]) - 1)
      BY <2>1, <2>2
    <2>4. \A i \in 1 .. (Len(waiting[m]) - 1) : w[i] = waiting[m][i + 1]
      BY <2>1, <2>2
    <2>5. 1 \in DOMAIN waiting[m] /\ j = waiting[m][1]
      BY <2>1, <2>2
    <2>6. Len(waiting[m]) = 1 => w = <<>>
      BY <2>3
    <2>7. Len(waiting[m]) # 1 => w # <<>>
      <3>1. w = <<>> => Len(w) = 0
        <4> HIDE DEF w
        <4> QED OBVIOUS
      <3> HIDE DEF w
      <3> QED BY <2>2, <2>3, <3>1
    <2>8. \A i \in DOMAIN w : i + 1 \in DOMAIN waiting[m]
      BY <2>2, <2>3
    <2> QED BY <2>1, <2>3, <2>4, <2>5, <2>6, <2>7, <2>8
  <1>j. /\ j \in JobsOf(m) /\ j \in Jobs /\ JobsOf(m) \subseteq Jobs
        /\ proc[j] = None /\ state[j] = "running" /\ result[j] = None
    BY <1>w, OneOwner, SMTT(30) DEF JobsTypeOK, Local, ChainsOf
  <1>n. status[m] = NotDying /\ status' = status /\ term[m] # "handling" /\ Alive(m)
    BY DEF TryWaiting, Local, FlowOf, Dying, Handling, Alive
  <1>t. Takes(m, j, w)
    <2>1. j \notin children[m]
      BY <1>j DEF Local, ChainsOf
    <2>2. \A d \in After[j] : Made(d)
      BY <1>j DEF Local, TargetsOf
    <2>3. \A i, k \in DOMAIN waiting[m] : waiting[m][i] = waiting[m][k] => i = k
      BY DEF Local, ChainsOf
    <2>4. \A i \in DOMAIN w : w[i] # j /\ \E k \in DOMAIN waiting[m] : w[i] = waiting[m][k]
      <3> TAKE i \in DOMAIN w
      <3>1. i \in 1 .. Len(w) /\ i + 1 # 1
        BY <1>w
      <3> QED BY <1>w, <2>3, <3>1
    <2>5. \A i, k \in DOMAIN w : w[i] = w[k] => i = k
      <3> TAKE i, k \in DOMAIN w
      <3>1. i \in Int /\ k \in Int
        BY <1>w
      <3>2. w[i] = w[k] => i + 1 = k + 1
        BY <1>w, <2>3
      <3> QED BY <3>1, <3>2
    <2>6. Cardinality(children[m]) + Len(waiting[m]) = tokens[m]
      BY <1>n, ChildrenFinite, <1>w DEF TryWaiting, Local, SlotsOf, Used
    <2>7. Cardinality(children[m]) + Len(w) + 1 = tokens[m]
      BY <1>w, <2>6, ChildrenFinite
    <2> HIDE DEF j, w
    <2> QED
      BY <1>w, <1>j, <2>1, <2>2, <2>4, <2>5, <2>7 DEF Takes
  <1>r. wret[m] \in {"block", "new", "check"}
    BY DEF JobsTypeOK
  <1>s. StartedWaiting(m, j, w, wret[m], begun)
    <2>1. begun \in {"linear", "block", "new", "check", "waiting"}
      BY <1>r
    <2>2. start_waiting_job(m, j, w, wret[m], begun)
      BY DEF TryWaiting
    <2> HIDE DEF j, w, begun
    <2> QED BY <1>t, <1>n, <1>r, <2>1, <2>2, StartWaitingIs
  <1>o. \/ pc'[m] = wret[m] /\ waiting'[m] # <<>> /\ children'[m] # {}
        \/ pc'[m] = wret[m] /\ waiting'[m] = <<>>
        \/ pc'[m] = "waiting" /\ waiting'[m] # <<>>
    BY <1>s, <1>w DEF StartedWaiting
  <1> HIDE DEF j, w, begun
  <1>1. JobsTypeOK'
    <2>1. ReturnType' /\ FlagType' /\ CountType'
      BY <1>s, TypeParts DEF ReturnType, FlagType, CountType, StartedWaiting, TryWaiting
    <2> QED
      BY <1>s, <2>1
      DEF JobsTypeOK, StartedWaiting, PcType, ReturnType, FlagType, CountType, ChainType, JobType
  <1>2. OthersKept(m)
    <2>1. \A n \in Makes \ {m} : \A k \in JobsOf(n) : k \in Jobs \ {j}
      BY <1>j, OneOwner DEF JobsTypeOK
    <2> QED BY <1>s, <2>1 DEF OthersKept, StartedWaiting, TryWaiting
  <1>3. PassOf(m)'
    <2>1. UNCHANGED <<pos, ret, wret>> /\ Cur(m)' = Cur(m)
      BY <1>k DEF TryWaiting, Cur
    <2>2. ~Begun(m)' /\ (Before(m)' => Before(m))
      BY <1>o, <1>r, <2>1 DEF Begun, Before, InWaitingJobs, TryWaiting
    <2>3. \A k \in JobsOf(m) : state'[k] # "not_started" \/ state[k] = "not_started"
      BY <1>j, <1>s DEF StartedWaiting
    <2>4. \A i \in 1 .. (pos[m] - 1) : Todo[m][i] \in JobsOf(m)
      BY BuildFacts DEF JobsTypeOK, Local, PassOf, JobsOf
    <2>5. \A i \in 1 .. (pos[m] - 1) : state'[Todo[m][i]] # "not_started"
      BY <2>3, <2>4 DEF Local, PassOf
    <2>6. Before(m) => /\ pos[m] <= Len(Todo[m]) /\ state'[Cur(m)] = "not_started"
                       /\ \A d \in After[Cur(m)] : Made(d)'
      <3> SUFFICES ASSUME Before(m)
                   PROVE  /\ pos[m] <= Len(Todo[m]) /\ state'[Cur(m)] = "not_started"
                          /\ \A d \in After[Cur(m)] : Made(d)'
        OBVIOUS
      <3>1. /\ pos[m] <= Len(Todo[m]) /\ state[Cur(m)] = "not_started"
            /\ \A d \in After[Cur(m)] : Made(d)
        BY DEF Local, PassOf
      <3>2. Cur(m) \in JobsOf(m) /\ Cur(m) \in Jobs /\ After[Cur(m)] \subseteq JobsOf(m)
        BY <3>1, CurIs, OneOwner DEF JobsTypeOK
      <3> QED BY <1>j, <1>s, <3>1, <3>2 DEF StartedWaiting
    <2>7. pos[m] <= Len(Todo[m]) + 1
      BY DEF Local, PassOf
    <2> QED BY <1>k, <2>1, <2>2, <2>5, <2>6, <2>7 DEF PassOf
  <1>4. FlowOf(m)'
    <2>1. UNCHANGED <<ret, wret, status, term>>
      BY DEF TryWaiting
    <2>2. JobServer(m)
      BY <1>w DEF Local, FlowOf
    <2> QED
      BY <1>k, <1>n, <1>r, <1>o, <2>1, <2>2
      DEF Local, FlowOf, InWaitingJobs, Handling, Dying, Alive
  <1>5. Local(m)'
    BY <1>3, <1>4, <1>s DEF Local, StartedWaiting
  <1> QED
    BY <1>1, <1>2, <1>5, <1>t DEF j, w

-----------------------------------------------------------------------------
(* reap_children *)
LEMMA ReapedOutcome ==
  ASSUME JobsTypeOK, NEW m \in Makes, NEW j \in Jobs, LineOf(j), state[j] = "running",
         NEW o \in Reaped(m, j)
  PROVE  /\ Outcome(j, o)
         /\ o.proc = "alive" => /\ o \in Started(j) /\ term[m] # "handling"
                                /\ o.state = "running" /\ o.result = None
         /\ o.result = "failed" => proc[j] = "lost" \/ ForkFails \/ term[m] = "handling"
         /\ line[j] <= o.line
  <1>0. line[j] \in Nat \ {0} /\ line[j] <= Len(Lines[j]) + 1
    BY DEF JobsTypeOK, LineOf
  <1>1. CASE proc[j] = "lost" /\ j \notin Ignore
    BY <1>0, <1>1 DEF Reaped, Outcome, None
  <1>2. CASE ~(proc[j] = "lost" /\ j \notin Ignore) /\ term[m] = "handling"
    BY <1>0, <1>2 DEF Reaped, Outcome, None
  <1>3. CASE ~(proc[j] = "lost" /\ j \notin Ignore) /\ term[m] # "handling"
    <2>1. o \in Started(j)
      BY <1>3 DEF Reaped
    <2>2. /\ line[j] <= o.line
          /\ \/ o.proc = None /\ (o.result = "failed" => ForkFails)
             \/ o.proc = "alive" /\ o.state = "running" /\ o.result = None
      BY <2>1, StartedIs
    <2> QED BY <1>3, <2>1, <2>2, StartedOutcome DEF None
  <1> QED
    BY <1>1, <1>2, <1>3

LEMMA ReapChildLocal ==
  ASSUME NEW m \in Makes, JobsTypeOK, Local(m), build' = build, ReapChild(m), StartedOnce
  PROVE  JobsTypeOK' /\ OthersKept(m) /\ Local(m)'
  <1>k. /\ Todo' = Todo /\ After' = After /\ Lines' = Lines /\ KeepGoing' = KeepGoing
        /\ JobServer(m)' = JobServer(m) /\ JobsOf(m)' = JobsOf(m)
    BY BuildKept
  <1>p. PICK j \in children[m] : \E o \in Reaped(m, j) :
          /\ proc[j] \in {"won", "lost"}
          /\ Becomes(j, o)
          /\ \/ /\ o.proc = "alive"
                /\ GotoAndExec(m, "reap", j, o)
                /\ UNCHANGED <<pipe, tokens, children, block, status>>
             \/ /\ o.proc = None /\ tokens[m] = 0
                /\ pc' = [pc EXCEPT ![m] = "internal"]
                /\ UNCHANGED <<pipe, tokens, children, block, status>>
             \/ /\ o.proc = None /\ tokens[m] > 0
                /\ children' = [children EXCEPT ![m] = @ \ {j}]
                /\ free_child(m)
                /\ block' = [block EXCEPT ![m] = FALSE]
                /\ IF Fatal(m, j)
                     THEN pc' = [pc EXCEPT ![m] = "die"] /\ status' = [status EXCEPT ![m] = 2]
                     ELSE UNCHANGED <<pc, status>>
    BY DEF ReapChild
  <1>o. PICK o \in Reaped(m, j) :
          /\ proc[j] \in {"won", "lost"}
          /\ Becomes(j, o)
          /\ \/ /\ o.proc = "alive"
                /\ GotoAndExec(m, "reap", j, o)
                /\ UNCHANGED <<pipe, tokens, children, block, status>>
             \/ /\ o.proc = None /\ tokens[m] = 0
                /\ pc' = [pc EXCEPT ![m] = "internal"]
                /\ UNCHANGED <<pipe, tokens, children, block, status>>
             \/ /\ o.proc = None /\ tokens[m] > 0
                /\ children' = [children EXCEPT ![m] = @ \ {j}]
                /\ free_child(m)
                /\ block' = [block EXCEPT ![m] = FALSE]
                /\ IF Fatal(m, j)
                     THEN pc' = [pc EXCEPT ![m] = "die"] /\ status' = [status EXCEPT ![m] = 2]
                     ELSE UNCHANGED <<pc, status>>
    BY <1>p
  <1>u. pc[m] = "reap" /\ UNCHANGED <<ret, wret, pos, waiting, rfd, sigchld, term>>
    BY DEF ReapChild
  <1>j. /\ j \in JobsOf(m) /\ j \in Jobs /\ JobsOf(m) \subseteq Jobs /\ LineOf(j)
        /\ state[j] = "running" /\ result[j] = None /\ proc[j] # None
        /\ \A d \in After[j] : Made(d)
    BY OneOwner DEF JobsTypeOK, Local, ChainsOf, LinesOf, TargetsOf
  <1>r. /\ Outcome(j, o)
        /\ o.proc = "alive" => /\ o \in Started(j) /\ term[m] # "handling"
                               /\ o.state = "running" /\ o.result = None
    BY <1>j, <1>o, ReapedOutcome
  <1>f. /\ Cardinality(children[m]) >= 1 /\ Cardinality(children[m]) \in Nat
        /\ IsFiniteSet(children[m])
        /\ Cardinality(children[m] \ {j}) = Cardinality(children[m]) - 1
    <2>1. IsFiniteSet(children[m]) /\ Cardinality(children[m]) \in Nat
      BY ChildrenFinite
    <2>2. Cardinality(children[m]) # 0
      BY <2>1, FS_EmptySet
    <2>3. Cardinality(children[m] \ {j}) = Cardinality(children[m]) - 1
      BY <2>1, FS_RemoveElement
    <2> QED BY <2>1, <2>2, <2>3
  <1>a. /\ Used(m) <= tokens[m] /\ tokens[m] \in Nat /\ tokens[m] > 0
        /\ Used(m) = Cardinality(children[m]) + Len(waiting[m])
        /\ Len(waiting[m]) \in Nat
        /\ term[m] # "handling" => Used(m) = tokens[m]
    <2>1. Used(m) <= tokens[m] /\ (term[m] # "handling" => Used(m) = tokens[m])
      BY <1>u DEF Local, SlotsOf, Alive
    <2>2. tokens[m] \in Nat /\ Len(waiting[m]) \in Nat
      BY DEF JobsTypeOK
    <2>3. Used(m) = Cardinality(children[m]) + Len(waiting[m])
      BY <1>u, <1>f, <2>2 DEF Used
    <2> QED BY <1>f, <2>1, <2>2, <2>3
  <1>c. \/ /\ o.proc = "alive"
           /\ GotoAndExec(m, "reap", j, o)
           /\ UNCHANGED <<pipe, tokens, children, block, status>>
        \/ /\ o.proc = None
           /\ children' = [children EXCEPT ![m] = @ \ {j}]
           /\ free_child(m)
           /\ block' = [block EXCEPT ![m] = FALSE]
           /\ \/ Fatal(m, j) /\ pc' = [pc EXCEPT ![m] = "die"] /\ status' = [status EXCEPT ![m] = 2]
              \/ UNCHANGED <<pc, status>>
    BY <1>o, <1>a
  <1>s. /\ status'[m] = status[m] \/ (status'[m] = 2 /\ Fatal(m, j))
        /\ \A n \in Makes \ {m} : status'[n] = status[n]
        /\ ReturnType'
    BY <1>c, <1>u, TypeParts DEF ReturnType
  <1>d. status'[m] # 0 /\ (KeepGoing => status'[m] = NotDying)
    BY <1>s, <1>j DEF Local, TargetsOf, Made, Fatal
  <1>e. /\ JobType'
        /\ \A k \in Jobs \ {j} : /\ state'[k] = state[k] /\ result'[k] = result[k]
                                /\ line'[k] = line[k] /\ proc'[k] = proc[k]
        /\ state'[j] = o.state /\ result'[j] = o.result
        /\ line'[j] = o.line /\ proc'[j] = o.proc
        /\ \A d \in JobsOf(m) : Made(d) => Made(d)'
        /\ TargetsOf(m)' /\ LinesOf(m)'
    BY <1>j, <1>o, <1>r, <1>d, JobStep
  <1>g. /\ pc'[m] = "reap" \/ (pc'[m] = "die" /\ Fatal(m, j) /\ status'[m] = 2)
        /\ \A n \in Makes \ {m} : pc'[n] = pc[n] \/ (pc[n] = "off" /\ pc'[n] = "chain")
        /\ PcType'
    <2>1. CASE o.proc = "alive"
      <3>1. GotoAndExec(m, "reap", j, o)
        BY <1>c, <2>1 DEF None
      <3>2. \A x \in Makes : Lines[j][o.line - 1] = x => pc[x] = "off"
        BY <1>j, <1>r, <2>1, ExecOff
      <3> QED BY <3>1, <3>2, TypeParts DEF GotoAndExec, PcType
    <2>2. CASE o.proc # "alive"
      BY <1>c, <1>s, <1>u, <2>2, TypeParts DEF PcType, ReturnType
    <2> QED BY <2>1, <2>2
  <1>h. /\ CountType' /\ ChainType' /\ FlagType'
        /\ \A n \in Makes \ {m} : tokens'[n] = tokens[n] /\ children'[n] = children[n]
    <2>0. CountType /\ ChainType /\ FlagType
      BY TypeParts
    <2>1. CASE UNCHANGED <<pipe, tokens, children, block, status>>
      BY <1>u, <2>0, <2>1 DEF CountType, ChainType, FlagType
    <2>2. CASE /\ children' = [children EXCEPT ![m] = @ \ {j}]
               /\ free_child(m)
               /\ block' = [block EXCEPT ![m] = FALSE]
      <3>1. CountType' /\ \A n \in Makes \ {m} : tokens'[n] = tokens[n]
        BY <1>u, <1>a, <2>0, <2>2 DEF CountType, free_child, TokenBack
      <3>2. ChainType' /\ \A n \in Makes \ {m} : children'[n] = children[n]
        BY <1>u, <2>0, <2>2 DEF ChainType
      <3>3. FlagType'
        BY <1>u, <2>0, <2>2 DEF FlagType
      <3> QED BY <3>1, <3>2, <3>3
    <2> QED BY <1>c, <2>1, <2>2
  <1>1. JobsTypeOK'
    BY <1>e, <1>g, <1>h, <1>s
    DEF JobsTypeOK, PcType, ReturnType, FlagType, CountType, ChainType, JobType
  <1>2. OthersKept(m)
    <2>1. \A n \in Makes \ {m} : \A k \in JobsOf(n) : k \in Jobs \ {j}
      BY <1>j, OneOwner DEF JobsTypeOK
    <2> QED BY <1>e, <1>g, <1>h, <1>s, <1>u, <2>1 DEF OthersKept
  <1>3. PassOf(m)'
    <2>1. Cur(m)' = Cur(m) /\ pos' = pos
      BY <1>k, <1>u DEF Cur
    <2>2. (Before(m)' => Before(m)) /\ (Begun(m)' => Begun(m))
      BY <1>u, <1>g DEF Before, Begun, InWaitingJobs
    <2>3. \A k \in JobsOf(m) : state'[k] = "not_started" <=> state[k] = "not_started"
      BY <1>j, <1>e, <1>r DEF Outcome
    <2>4. \A i \in 1 .. (pos[m] - 1) : Todo[m][i] \in JobsOf(m)
      BY BuildFacts, SMTT(30) DEF JobsTypeOK, Local, PassOf, JobsOf
    <2>5. \A i \in 1 .. (pos[m] - 1) : state'[Todo[m][i]] # "not_started"
      BY <2>3, <2>4 DEF Local, PassOf
    <2>6. pos[m] <= Len(Todo[m]) =>
            Cur(m) \in JobsOf(m) /\ After[Cur(m)] \subseteq JobsOf(m)
      BY CurIs, OneOwner DEF JobsTypeOK
    <2>7. Before(m) \/ Begun(m) => pos[m] <= Len(Todo[m])
      BY DEF Local, PassOf
    <2>8. Before(m) => state'[Cur(m)] = "not_started" /\ \A d \in After[Cur(m)] : Made(d)'
      BY <1>e, <2>3, <2>6, <2>7 DEF Local, PassOf
    <2>9. Begun(m) => state'[Cur(m)] # "not_started"
      BY <2>3, <2>6, <2>7 DEF Local, PassOf
    <2>10. pos[m] <= Len(Todo[m]) + 1
      BY DEF Local, PassOf
    <2> QED BY <1>k, <2>1, <2>2, <2>5, <2>7, <2>8, <2>9, <2>10 DEF PassOf
  <1>4. FlowOf(m)'
    <2>1. CASE pc'[m] = "reap"
      <3>1. status'[m] = status[m]
        BY <1>c, <1>u, <2>1, TypeParts DEF PcType
      <3>2. /\ pc'[m] = pc[m] /\ ret'[m] = ret[m] /\ wret'[m] = wret[m]
            /\ waiting'[m] = waiting[m] /\ term'[m] = term[m]
        BY <1>u, <2>1
      <3> QED
        BY <1>k, <1>u, <2>1, <3>1, <3>2
        DEF Local, FlowOf, InWaitingJobs, Handling, Dying, Alive
    <2>2. CASE pc'[m] = "die" /\ Fatal(m, j) /\ status'[m] = 2
      <3>1. /\ ret'[m] = ret[m] /\ wret'[m] = wret[m]
            /\ waiting'[m] = waiting[m] /\ term'[m] = term[m] /\ term[m] # "handling"
        BY <1>u, <2>2 DEF Fatal
      <3> QED
        BY <1>k, <1>u, <2>2, <3>1
        DEF Local, FlowOf, InWaitingJobs, Handling, Dying, Alive, NotDying
    <2> QED BY <1>g, <2>1, <2>2
  <1>5. ChainsOf(m)'
    <2>1. \A i \in DOMAIN waiting[m] :
            /\ waiting[m][i] \in JobsOf(m) /\ proc[waiting[m][i]] = None /\ waiting[m][i] # j
            /\ state[waiting[m][i]] = "running" /\ result[waiting[m][i]] = None
      BY <1>j DEF Local, ChainsOf
    <2>2. \A i \in DOMAIN waiting'[m] :
            /\ waiting'[m][i] \in JobsOf(m) /\ proc'[waiting'[m][i]] = None
            /\ state'[waiting'[m][i]] = "running" /\ result'[waiting'[m][i]] = None
      BY <1>u, <1>j, <1>e, <2>1
    <2>3. \A k \in children[m] : k # j =>
            /\ k \in JobsOf(m) /\ proc'[k] # None
            /\ state'[k] = "running" /\ result'[k] = None
      BY <1>j, <1>e DEF Local, ChainsOf
    <2>4. \/ o.proc = "alive" /\ children'[m] = children[m]
          \/ o.proc = None /\ children'[m] = children[m] \ {j}
      BY <1>c DEF JobsTypeOK
    <2>5. \A k \in children'[m] :
            /\ k \in JobsOf(m) /\ proc'[k] # None
            /\ state'[k] = "running" /\ result'[k] = None
      BY <1>j, <1>e, <1>r, <2>3, <2>4 DEF None
    <2>6. \A k \in JobsOf(m) : proc'[k] # None => k \in children'[m]
      BY <1>j, <1>e, <2>4 DEF Local, ChainsOf
    <2>7. \A i, k \in DOMAIN waiting'[m] : waiting'[m][i] = waiting'[m][k] => i = k
      BY <1>u DEF Local, ChainsOf
    <2> QED BY <1>k, <2>2, <2>5, <2>6, <2>7 DEF ChainsOf
  <1>6. SlotsOf(m)'
    <2>0. waiting'[m] = waiting[m] /\ term'[m] = term[m] /\ pc'[m] # "start"
      BY <1>u, <1>g
    <2>1. CASE tokens'[m] = tokens[m] /\ children'[m] = children[m]
      <3>1. Used(m)' = Used(m)
        BY <1>u, <2>0, <2>1 DEF Used
      <3> QED BY <1>a, <2>0, <2>1, <3>1 DEF SlotsOf
    <2>2. CASE tokens'[m] = tokens[m] - 1 /\ children'[m] = children[m] \ {j}
      <3>1. Used(m)' = Used(m) - 1
        BY <1>a, <1>f, <2>0, <2>2 DEF Used
      <3>2. Used(m) \in Nat
        BY <1>a, <1>f
      <3> QED BY <1>a, <2>0, <2>2, <3>1, <3>2 DEF SlotsOf
    <2> QED BY <1>c, <2>1, <2>2 DEF free_child, JobsTypeOK
  <1> QED
    BY <1>1, <1>2, <1>3, <1>4, <1>5, <1>6, <1>e DEF Local

-----------------------------------------------------------------------------
(* Signals and exits. *)
LEMMA fatal_error_signalLocal ==
  ASSUME NEW m \in Makes, JobsTypeOK, Local(m), build' = build, fatal_error_signal(m)
  PROVE  JobsTypeOK' /\ OthersKept(m) /\ Local(m)'
  <1>k. /\ Todo' = Todo /\ After' = After
        /\ JobServer(m)' = JobServer(m)
    BY BuildKept
  <1>t. /\ term' \in [Makes -> {"no", "sent", "handling"}] /\ term'[m] = "handling"
        /\ term[m] = "sent" /\ Alive(m) /\ pc'[m] = "fatal"
        /\ \A n \in Makes \ {m} : /\ term'[n] = term[n] \/ (term[n] = "no" /\ term'[n] = "sent")
                                  /\ pc'[n] = pc[n]
        /\ UNCHANGED <<pipe, ret, wret, block, pos, tokens, children, waiting, rfd,
                       sigchld, status, jobVars>>
    BY DEF JobsTypeOK, fatal_error_signal
  <1>1. JobsTypeOK'
    <2>0. PcType /\ ReturnType /\ FlagType /\ CountType /\ ChainType /\ JobType
      BY TypeParts
    <2>1. PcType'
      BY <2>0 DEF PcType, fatal_error_signal
    <2>2. ReturnType' /\ FlagType'
      BY <1>t, <2>0 DEF ReturnType, FlagType
    <2>3. CountType' /\ ChainType' /\ JobType'
      BY <1>t, <2>0 DEF CountType, ChainType, JobType
    <2> QED
      BY <2>1, <2>2, <2>3
      DEF JobsTypeOK, PcType, ReturnType, FlagType, CountType, ChainType, JobType
  <1>2. OthersKept(m)
    BY <1>t DEF OthersKept
  <1>3. PassOf(m)'
    BY <1>k, <1>t DEF Local, PassOf, Before, Begun, InWaitingJobs, Cur, Made
  <1>4. FlowOf(m)'
    BY <1>k, <1>t DEF Local, FlowOf, InWaitingJobs, Handling, Dying, Alive
  <1>5. SlotsOf(m)'
    <2>1. Cardinality(children[m]) \in Nat /\ Len(waiting[m]) \in Nat /\ tokens[m] \in Nat
      BY ChildrenFinite DEF JobsTypeOK
    <2>2. Used(m)' <= Used(m)
      BY <1>t, <2>1 DEF Used
    <2>3. Used(m)' \in Int /\ Used(m) \in Int
      BY <1>t, <2>1 DEF Used
    <2>4. Used(m) <= tokens[m]
      BY <1>t DEF Local, SlotsOf
    <2>5. Used(m)' <= tokens'[m]
      BY <1>t, <2>1, <2>2, <2>3, <2>4
    <2> QED BY <1>t, <2>5 DEF SlotsOf
  <1>6. ChainsOf(m)' /\ LinesOf(m)' /\ TargetsOf(m)'
    BY <1>t, JobsUntouched
  <1> QED
    BY <1>1, <1>2, <1>3, <1>4, <1>5, <1>6 DEF Local

(* The process of a make that exits is that of a job of another make. *)
LEMMA ExitLocal ==
  ASSUME NEW m \in Makes, JobsTypeOK, Local(m), build' = build,
         NEW how \in {"won", "lost"}, Exit(m, how), Alive(m), children[m] = {},
         term[m] = "handling" \/ status[m] # NotDying,
         CountType', \A n \in Makes \ {m} : tokens'[n] = tokens[n],
         UNCHANGED <<ret, wret, block, pos, children, waiting, rfd, term, status,
                     state, result, line>>
  PROVE  JobsTypeOK' /\ OthersKept(m) /\ Local(m)'
  <1>k. /\ Todo' = Todo /\ After' = After /\ Lines' = Lines /\ KeepGoing' = KeepGoing
        /\ JobServer(m)' = JobServer(m) /\ JobsOf(m)' = JobsOf(m)
    BY BuildKept
  <1>p. /\ pc'[m] = "exited" /\ \A n \in Makes \ {m} : pc'[n] = pc[n]
        /\ \A j \in Jobs : \/ proc'[j] = proc[j]
                           \/ proc[j] = "alive" /\ proc'[j] \in {"won", "lost"}
    BY DEF Exit, JobsTypeOK
  <1>j. JobsOf(m) \subseteq Jobs /\ \A n \in Makes : JobsOf(n) \subseteq Jobs
    BY OneOwner DEF JobsTypeOK
  <1>n. \A j \in JobsOf(m) : proc[j] = None /\ proc'[j] = None
    BY <1>j, <1>p DEF Local, ChainsOf, None
  <1>1. JobsTypeOK'
    <2>0. PcType /\ ReturnType /\ FlagType /\ ChainType /\ JobType
      BY TypeParts
    <2>1. PcType'
      BY <2>0 DEF PcType, Exit
    <2>2. ReturnType' /\ ChainType'
      BY <2>0 DEF ReturnType, ChainType
    <2>3. FlagType'
      BY <2>0 DEF FlagType, Exit
    <2>4. JobType'
      BY <2>0 DEF JobType, Exit
    <2> QED
      BY <2>1, <2>2, <2>3, <2>4
      DEF JobsTypeOK, PcType, ReturnType, FlagType, CountType, ChainType, JobType
  <1>2. OthersKept(m)
    BY <1>p, <1>j DEF OthersKept
  <1>3. PassOf(m)'
    BY <1>k, <1>p DEF Local, PassOf, Before, Begun, InWaitingJobs, Cur, Made
  <1>4. FlowOf(m)'
    BY <1>k, <1>p DEF Local, FlowOf, InWaitingJobs, Handling, Dying, Alive
  <1>5. SlotsOf(m)'
    BY <1>p DEF SlotsOf, Alive
  <1>6. ChainsOf(m)'
    BY <1>k, <1>n DEF Local, ChainsOf
  <1>7. LinesOf(m)'
    BY <1>k, <1>n DEF Local, LinesOf, LineOf
  <1>8. TargetsOf(m)'
    BY <1>k DEF Local, TargetsOf, Made
  <1> QED
    BY <1>1, <1>2, <1>3, <1>4, <1>5, <1>6, <1>7, <1>8 DEF Local

LEMMA DieExitLocal ==
  ASSUME NEW m \in Makes, JobsTypeOK, Local(m), build' = build, DieExit(m)
  PROVE  JobsTypeOK' /\ OthersKept(m) /\ Local(m)'
  <1>1. CountType' /\ \A n \in Makes \ {m} : tokens'[n] = tokens[n]
    BY TypeParts DEF CountType, DieExit, clean_jobserver
  <1>2. /\ Alive(m) /\ children[m] = {} /\ status[m] # NotDying
        /\ UNCHANGED <<ret, wret, block, pos, children, waiting, rfd, term, status,
                       state, result, line>>
    BY DEF DieExit, DieWaits, Alive, Local, FlowOf, Dying
  <1>3. PICK how \in {"won", "lost"} : Exit(m, how)
    BY DEF DieExit
  <1> QED
    BY <1>1, <1>2, <1>3, ExitLocal

LEMMA FatalExitLocal ==
  ASSUME NEW m \in Makes, JobsTypeOK, Local(m), build' = build, FatalExit(m)
  PROVE  JobsTypeOK' /\ OthersKept(m) /\ Local(m)'
  <1>1. CountType' /\ \A n \in Makes \ {m} : tokens'[n] = tokens[n]
    BY TypeParts DEF CountType, FatalExit
  <1>2. /\ Alive(m) /\ children[m] = {} /\ term[m] = "handling"
        /\ UNCHANGED <<ret, wret, block, pos, children, waiting, rfd, term, status,
                       state, result, line>>
    BY DEF FatalExit, FatalOver, Alive, Local, FlowOf, Handling
  <1>3. Exit(m, "lost")
    BY DEF FatalExit
  <1> QED
    BY <1>1, <1>2, <1>3, ExitLocal

-----------------------------------------------------------------------------
(* What a step of m does to commands and makes: a process ends as a        *)
(* command or with its make, a make begins as a command, and a target      *)
(* fails for a reason.                                                     *)
Moves(m) ==
  /\ pc[m] \notin {"off", "exited"}
  /\ term'[m] = "no" => term[m] = "no"
  /\ \A j \in Jobs : line[j] <= line'[j]
  /\ \A j \in Jobs : proc[j] = "alive" =>
       /\ line'[j] = line[j]
       /\ \/ proc'[j] = "alive" \/ Lines[j][line[j] - 1] = "run"
          \/ Lines[j][line[j] - 1] = m /\ pc'[m] = "exited"
  /\ \A x \in Makes : pc[x] = "off" /\ pc'[x] # "off" =>
       \E j \in Jobs : /\ proc'[j] = "alive" /\ Lines[j][line'[j] - 1] = x
                       /\ line'[j] > 1 /\ line'[j] <= Len(Lines[j]) + 1
  /\ \A j \in Jobs : result[j] = "failed" => result'[j] = "failed"
  /\ \A j \in Jobs : result'[j] = "failed" \/ proc'[j] = "lost" =>
       result[j] = "failed" \/ proc[j] = "lost" \/ Reason(j)'
  /\ \A j \in Jobs : (\A n \in Makes : j \notin JobsOf(n)) =>
       proc'[j] = proc[j] /\ result'[j] = result[j]

(* What it does to the tokens: one that leaves the pipe is held, and one   *)
(* that is given up goes back, unless m handles a signal.                  *)
Excess(m) ==
  /\ JobServer(m) /\ pc[m] = "exited"
  /\ status[m] = 2 /\ waiting[m] # <<>>

MadeUp(m) == IF Excess(m) THEN 1 ELSE 0

Accounts(m) ==
  /\ pipe' + Taken(m)' <= pipe + Taken(m) + MadeUp(m)'
  /\ term'[m] = "no" => pipe' + Taken(m)' = pipe + Taken(m) + MadeUp(m)'
  /\ ~JobServer(m) /\ tokens[m] <= 1 => tokens'[m] <= 1

LEMMA TakenType ==
  ASSUME JobsTypeOK
  PROVE  \A m \in Makes : Taken(m) \in Nat
  BY DEF JobsTypeOK, Taken

LEMMA QuietMoves ==
  ASSUME NEW m \in Makes, JobsTypeOK, pc[m] \notin {"off", "exited"},
         \A n \in Makes \ {m} : pc'[n] = pc[n],
         term'[m] = "no" => term[m] = "no", UNCHANGED <<result, line, proc>>
  PROVE  Moves(m)
  BY DEF Moves, JobsTypeOK

LEMMA QuietAccounts ==
  ASSUME NEW m \in Makes, JobsTypeOK, build' = build, Alive(m), Alive(m)',
         UNCHANGED <<pipe, tokens>>,
         JobServer(m) /\ tokens[m] > 0 => (pc'[m] = "got" <=> pc[m] = "got")
  PROVE  Accounts(m)
  <1>1. JobServer(m)' = JobServer(m)
    BY BuildKept
  <1>2. Taken(m)' = Taken(m)
    <2>1. CASE JobServer(m) /\ tokens[m] > 0
      BY <1>1, <2>1 DEF Taken
    <2>2. CASE ~JobServer(m)
      BY <1>1, <2>2 DEF Taken
    <2>3. CASE JobServer(m) /\ ~(tokens[m] > 0)
      BY <1>1, <2>3 DEF Taken
    <2> QED BY <2>1, <2>2, <2>3
  <1>3. MadeUp(m)' = 0
    BY DEF MadeUp, Excess, Alive
  <1>4. pipe \in Nat /\ Taken(m) \in Nat
    BY TakenType DEF JobsTypeOK
  <1> QED
    BY <1>2, <1>3, <1>4 DEF Accounts

(* Steps that move on, and neither start a command nor touch a token.      *)
QuietStep(m) ==
  \/ ReapNoMore(m) \/ ReapBeforeWaiting(m) \/ StartPass(m) \/ AwaitChild(m)
  \/ EndPass(m) \/ NoRuleToMake(m) \/ ReapBeforeJob(m) \/ NeedSlot(m) \/ NeedToken(m)
  \/ StartWaitingBeforeRead(m) \/ CheckBeforeRead(m) \/ Linear(m)
  \/ Die(m) \/ FatalWaits(m) \/ child_handler(m) \/ Terminate(m)

LEMMA QuietSteps ==
  ASSUME NEW m \in Makes, JobsTypeOK, Local(m), JobsTypeOK', Local(m)', build' = build,
         QuietStep(m)
  PROVE  Moves(m) /\ Accounts(m)
  <1>t. /\ ret[m] \in {"pass", "need", "woke", "linear", "try", "die", "fatal"}
        /\ wret[m] \in {"block", "new", "check"}
        /\ pc \in [Makes -> {pc[n] : n \in Makes}]
    BY DEF JobsTypeOK
  <1>f. pc[m] # "internal" /\ pc'[m] # "internal"
    BY DEF Local, FlowOf
  <1> DEFINE Quiet ==
        /\ Alive(m) /\ Alive(m)' /\ \A n \in Makes \ {m} : pc'[n] = pc[n]
        /\ term'[m] = "no" => term[m] = "no"
        /\ UNCHANGED <<pipe, tokens, jobVars>>
        /\ JobServer(m) /\ tokens[m] > 0 => (pc'[m] = "got" <=> pc[m] = "got")
  <1>1. CASE ReapNoMore(m)
    <2>1. Quiet
      BY <1>t, <1>f, <1>1 DEF ReapNoMore, Alive
    <2> QED BY <2>1, QuietMoves, QuietAccounts DEF Alive
  <1>2. CASE ReapBeforeWaiting(m)
    <2>1. Quiet
      BY <1>t, <1>f, <1>2 DEF ReapBeforeWaiting, Alive
    <2> QED BY <2>1, QuietMoves, QuietAccounts DEF Alive
  <1>3. CASE StartPass(m)
    <2>1. Quiet
      BY <1>t, <1>f, <1>3 DEF StartPass, Alive
    <2> QED BY <2>1, QuietMoves, QuietAccounts DEF Alive
  <1>4. CASE AwaitChild(m)
    <2>1. Quiet
      BY <1>t, <1>f, <1>4 DEF AwaitChild, Alive
    <2> QED BY <2>1, QuietMoves, QuietAccounts DEF Alive
  <1>5. CASE EndPass(m)
    <2>1. Quiet
      BY <1>t, <1>f, <1>5 DEF EndPass, Alive
    <2> QED BY <2>1, QuietMoves, QuietAccounts DEF Alive
  <1>6. CASE NoRuleToMake(m)
    <2>1. Quiet
      BY <1>t, <1>f, <1>6 DEF NoRuleToMake, Alive
    <2> QED BY <2>1, QuietMoves, QuietAccounts DEF Alive
  <1>7. CASE ReapBeforeJob(m)
    <2>1. Quiet
      BY <1>t, <1>f, <1>7 DEF ReapBeforeJob, Alive
    <2> QED BY <2>1, QuietMoves, QuietAccounts DEF Alive
  <1>8. CASE NeedSlot(m)
    <2>1. Quiet
      BY <1>t, <1>f, <1>8 DEF NeedSlot, Alive
    <2> QED BY <2>1, QuietMoves, QuietAccounts DEF Alive
  <1>9. CASE NeedToken(m)
    <2>1. Quiet
      BY <1>t, <1>f, <1>9 DEF NeedToken, Alive
    <2> QED BY <2>1, QuietMoves, QuietAccounts DEF Alive
  <1>10. CASE StartWaitingBeforeRead(m)
    <2>1. Quiet
      BY <1>t, <1>f, <1>10 DEF StartWaitingBeforeRead, Alive
    <2> QED BY <2>1, QuietMoves, QuietAccounts DEF Alive
  <1>11. CASE CheckBeforeRead(m)
    <2>1. Quiet
      BY <1>t, <1>f, <1>11 DEF CheckBeforeRead, Alive
    <2> QED BY <2>1, QuietMoves, QuietAccounts DEF Alive
  <1>12. CASE Linear(m)
    <2>1. Quiet
      BY <1>t, <1>f, <1>12 DEF Linear, Alive
    <2> QED BY <2>1, QuietMoves, QuietAccounts DEF Alive
  <1>13. CASE Die(m)
    <2>1. Quiet
      BY <1>t, <1>f, <1>13 DEF Die, Alive
    <2> QED BY <2>1, QuietMoves, QuietAccounts DEF Alive
  <1>14. CASE FatalWaits(m)
    <2>1. Quiet
      BY <1>t, <1>f, <1>14 DEF FatalWaits, Alive
    <2> QED BY <2>1, QuietMoves, QuietAccounts DEF Alive
  <1>15. CASE child_handler(m)
    <2>1. Quiet
      BY <1>t, <1>f, <1>15 DEF child_handler, Alive
    <2> QED BY <2>1, QuietMoves, QuietAccounts DEF Alive
  <1>16. CASE Terminate(m)
    <2>1. Quiet
      BY <1>t, <1>f, <1>16 DEF Terminate, Alive, JobsTypeOK
    <2> QED BY <2>1, QuietMoves, QuietAccounts DEF Alive
  <1> QED
    BY <1>1, <1>2, <1>3, <1>4, <1>5, <1>6, <1>7, <1>8, <1>9, <1>10, <1>11, <1>12,
       <1>13, <1>14, <1>15, <1>16 DEF QuietStep

(* A token is read from the pipe, and counted. *)
LEMMA ReadAccounts ==
  ASSUME NEW m \in Makes, JobsTypeOK, Local(m), build' = build, Read(m) \/ Wake(m)
  PROVE  Moves(m) /\ Accounts(m)
  <1>t. pipe \in Nat /\ tokens[m] \in Nat /\ tokens[m] > 0 /\ JobServer(m)
    BY DEF JobsTypeOK, Local, FlowOf, Read, Wake
  <1>1. /\ Alive(m) /\ Alive(m)' /\ \A n \in Makes \ {m} : pc'[n] = pc[n]
        /\ UNCHANGED <<tokens, term, jobVars>> /\ pc[m] # "got"
        /\ \/ pc'[m] # "got" /\ UNCHANGED pipe
           \/ pc'[m] = "got" /\ pipe' = pipe - 1
    BY DEF Read, Wake, Alive, JobsTypeOK
  <1>2. Moves(m)
    BY <1>1, QuietMoves DEF Alive
  <1>3. CASE pc'[m] # "got" /\ UNCHANGED pipe
    BY <1>1, <1>2, <1>3, QuietAccounts
  <1>4. CASE pc'[m] = "got" /\ pipe' = pipe - 1
    <2>1. JobServer(m)'
      BY <1>t, BuildKept
    <2>2. Taken(m)' = Taken(m) + 1 /\ Taken(m) \in Nat
      BY <1>t, <1>1, <1>4, <2>1 DEF Taken
    <2>3. MadeUp(m)' = 0
      BY <1>4 DEF MadeUp, Excess
    <2> QED BY <1>t, <1>1, <1>2, <1>4, <2>2, <2>3 DEF Accounts
  <1> QED
    BY <1>1, <1>3, <1>4

LEMMA CountTokenAccounts ==
  ASSUME NEW m \in Makes, JobsTypeOK, Local(m), build' = build, CountToken(m)
  PROVE  Moves(m) /\ Accounts(m)
  <1>t. pipe \in Nat /\ tokens[m] \in Nat /\ (JobServer(m)' = JobServer(m))
    BY BuildKept DEF JobsTypeOK
  <1>1. /\ pc[m] = "got" /\ pc'[m] = "start" /\ \A n \in Makes \ {m} : pc'[n] = pc[n]
        /\ tokens'[m] = tokens[m] + 1 /\ UNCHANGED <<pipe, term, jobVars>>
    BY DEF CountToken, JobsTypeOK
  <1>2. Moves(m)
    BY <1>1, QuietMoves
  <1>3. Taken(m)' = Taken(m) /\ Taken(m) \in Nat
    BY <1>t, <1>1 DEF Taken, Alive
  <1>4. MadeUp(m)' = 0
    BY <1>1 DEF MadeUp, Excess
  <1>5. ~JobServer(m) => tokens[m] = 0
    <2>1. ~JobServer(m) => waiting[m] = <<>> /\ children[m] = {}
      BY <1>1 DEF Local, FlowOf
    <2>2. Used(m) = tokens[m]
      BY <1>1 DEF Local, SlotsOf, FlowOf, Handling, Alive
    <2>3. waiting[m] = <<>> /\ children[m] = {} => Used(m) = 0
      BY <1>1, FS_EmptySet DEF Used
    <2> QED BY <2>1, <2>2, <2>3
  <1> QED
    BY <1>t, <1>1, <1>2, <1>3, <1>4, <1>5 DEF Accounts

(* A signal: what m has read and not counted is lost. *)
LEMMA fatal_error_signalAccounts ==
  ASSUME NEW m \in Makes, JobsTypeOK, Local(m), build' = build, fatal_error_signal(m)
  PROVE  Moves(m) /\ Accounts(m)
  <1>t. pipe \in Nat /\ tokens[m] \in Nat /\ (JobServer(m)' = JobServer(m))
    BY BuildKept DEF JobsTypeOK
  <1>1. /\ Alive(m) /\ pc'[m] = "fatal" /\ \A n \in Makes \ {m} : pc'[n] = pc[n]
        /\ term'[m] = "handling" /\ UNCHANGED <<pipe, tokens, jobVars>>
    BY DEF fatal_error_signal, JobsTypeOK
  <1>2. Moves(m)
    BY <1>1, QuietMoves DEF Alive
  <1>3. Taken(m)' <= Taken(m) /\ Taken(m) \in Nat /\ Taken(m)' \in Nat
    BY <1>t, <1>1 DEF Taken, Alive
  <1>4. MadeUp(m)' = 0
    BY <1>1 DEF MadeUp, Excess
  <1> QED
    BY <1>t, <1>1, <1>2, <1>3, <1>4 DEF Accounts

(* Targets that fail because a prerequisite did, or for want of a rule.    *)
LEMMA ConsiderAccounts ==
  ASSUME NEW m \in Makes, JobsTypeOK, Local(m), build' = build, Consider(m)
  PROVE  Moves(m) /\ Accounts(m)
  <1>k. After' = After /\ NoRule' = NoRule
    BY BuildKept
  <1>0. /\ pc[m] = "pass" /\ pos[m] <= Len(Todo[m])
        /\ UNCHANGED <<pipe, pc, tokens, term, line, proc>>
    BY BuildFacts DEF Consider, PassOver, JobsTypeOK
  <1>j. Cur(m) \in JobsOf(m) /\ Cur(m) \in Jobs
    BY <1>0, CurIs
  <1>1. Accounts(m)
    BY <1>0, QuietAccounts DEF Alive
  <1>2. CASE UNCHANGED result
    BY <1>0, <1>1, <1>2, QuietMoves
  <1>3. CASE /\ result' = [result EXCEPT ![Cur(m)] = "failed"]
             /\ \/ \E d \in After[Cur(m)] : result[d] = "failed"
                \/ Cur(m) \in NoRule
    <2>1. /\ result'[Cur(m)] = "failed"
          /\ \A j \in Jobs \ {Cur(m)} : result'[j] = result[j]
      BY <1>3, <1>j DEF JobsTypeOK
    <2>2. \A d \in Jobs : result[d] = "failed" => result'[d] = "failed"
      BY <2>1
    <2>3. After[Cur(m)] \subseteq Jobs
      BY <1>j, BuildFacts DEF JobsTypeOK
    <2>4. ASSUME NEW j \in Jobs, j = Cur(m) PROVE Reason(j)'
      BY <1>3, <1>k, <2>2, <2>3, <2>4 DEF Reason
    <2>5. \A j \in Jobs : result'[j] = "failed" => result[j] = "failed" \/ Reason(j)'
      BY <2>1, <2>4
    <2>6. \A j \in Jobs : (\A n \in Makes : j \notin JobsOf(n)) => result'[j] = result[j]
      BY <1>j, <2>1
    <2>7. \A j \in Jobs : line[j] <= line'[j]
      BY <1>0 DEF JobsTypeOK
    <2> QED BY <1>0, <1>1, <2>2, <2>5, <2>6, <2>7 DEF Moves
  <1>4. \/ UNCHANGED result
        \/ /\ result' = [result EXCEPT ![Cur(m)] = "failed"]
           /\ \/ \E d \in After[Cur(m)] : result[d] = "failed"
              \/ Cur(m) \in NoRule
    BY DEF Consider
  <1> QED
    BY <1>1, <1>2, <1>3, <1>4

LEMMA BeginJobAccounts ==
  ASSUME NEW m \in Makes, JobsTypeOK, Local(m), build' = build, BeginJob(m)
  PROVE  Moves(m) /\ Accounts(m)
  <1>1. /\ pc[m] = "pass" /\ pc'[m] \in {"new", "waiting"}
        /\ \A n \in Makes \ {m} : pc'[n] = pc[n]
        /\ UNCHANGED <<pipe, tokens, term, result, line, proc>>
    BY DEF BeginJob, JobsTypeOK
  <1>2. Accounts(m)
    BY <1>1, QuietAccounts DEF Alive
  <1>3. Moves(m)
    BY <1>1, QuietMoves
  <1> QED
    BY <1>2, <1>3

(* A job of m goes on. *)
LEMMA JobMoves ==
  ASSUME NEW m \in Makes, JobsTypeOK, build' = build, pc[m] \notin {"off", "exited"},
         term'[m] = term[m], NEW j \in JobsOf(m),
         proc[j] # "alive", result[j] # "failed",
         \A k \in Jobs \ {j} : /\ result'[k] = result[k] /\ line'[k] = line[k]
                               /\ proc'[k] = proc[k],
         line[j] <= line'[j], proc'[j] # "lost",
         result'[j] = "failed" => proc[j] = "lost" \/ ForkFails \/ term[m] # "no",
         \A x \in Makes \ {m} :
           \/ pc'[x] = pc[x]
           \/ /\ proc'[j] = "alive" /\ Lines[j][line'[j] - 1] = x
              /\ line'[j] > 1 /\ line'[j] <= Len(Lines[j]) + 1
  PROVE  Moves(m)
  <1>k. ForkFails' = ForkFails /\ JobsOf(m)' = JobsOf(m)
    BY BuildKept
  <1>j. j \in Jobs
    BY OneOwner DEF JobsTypeOK
  <1>1. ASSUME NEW k \in Jobs PROVE line[k] <= line'[k]
    <2>1. line[k] \in Nat
      BY DEF JobsTypeOK
    <2> QED BY <2>1
  <1>2. result'[j] = "failed" => proc[j] = "lost" \/ Reason(j)'
    BY <1>k DEF Reason
  <1>3. \A k \in Jobs : result'[k] = "failed" \/ proc'[k] = "lost" =>
          result[k] = "failed" \/ proc[k] = "lost" \/ Reason(k)'
    BY <1>2
  <1>4. \A k \in Jobs : (\A n \in Makes : k \notin JobsOf(n)) =>
          proc'[k] = proc[k] /\ result'[k] = result[k]
    OBVIOUS
  <1>5. \A k \in Jobs : proc[k] = "alive" => line'[k] = line[k] /\ proc'[k] = "alive"
    OBVIOUS
  <1>6. \A x \in Makes : pc[x] = "off" /\ pc'[x] # "off" =>
          /\ proc'[j] = "alive" /\ Lines[j][line'[j] - 1] = x
          /\ line'[j] > 1 /\ line'[j] <= Len(Lines[j]) + 1
    OBVIOUS
  <1>7. \A k \in Jobs : result[k] = "failed" => result'[k] = "failed"
    OBVIOUS
  <1> QED
    BY <1>j, <1>1, <1>3, <1>4, <1>5, <1>6, <1>7 DEF Moves

(* free_child gives a token back. *)
LEMMA FreedAccounts ==
  ASSUME NEW m \in Makes, JobsTypeOK, build' = build, tokens[m] > 0, free_child(m),
         Alive(m), Alive(m)', pc[m] # "got", pc'[m] # "got"
  PROVE  Accounts(m)
  <1>t. pipe \in Nat /\ tokens[m] \in Nat /\ JobServer(m)' = JobServer(m)
    BY BuildKept DEF JobsTypeOK
  <1>1. pipe' = pipe + TokenBack(m) /\ tokens'[m] = tokens[m] - 1
    BY DEF free_child, JobsTypeOK
  <1>2. MadeUp(m)' = 0
    BY DEF MadeUp, Excess, Alive
  <1>3. CASE ~JobServer(m)
    <2>1. Taken(m) = 0 /\ Taken(m)' = 0 /\ TokenBack(m) = 0
      BY <1>t, <1>3 DEF Taken, TokenBack
    <2> QED BY <1>t, <1>1, <1>2, <2>1 DEF Accounts
  <1>4. CASE JobServer(m) /\ tokens[m] > 1
    <2>1. Taken(m) = tokens[m] - 1 /\ Taken(m)' = tokens[m] - 2 /\ TokenBack(m) = 1
      BY <1>t, <1>1, <1>4 DEF Taken, TokenBack
    <2> QED BY <1>t, <1>1, <1>2, <1>4, <2>1 DEF Accounts
  <1>5. CASE JobServer(m) /\ tokens[m] = 1
    <2>1. Taken(m) = 0 /\ Taken(m)' = 0 /\ TokenBack(m) = 0
      BY <1>t, <1>1, <1>5 DEF Taken, TokenBack
    <2> QED BY <1>t, <1>1, <1>2, <1>5, <2>1 DEF Accounts
  <1> QED
    BY <1>t, <1>3, <1>4, <1>5

LEMMA StartWaitingAccounts ==
  ASSUME NEW m \in Makes, JobsTypeOK, Local(m), build' = build,
         NEW j, NEW w, Takes(m, j, w), UNCHANGED term, pc[m] \in {"start", "try"},
         NEW kept \in {"linear", "block", "new", "check"},
         NEW begun \in {"linear", "block", "new", "check", "waiting"},
         start_waiting_job(m, j, w, kept, begun)
  PROVE  Moves(m) /\ Accounts(m)
  <1>j. j \in JobsOf(m) /\ j \in Jobs /\ LineOf(j) /\ proc[j] = None /\ result[j] = None
    BY OneOwner DEF Takes, JobsTypeOK, Local, LinesOf
  <1>t. /\ tokens[m] > 0 /\ Alive(m) /\ pc \in [Makes -> {pc[n] : n \in Makes}]
        /\ line[j] \in Nat \ {0}
    BY <1>j, ChildrenFinite DEF JobsTypeOK, Takes, Alive
  <1>1. CASE /\ pc' = [pc EXCEPT ![m] = kept]
             /\ UNCHANGED <<pipe, tokens, result, line, proc>>
    <2>1. pc'[m] = kept /\ \A n \in Makes \ {m} : pc'[n] = pc[n]
      BY <1>t, <1>1
    <2>2. Alive(m)'
      BY <2>1 DEF Alive
    <2>3. Moves(m)
      BY <1>1, <2>1, QuietMoves
    <2>4. Accounts(m)
      BY <1>1, <1>t, <2>1, <2>2, QuietAccounts
    <2> QED BY <2>3, <2>4
  <1>2. ASSUME NEW o \in Started(j), Becomes(j, o), o.proc = "alive",
               GotoAndExec(m, begun, j, o), UNCHANGED <<pipe, tokens>>
        PROVE  Moves(m) /\ Accounts(m)
    <2>1. /\ o.line \in Nat /\ line[j] < o.line /\ o.line <= Len(Lines[j]) + 1
          /\ o.result = None
      BY <1>2, <1>j, StartedIs DEF None
    <2>2. /\ result'[j] = None /\ line'[j] = o.line /\ proc'[j] = "alive"
          /\ \A k \in Jobs \ {j} : /\ result'[k] = result[k] /\ line'[k] = line[k]
                                  /\ proc'[k] = proc[k]
      BY <1>2, <1>j, <2>1 DEF Becomes, JobsTypeOK
    <2>3. /\ pc'[m] = begun
          /\ \A x \in Makes \ {m} : pc'[x] = pc[x] \/ Lines[j][o.line - 1] = x
      BY <1>2 DEF GotoAndExec
    <2>4. line[j] <= line'[j] /\ line'[j] > 1 /\ line'[j] <= Len(Lines[j]) + 1
      BY <1>t, <2>1, <2>2
    <2>5. Alive(m)'
      BY <2>3 DEF Alive
    <2>6. Moves(m)
      BY <1>j, <2>2, <2>3, <2>4, JobMoves DEF None
    <2>7. Accounts(m)
      BY <1>2, <1>t, <2>3, <2>5, QuietAccounts
    <2> QED BY <2>6, <2>7
  <1>3. ASSUME NEW o \in Started(j), Becomes(j, o), o.proc = None, free_child(m),
               pc' = [pc EXCEPT ![m] = begun]
        PROVE  Moves(m) /\ Accounts(m)
    <2>1. /\ o.line \in Nat /\ line[j] <= o.line
          /\ o.result = "failed" => ForkFails
      BY <1>3, <1>j, StartedIs DEF None
    <2>2. /\ result'[j] = o.result /\ line'[j] = o.line /\ proc'[j] = None
          /\ \A k \in Jobs \ {j} : /\ result'[k] = result[k] /\ line'[k] = line[k]
                                  /\ proc'[k] = proc[k]
      BY <1>3, <1>j DEF Becomes, JobsTypeOK
    <2>3. pc'[m] = begun /\ \A x \in Makes \ {m} : pc'[x] = pc[x]
      BY <1>3, <1>t
    <2>4. Alive(m)'
      BY <2>3 DEF Alive
    <2>5. Moves(m)
      BY <1>j, <2>1, <2>2, <2>3, JobMoves DEF None
    <2>6. Accounts(m)
      BY <1>3, <1>t, <2>3, <2>4, FreedAccounts
    <2> QED BY <2>5, <2>6
  <1> QED
    BY <1>1, <1>2, <1>3, <1>t DEF start_waiting_job

LEMMA ReapChildAccounts ==
  ASSUME NEW m \in Makes, JobsTypeOK, Local(m), Local(m)', build' = build, ReapChild(m)
  PROVE  Moves(m) /\ Accounts(m)
  <1>u. pc[m] = "reap" /\ UNCHANGED term /\ pc \in [Makes -> {pc[n] : n \in Makes}]
    BY DEF ReapChild, JobsTypeOK
  <1>f. pc'[m] # "internal"
    BY DEF Local, FlowOf
  <1>p. PICK j \in children[m] : \E o \in Reaped(m, j) :
          /\ proc[j] \in {"won", "lost"}
          /\ Becomes(j, o)
          /\ \/ /\ o.proc = "alive"
                /\ GotoAndExec(m, "reap", j, o)
                /\ UNCHANGED <<pipe, tokens>>
             \/ /\ o.proc = None /\ tokens[m] = 0
                /\ pc' = [pc EXCEPT ![m] = "internal"]
             \/ /\ o.proc = None /\ tokens[m] > 0
                /\ free_child(m)
                /\ pc' = [pc EXCEPT ![m] = "die"] \/ UNCHANGED pc
    BY DEF ReapChild
  <1>j. /\ j \in JobsOf(m) /\ j \in Jobs /\ LineOf(j) /\ state[j] = "running"
        /\ result[j] = None
    BY OneOwner DEF JobsTypeOK, Local, ChainsOf, LinesOf
  <1>l. line[j] \in Nat \ {0}
    BY <1>j DEF JobsTypeOK
  <1>1. ASSUME NEW o \in Reaped(m, j), proc[j] \in {"won", "lost"}, Becomes(j, o),
               o.proc = "alive", GotoAndExec(m, "reap", j, o), UNCHANGED <<pipe, tokens>>
        PROVE  Moves(m) /\ Accounts(m)
    <2>1. o \in Started(j)
      BY <1>1, <1>j, ReapedOutcome
    <2>2. /\ o.line \in Nat /\ line[j] < o.line /\ o.line <= Len(Lines[j]) + 1
          /\ o.result = None
      BY <1>1, <1>j, <2>1, StartedIs DEF None
    <2>3. /\ result'[j] = None /\ line'[j] = o.line /\ proc'[j] = "alive"
          /\ \A k \in Jobs \ {j} : /\ result'[k] = result[k] /\ line'[k] = line[k]
                                  /\ proc'[k] = proc[k]
      BY <1>1, <1>j, <2>2 DEF Becomes, JobsTypeOK
    <2>4. /\ pc'[m] = "reap"
          /\ \A x \in Makes \ {m} : pc'[x] = pc[x] \/ Lines[j][o.line - 1] = x
      BY <1>1 DEF GotoAndExec
    <2>5. line[j] <= line'[j] /\ line'[j] > 1 /\ line'[j] <= Len(Lines[j]) + 1
      BY <1>l, <2>2, <2>3
    <2>6. Moves(m)
      BY <1>1, <1>j, <1>u, <2>3, <2>4, <2>5, JobMoves DEF None
    <2>7. Accounts(m)
      BY <1>1, <1>u, <2>4, QuietAccounts DEF Alive
    <2> QED BY <2>6, <2>7
  <1>2. ASSUME NEW o \in Reaped(m, j), proc[j] \in {"won", "lost"}, Becomes(j, o),
               o.proc = None, tokens[m] > 0, free_child(m),
               pc' = [pc EXCEPT ![m] = "die"] \/ UNCHANGED pc
        PROVE  Moves(m) /\ Accounts(m)
    <2>1. /\ line[j] <= o.line
          /\ o.result = "failed" => proc[j] = "lost" \/ ForkFails \/ term[m] # "no"
      BY <1>j, ReapedOutcome
    <2>2. /\ result'[j] = o.result /\ line'[j] = o.line /\ proc'[j] = None
          /\ \A k \in Jobs \ {j} : /\ result'[k] = result[k] /\ line'[k] = line[k]
                                  /\ proc'[k] = proc[k]
      BY <1>2, <1>j DEF Becomes, JobsTypeOK
    <2>3. pc'[m] \in {"reap", "die"} /\ \A x \in Makes \ {m} : pc'[x] = pc[x]
      BY <1>2, <1>u
    <2>4. Moves(m)
      BY <1>2, <1>j, <1>u, <2>1, <2>2, <2>3, JobMoves DEF None
    <2>5. Accounts(m)
      BY <1>2, <1>u, <2>3, FreedAccounts DEF Alive
    <2> QED BY <2>4, <2>5
  <1>3. PICK o \in Reaped(m, j) :
          /\ proc[j] \in {"won", "lost"}
          /\ Becomes(j, o)
          /\ \/ /\ o.proc = "alive"
                /\ GotoAndExec(m, "reap", j, o)
                /\ UNCHANGED <<pipe, tokens>>
             \/ /\ o.proc = None /\ tokens[m] = 0
                /\ pc' = [pc EXCEPT ![m] = "internal"]
             \/ /\ o.proc = None /\ tokens[m] > 0
                /\ free_child(m)
                /\ pc' = [pc EXCEPT ![m] = "die"] \/ UNCHANGED pc
    BY <1>p
  <1> QED
    BY <1>1, <1>2, <1>3, <1>u, <1>f

(* A make ends, and the job that ran it learns how. *)
LEMMA ExitMoves ==
  ASSUME NEW m \in Makes, JobsTypeOK, Local(m), \A n \in Makes : LinesOf(n), Idle,
         build' = build, Alive(m), NEW how \in {"won", "lost"}, Exit(m, how),
         how = "lost" => status[m] # 0 \/ term[m] # "no",
         UNCHANGED <<term, status, result, line>>
  PROVE  Moves(m)
  <1>k. Lines' = Lines /\ \A j \in Jobs : Runs(j, m)' = Runs(j, m)
    BY BuildKept
  <1>1. /\ pc'[m] = "exited" /\ \A n \in Makes \ {m} : pc'[n] = pc[n]
        /\ \A j \in Jobs : \/ proc'[j] = proc[j]
                           \/ /\ proc[j] = "alive" /\ Lines[j][line[j] - 1] = m
                              /\ proc'[j] = how
    BY DEF Exit, JobsTypeOK
  <1>2. ASSUME NEW j \in Jobs, proc[j] = "alive", Lines[j][line[j] - 1] = m, how = "lost"
        PROVE  Reason(j)'
    <2>1. PICK n \in Makes : j \in JobsOf(n)
      BY <1>2 DEF Idle, None
    <2>2. LineOf(j) /\ line[j] \in Nat /\ Lines[j] \in Seq({"run", "nop"} \cup (Makes \ {Top}))
      BY <2>1, BuildFacts DEF LinesOf, JobsTypeOK
    <2>3. line[j] - 1 \in DOMAIN Lines[j]
      BY <1>2, <2>2 DEF LineOf, None
    <2>4. Runs(j, m)
      BY <1>2, <2>3 DEF Runs
    <2> QED BY <1>k, <1>1, <1>2, <2>4 DEF Reason
  <1>3. \A j \in Jobs : (\A n \in Makes : j \notin JobsOf(n)) => proc'[j] = proc[j]
    BY <1>1 DEF Idle, None
  <1>4. \A j \in Jobs : line[j] <= line'[j]
    BY DEF JobsTypeOK
  <1>5. \A j \in Jobs : result'[j] = "failed" \/ proc'[j] = "lost" =>
          result[j] = "failed" \/ proc[j] = "lost" \/ Reason(j)'
    BY <1>1, <1>2
  <1>6. \A x \in Makes : ~(pc[x] = "off" /\ pc'[x] # "off")
    BY <1>1 DEF Alive
  <1>7. \A j \in Jobs : proc[j] = "alive" =>
          \/ proc'[j] = "alive"
          \/ Lines[j][line[j] - 1] = m /\ pc'[m] = "exited"
    BY <1>1
  <1> QED
    BY <1>3, <1>4, <1>5, <1>6, <1>7 DEF Moves, Alive

LEMMA DieExitAccounts ==
  ASSUME NEW m \in Makes, JobsTypeOK, Local(m), \A n \in Makes : LinesOf(n), Idle,
         build' = build, DieExit(m)
  PROVE  Moves(m) /\ Accounts(m)
  <1>t. /\ pipe \in Nat /\ tokens[m] \in Nat /\ JobServer(m)' = JobServer(m)
        /\ waiting[m] \in Seq(Jobs)
    BY BuildKept DEF JobsTypeOK
  <1>1. /\ pc[m] = "die" /\ Alive(m) /\ children[m] = {} /\ term[m] # "handling"
        /\ status[m] \in {0, 2} /\ pc'[m] = "exited"
        /\ UNCHANGED <<waiting, status, term>>
    BY DEF DieExit, DieWaits, Alive, Exit, Local, FlowOf, Dying, Handling, JobsTypeOK
  <1>2. Moves(m)
    <2>1. PICK how \in {"won", "lost"} : Exit(m, how) /\ (how = "lost" => status[m] # 0)
      BY DEF DieExit
    <2>2. UNCHANGED <<term, status, result, line>>
      BY DEF DieExit
    <2> QED BY <1>1, <2>1, <2>2, ExitMoves
  <1>3. tokens[m] = Len(waiting[m])
    <2>1. Used(m) = tokens[m]
      BY <1>1 DEF Local, SlotsOf
    <2> QED BY <1>t, <1>1, <2>1, FS_EmptySet DEF Used
  <1>4. status[m] = 0 => waiting[m] = <<>>
    <2>1. ASSUME status[m] = 0, waiting[m] # <<>> PROVE FALSE
      <3>1. 1 \in DOMAIN waiting[m]
        BY <1>t, <2>1
      <3>2. waiting[m][1] \in JobsOf(m) /\ state[waiting[m][1]] = "running"
        BY <3>1 DEF Local, ChainsOf
      <3> QED BY <2>1, <3>2 DEF Local, TargetsOf, Made
    <2> QED BY <2>1
  <1>5. Taken(m)' = 0
    BY <1>1 DEF Taken, Alive
  <1>6. CASE JobServer(m) /\ status[m] = 2
    <2>1. pipe' = pipe + tokens[m] /\ tokens'[m] = 0
      BY <1>6 DEF DieExit, clean_jobserver, JobsTypeOK
    <2>2. CASE waiting[m] = <<>>
      <3>1. tokens[m] = 0 /\ MadeUp(m)' = 0 /\ Taken(m) = 0
        BY <1>1, <1>3, <2>2 DEF MadeUp, Excess, Taken
      <3> QED BY <1>t, <1>2, <1>5, <1>6, <2>1, <3>1 DEF Accounts
    <2>3. CASE waiting[m] # <<>>
      <3>1. tokens[m] > 0
        BY <1>t, <1>3, <2>3
      <3>2. MadeUp(m)' = 1
        BY <1>t, <1>1, <1>6, <2>3 DEF MadeUp, Excess
      <3>3. Taken(m) = tokens[m] - 1
        BY <1>t, <1>1, <1>6, <3>1 DEF Taken
      <3> QED BY <1>t, <1>2, <1>5, <1>6, <2>1, <3>1, <3>2, <3>3 DEF Accounts
    <2> QED BY <2>2, <2>3
  <1>7. CASE ~(JobServer(m) /\ status[m] = 2)
    <2>1. UNCHANGED <<pipe, tokens>>
      BY <1>7 DEF DieExit, clean_jobserver
    <2>2. MadeUp(m)' = 0
      BY <1>t, <1>1, <1>7 DEF MadeUp, Excess
    <2>3. Taken(m) = 0
      <3>1. CASE ~JobServer(m)
        BY <3>1 DEF Taken
      <3>2. CASE status[m] = 0
        <4>1. tokens[m] = 0
          BY <1>3, <1>4, <3>2
        <4> QED BY <4>1 DEF Taken
      <3> QED BY <1>1, <1>7, <3>1, <3>2
    <2> QED BY <1>t, <1>2, <1>5, <2>1, <2>2, <2>3 DEF Accounts
  <1> QED
    BY <1>6, <1>7

LEMMA FatalExitAccounts ==
  ASSUME NEW m \in Makes, JobsTypeOK, Local(m), \A n \in Makes : LinesOf(n), Idle,
         build' = build, FatalExit(m)
  PROVE  Moves(m) /\ Accounts(m)
  <1>1. /\ pc[m] = "fatal" /\ Alive(m) /\ term[m] = "handling" /\ pc'[m] = "exited"
        /\ UNCHANGED <<pipe, tokens, status, term, result, line>> /\ Exit(m, "lost")
    BY DEF FatalExit, FatalOver, Alive, Exit, Local, FlowOf, Handling, JobsTypeOK
  <1>2. Moves(m)
    BY <1>1, ExitMoves
  <1>3. Taken(m)' = 0 /\ Taken(m) \in Nat /\ pipe \in Nat
    BY <1>1, TakenType DEF Taken, Alive, JobsTypeOK
  <1>4. MadeUp(m)' \in {0, 1}
    BY DEF MadeUp
  <1> QED
    BY <1>1, <1>2, <1>3, <1>4 DEF Accounts

-----------------------------------------------------------------------------
(* Every step. *)
Acts(m) ==
  /\ JobsTypeOK' /\ OthersKept(m) /\ Local(m)'
  /\ Moves(m) /\ Accounts(m)

LEMMA StepActs ==
  ASSUME JInv, NEW m \in Makes,
         Step(m) \/ child_handler(m) \/ fatal_error_signal(m) \/ Terminate(m)
  PROVE  Acts(m)
  <1>i. /\ JobsTypeOK /\ Local(m) /\ StartedOnce /\ Idle
        /\ \A n \in Makes : LinesOf(n)
    BY DEF JInv, Local
  <1>b. build' = build
    BY DEF Step, child_handler, fatal_error_signal, Terminate
  <1>1. CASE QuietStep(m)
    <2>1. JobsTypeOK' /\ OthersKept(m) /\ Local(m)'
      BY <1>i, <1>b, <1>1, ReapNoMoreLocal, ReapBeforeWaitingLocal, StartPassLocal,
         AwaitChildLocal, EndPassLocal, NoRuleToMakeLocal, ReapBeforeJobLocal,
         NeedSlotLocal, NeedTokenLocal, StartWaitingBeforeReadLocal,
         CheckBeforeReadLocal, LinearLocal, DieLocal, FatalWaitsLocal,
         child_handlerLocal, TerminateLocal DEF QuietStep
    <2> QED BY <1>i, <1>b, <1>1, <2>1, QuietSteps DEF Acts
  <1>2. CASE Read(m) \/ Wake(m)
    BY <1>i, <1>b, <1>2, ReadLocal, WakeLocal, ReadAccounts DEF Acts
  <1>3. CASE CountToken(m)
    BY <1>i, <1>b, <1>3, CountTokenLocal, CountTokenAccounts DEF Acts
  <1>4. CASE Consider(m)
    BY <1>i, <1>b, <1>4, ConsiderLocal, ConsiderAccounts DEF Acts
  <1>5. CASE BeginJob(m)
    BY <1>i, <1>b, <1>5, BeginJobLocal, BeginJobAccounts DEF Acts
  <1>6. CASE StartJob(m)
    <2>1. /\ JobsTypeOK' /\ OthersKept(m) /\ Local(m)'
          /\ Takes(m, Cur(m), waiting[m])
      BY <1>i, <1>b, <1>6, StartJobLocal
    <2>2. /\ pc[m] \in {"start", "try"} /\ UNCHANGED term
          /\ start_waiting_job(m, Cur(m), waiting[m], "linear", "linear")
      BY <1>6 DEF StartJob
    <2>3. Moves(m) /\ Accounts(m)
      BY <1>i, <1>b, <2>1, <2>2, StartWaitingAccounts
    <2> QED BY <2>1, <2>3 DEF Acts
  <1>7. CASE TryWaiting(m)
    <2> DEFINE j == Head(waiting[m])
               w == Tail(waiting[m])
               begun == IF Len(waiting[m]) = 1 THEN wret[m] ELSE "waiting"
    <2>1. JobsTypeOK' /\ OthersKept(m) /\ Local(m)' /\ Takes(m, j, w)
      BY <1>i, <1>b, <1>7, TryWaitingLocal
    <2>2. /\ pc[m] \in {"start", "try"} /\ UNCHANGED term
          /\ start_waiting_job(m, j, w, wret[m], begun)
      BY <1>7 DEF TryWaiting
    <2>3. /\ wret[m] \in {"linear", "block", "new", "check"}
          /\ begun \in {"linear", "block", "new", "check", "waiting"}
      BY <1>i DEF JobsTypeOK
    <2>4. Moves(m) /\ Accounts(m)
      <3> HIDE DEF j, w, begun
      <3> QED BY <1>i, <1>b, <2>1, <2>2, <2>3, StartWaitingAccounts
    <2> QED BY <2>1, <2>4 DEF Acts
  <1>8. CASE ReapChild(m)
    BY <1>i, <1>b, <1>8, ReapChildLocal, ReapChildAccounts DEF Acts
  <1>9. CASE DieExit(m)
    BY <1>i, <1>b, <1>9, DieExitLocal, DieExitAccounts DEF Acts
  <1>10. CASE FatalExit(m)
    BY <1>i, <1>b, <1>10, FatalExitLocal, FatalExitAccounts DEF Acts
  <1>11. CASE fatal_error_signal(m)
    BY <1>i, <1>b, <1>11, fatal_error_signalLocal, fatal_error_signalAccounts DEF Acts
  <1> QED
    BY <1>1, <1>2, <1>3, <1>4, <1>5, <1>6, <1>7, <1>8, <1>9, <1>10, <1>11
    DEF Step, QuietStep

(* A command ends: a step of its job's make, as far as the invariant goes. *)
LEMMA EndCommandActs ==
  ASSUME JInv, NEW j \in Jobs, EndCommand(j)
  PROVE  \E m \in Makes : Acts(m)
  <1>i. JobsTypeOK /\ (\A m \in Makes : Local(m)) /\ Idle
    BY DEF JInv
  <1>b. build' = build
    BY DEF EndCommand
  <1>k. /\ MayFail' = MayFail /\ \A n \in Makes : JobsOf(n)' = JobsOf(n)
    BY <1>b, BuildKept
  <1>p. /\ proc[j] = "alive" /\ Lines[j][line[j] - 1] = "run"
        /\ UNCHANGED <<pipe, pc, ret, wret, block, pos, tokens, children, waiting,
                       rfd, term, status, state, result, line>>
    BY DEF EndCommand
  <1>h. PICK how \in {"won", "lost"} :
          /\ how = "lost" => j \in MayFail \/ term[Owner(j)] # "no"
          /\ proc' = [proc EXCEPT ![j] = how]
    BY DEF EndCommand
  <1>m. PICK m \in Makes : m = Owner(j) /\ j \in JobsOf(m)
    <2>1. PICK n \in Makes : j \in JobsOf(n)
      BY <1>i, <1>p DEF Idle, None
    <2>2. \E i \in DOMAIN Todo[n] : Todo[n][i] = j
      BY <2>1 DEF JobsOf
    <2> QED BY <2>2 DEF Owner, JobsOf
  <1>c. /\ proc'[j] = how
        /\ \A k \in Jobs \ {j} : proc'[k] = proc[k]
    BY <1>h, <1>i DEF JobsTypeOK
  <1>1. JobsTypeOK'
    <2>1. sigchld' \in [Makes -> BOOLEAN] /\ proc' \in [Jobs -> {None, "alive", "won", "lost"}]
      BY <1>i, <1>h DEF JobsTypeOK, EndCommand
    <2> QED BY <1>i, <1>b, <1>p, <2>1 DEF JobsTypeOK
  <1>2. ASSUME NEW x PROVE OthersKept(x)
    <2>1. \A n \in Makes : JobsOf(n) \subseteq Jobs
      BY <1>i, OneOwner DEF JobsTypeOK
    <2> QED BY <1>b, <1>p, <1>c, <2>1 DEF OthersKept
  <1>3. Local(m)'
    <2>1. PICK x : x \notin Makes
      BY NoSetContainsEverything
    <2>2. m \in Makes \ {x}
      BY <1>m, <2>1
    <2> QED BY <1>i, <1>2, <2>2, OthersLocal
  <1>4. Alive(m) /\ pc[m] \notin {"off", "exited"}
    <2>1. j \in children[m]
      BY <1>i, <1>m, <1>p DEF Local, ChainsOf, None
    <2> QED BY <1>i, <1>m, <2>1 DEF Local, FlowOf, Alive
  <1>5. Moves(m)
    <2>1. ASSUME how = "lost" PROVE Reason(j)'
      <3>1. CASE j \in MayFail
        BY <1>k, <3>1 DEF Reason
      <3>2. CASE term[m] # "no"
        <4>1. m \in Makes /\ j \in JobsOf(m)' /\ term'[m] # "no"
          BY <1>k, <1>m, <1>p, <3>2
        <4> QED BY <4>1 DEF Reason
      <3> QED BY <1>h, <1>m, <2>1, <3>1, <3>2
    <2>2. \A k \in Jobs : line[k] <= line'[k]
      BY <1>i, <1>p DEF JobsTypeOK
    <2>3. \A k \in Jobs : (\A n \in Makes : k \notin JobsOf(n)) => proc'[k] = proc[k]
      BY <1>c, <1>m
    <2>4. \A k \in Jobs : result'[k] = "failed" \/ proc'[k] = "lost" =>
            result[k] = "failed" \/ proc[k] = "lost" \/ Reason(k)'
      BY <1>c, <1>p, <2>1
    <2>5. \A k \in Jobs : proc[k] = "alive" => proc'[k] = "alive" \/ Lines[k][line[k] - 1] = "run"
      BY <1>c, <1>p
    <2> QED BY <1>p, <1>4, <2>2, <2>3, <2>4, <2>5 DEF Moves
  <1>6. Accounts(m)
    <2>1. Alive(m)'
      BY <1>4, <1>p DEF Alive
    <2> QED BY <1>b, <1>i, <1>m, <1>p, <1>4, <2>1, QuietAccounts
  <1> QED
    BY <1>m, <1>1, <1>2, <1>3, <1>5, <1>6 DEF Acts

-----------------------------------------------------------------------------
(* What holds of all makes together. *)
LEMMA StartedOnceKept ==
  ASSUME JInv, NEW m \in Makes, Acts(m)
  PROVE  StartedOnce'
  <1>i. JobsTypeOK /\ JobsTypeOK' /\ StartedOnce /\ Moves(m) /\ OthersKept(m) /\ Local(m)
    BY DEF JInv, Acts
  <1>k. Lines' = Lines
    BY <1>i, BuildKept DEF OthersKept
  <1>l. \A j \in Jobs : /\ line[j] \in Nat /\ line'[j] \in Nat /\ line[j] <= line'[j]
                        /\ Lines[j] \in Seq({"run", "nop"} \cup (Makes \ {Top}))
    BY <1>i, BuildFacts DEF JobsTypeOK, Moves
  <1>o. \A n \in Makes \ {m} : pc'[n] = pc[n] \/ (pc[n] = "off" /\ pc'[n] = "chain")
    BY <1>i DEF OthersKept
  <1>f. pc[m] \notin {"off", "exited", "internal"}
    BY <1>i DEF Moves, Local, FlowOf
  <1>s. ASSUME NEW x \in Makes, pc[x] = "off", pc'[x] # "off"
        PROVE  \E j \in Jobs : /\ proc'[j] = "alive" /\ Lines[j][line'[j] - 1] = x
                               /\ line'[j] > 1 /\ line'[j] <= Len(Lines[j]) + 1
    BY <1>i, <1>s DEF Moves
  <1>1. ASSUME NEW x \in Makes \ {Top}, pc'[x] # "off"
        PROVE  \E j \in Jobs : \E i \in DOMAIN Lines[j] : i < line'[j] /\ Lines[j][i] = x
    <2>1. CASE pc[x] # "off"
      <3>1. PICK j \in Jobs : \E i \in DOMAIN Lines[j] : i < line[j] /\ Lines[j][i] = x
        BY <1>i, <2>1 DEF StartedOnce
      <3>2. PICK i \in DOMAIN Lines[j] : i < line[j] /\ Lines[j][i] = x
        BY <3>1
      <3>3. i < line'[j]
        BY <1>l, <3>2
      <3> QED BY <3>2, <3>3
    <2>2. CASE pc[x] = "off"
      <3>1. PICK j \in Jobs : /\ proc'[j] = "alive" /\ Lines[j][line'[j] - 1] = x
                              /\ line'[j] > 1 /\ line'[j] <= Len(Lines[j]) + 1
        BY <1>1, <1>s, <2>2
      <3>2. line'[j] - 1 \in DOMAIN Lines[j] /\ line'[j] - 1 < line'[j]
        BY <1>l, <3>1
      <3> QED BY <3>1, <3>2
    <2> QED BY <2>1, <2>2
  <1>2. ASSUME NEW x \in Makes \ {Top}, Alive(x)'
        PROVE  \E j \in Jobs : proc'[j] = "alive" /\ line'[j] > 1 /\ Lines[j][line'[j] - 1] = x
    <2>1. CASE pc[x] = "off"
      <3>1. pc'[x] # "off"
        BY <1>2 DEF Alive
      <3> QED BY <1>s, <2>1, <3>1
    <2>2. CASE pc[x] # "off"
      <3>1. Alive(x)
        BY <1>2, <1>o, <1>f, <2>2 DEF Alive
      <3>2. PICK j \in Jobs : proc[j] = "alive" /\ line[j] > 1 /\ Lines[j][line[j] - 1] = x
        BY <1>i, <3>1 DEF StartedOnce
      <3>3. Lines[j][line[j] - 1] # "run"
        BY <3>2, JobsAssumption
      <3>4. ~(Lines[j][line[j] - 1] = m /\ pc'[m] = "exited")
        BY <1>2, <3>2 DEF Alive
      <3>5. proc'[j] = "alive" /\ line'[j] = line[j]
        BY <1>i, <3>2, <3>3, <3>4 DEF Moves
      <3> QED BY <3>2, <3>5
    <2> QED BY <2>1, <2>2
  <1> QED
    BY <1>k, <1>1, <1>2 DEF StartedOnce

LEMMA ReasonsKept ==
  ASSUME JInv, NEW m \in Makes, Acts(m)
  PROVE  Reasons' /\ Idle' /\ OneByOne'
  <1>i. /\ JobsTypeOK /\ Moves(m) /\ OthersKept(m) /\ Accounts(m)
        /\ Reasons /\ Idle /\ OneByOne
    BY DEF JInv, Acts
  <1>k. /\ After' = After /\ NoRule' = NoRule /\ MayFail' = MayFail
        /\ ForkFails' = ForkFails
        /\ \A n : JobServer(n)' = JobServer(n) /\ JobsOf(n)' = JobsOf(n)
        /\ \A j, n : Runs(j, n)' = Runs(j, n)
    BY <1>i, BuildKept DEF OthersKept
  <1>1. \A n \in Makes : term[n] # "no" => term'[n] # "no"
    BY <1>i DEF Moves, OthersKept
  <1>2. \A n \in Makes : pc[n] = "exited" => pc'[n] = "exited" /\ status'[n] = status[n]
    BY <1>i DEF Moves, OthersKept
  <1>3. \A j \in Jobs : After[j] \subseteq Jobs
    BY <1>i, BuildFacts DEF JobsTypeOK
  <1>4. ASSUME NEW j \in Jobs, Reason(j) PROVE Reason(j)'
    <2>1. CASE j \in MayFail \cup NoRule \/ ForkFails
      BY <1>k, <2>1 DEF Reason
    <2>2. CASE \E d \in After[j] : result[d] = "failed"
      <3>1. \E d \in After[j] : result'[d] = "failed"
        BY <1>i, <1>3, <2>2 DEF Moves
      <3> QED BY <1>k, <3>1 DEF Reason
    <2>3. CASE \E x \in Makes : Runs(j, x) /\ pc[x] = "exited" /\ (status[x] # 0 \/ term[x] # "no")
      BY <1>k, <1>1, <1>2, <2>3 DEF Reason
    <2>4. CASE \E n \in Makes : j \in JobsOf(n) /\ term[n] # "no"
      BY <1>k, <1>1, <2>4 DEF Reason
    <2> QED BY <1>4, <2>1, <2>2, <2>3, <2>4 DEF Reason
  <1>5. Reasons'
    BY <1>i, <1>4 DEF Reasons, Moves
  <1>6. Idle'
    BY <1>i, <1>k DEF Idle, Moves
  <1>7. OneByOne'
    BY <1>i, <1>k DEF OneByOne, Accounts, OthersKept
  <1> QED
    BY <1>5, <1>6, <1>7

(* The tokens of the others stay as they are, so that the sum changes by   *)
(* what m does; and the surplus grows when m exits and makes up a token.   *)
LEMMA BalanceKept ==
  ASSUME JInv, NEW m \in Makes, Acts(m)
  PROVE  Balance'
  <1> DEFINE t == [n \in Makes |-> Taken(n)]
             S == {n \in Makes : Excess(n)}
  <1>i. /\ JobsTypeOK /\ JobsTypeOK' /\ Moves(m) /\ OthersKept(m) /\ Accounts(m)
        /\ Balance /\ \A n \in Makes : Local(n)
    BY DEF JInv, Acts
  <1>k. \A n : JobServer(n)' = JobServer(n)
    BY <1>i, BuildKept DEF OthersKept
  <1>t. t \in [Makes -> Nat] /\ t[m] = Taken(m)
    BY <1>i, TakenType
  <1>u. t' \in [Makes -> Nat] /\ t'[m] = Taken(m)'
    <2>1. \A n \in Makes : Taken(n)' \in Nat
      BY <1>i DEF JobsTypeOK, Taken
    <2> QED BY <2>1
  <1>1. ASSUME NEW n \in Makes \ {m} PROVE Taken(n)' = Taken(n) /\ (Excess(n)' <=> Excess(n))
    <2>v. /\ pc'[n] = pc[n] \/ (pc[n] = "off" /\ pc'[n] = "chain")
          /\ tokens'[n] = tokens[n] /\ waiting'[n] = waiting[n] /\ status'[n] = status[n]
      BY <1>i DEF OthersKept
    <2>1. CASE pc'[n] = pc[n]
      BY <1>k, <2>v, <2>1 DEF Taken, Excess, Alive
    <2>2. CASE pc[n] = "off" /\ pc'[n] = "chain"
      <3>1. tokens[n] = 0
        BY <1>i, <2>2 DEF Local, FlowOf
      <3>2. Taken(n) = 0 /\ Taken(n)' = 0
        BY <2>v, <2>2, <3>1 DEF Taken, Alive
      <3>3. ~Excess(n) /\ ~Excess(n)'
        BY <2>2 DEF Excess
      <3> QED BY <3>2, <3>3
    <2> QED BY <2>v, <2>1, <2>2
  <1>2. Cardinality(Held(t')) - t'[m] = Cardinality(Held(t)) - t[m]
    <2>1. \A n \in Makes \ {m} : t'[n] = t[n]
      BY <1>1
    <2> HIDE DEF t
    <2> QED BY <1>t, <1>u, <2>1, HeldChanges
  <1>3. Cardinality(Held(t)) \in Nat /\ Cardinality(Held(t')) \in Nat
    <2> HIDE DEF t
    <2> QED BY <1>t, <1>u, HeldFinite
  <1>4. /\ Surplus' = Surplus + MadeUp(m)' /\ Surplus \in Nat
        /\ MadeUp(m)' \in {0, 1}
    <2>1. Surplus = Cardinality(S) /\ Surplus' = Cardinality(S')
      BY DEF Surplus, Excess
    <2>2. m \notin S
      BY <1>i DEF Moves, Excess
    <2>3. S' = IF Excess(m)' THEN S \cup {m} ELSE S
      BY <1>1, <2>2
    <2>4. S \in SUBSET Makes
      OBVIOUS
    <2> HIDE DEF S
    <2>5. IsFiniteSet(S) /\ Cardinality(S) \in Nat
      BY <2>4, FS_Subset, FS_CardinalityType, JobsAssumption
    <2>6. Cardinality(S \cup {m}) = Cardinality(S) + 1
      BY <2>2, <2>5, FS_AddElement
    <2>7. CASE Excess(m)'
      BY <2>1, <2>3, <2>5, <2>6, <2>7 DEF MadeUp
    <2>8. CASE ~Excess(m)'
      BY <2>1, <2>3, <2>5, <2>8 DEF MadeUp
    <2> QED BY <2>7, <2>8
  <1>5. /\ pipe \in Nat /\ pipe' \in Nat /\ Slots \in Nat
        /\ Taken(m) \in Nat /\ Taken(m)' \in Nat
    BY <1>i, <1>t, <1>u, JobsAssumption DEF JobsTypeOK
  <1>6. /\ pipe + Cardinality(Held(t)) <= Slots - 1 + Surplus
        /\ (\A n \in Makes : term[n] = "no") =>
             pipe + Cardinality(Held(t)) = Slots - 1 + Surplus
    BY <1>i DEF Balance
  <1>7. (\A n \in Makes : term'[n] = "no") => \A n \in Makes : term[n] = "no"
    BY <1>i DEF Moves, OthersKept
  <1>8. /\ pipe' + Taken(m)' <= pipe + Taken(m) + MadeUp(m)'
        /\ term'[m] = "no" => pipe' + Taken(m)' = pipe + Taken(m) + MadeUp(m)'
    BY <1>i DEF Accounts
  <1>9. pipe' + Cardinality(Held(t')) <= Slots - 1 + Surplus'
    <2> HIDE DEF t
    <2> QED BY <1>2, <1>3, <1>4, <1>5, <1>6, <1>8, <1>t, <1>u
  <1>10. (\A n \in Makes : term'[n] = "no") =>
            pipe' + Cardinality(Held(t')) = Slots - 1 + Surplus'
    <2> SUFFICES ASSUME \A n \in Makes : term'[n] = "no"
                 PROVE  pipe' + Cardinality(Held(t')) = Slots - 1 + Surplus'
      OBVIOUS
    <2>1. term'[m] = "no"
      OBVIOUS
    <2> HIDE DEF t
    <2> QED BY <1>2, <1>3, <1>4, <1>5, <1>6, <1>7, <1>8, <1>t, <1>u, <2>1
  <1> QED
    BY <1>9, <1>10 DEF Balance

-----------------------------------------------------------------------------
(* The invariant. *)
LEMMA ActsKeep ==
  ASSUME JInv, NEW m \in Makes, Acts(m)
  PROVE  JInv'
  <1>1. JobsTypeOK'
    BY DEF Acts
  <1>2. ASSUME NEW n \in Makes PROVE Local(n)'
    <2>1. CASE n = m
      BY <2>1 DEF Acts
    <2>2. CASE n # m
      BY <2>2, OthersLocal DEF Acts, JInv
    <2> QED BY <2>1, <2>2
  <1> QED
    BY <1>1, <1>2, StartedOnceKept, ReasonsKept, BalanceKept DEF JInv

LEMMA StutterKeeps ==
  ASSUME JInv, UNCHANGED vars
  PROVE  JInv'
  <1>1. build' = build /\ UNCHANGED <<pipe, pc, ret, wret, block, pos, tokens, children,
          waiting, rfd, sigchld, term, status, state, result, line, proc>>
    BY DEF vars
  <1>k. /\ Todo' = Todo /\ After' = After /\ Lines' = Lines
        /\ NoRule' = NoRule /\ MayFail' = MayFail
        /\ KeepGoing' = KeepGoing /\ ForkFails' = ForkFails
        /\ \A m : JobServer(m)' = JobServer(m) /\ JobsOf(m)' = JobsOf(m)
        /\ \A j, m : Runs(j, m)' = Runs(j, m)
    BY <1>1, BuildKept
  <1>2. JobsTypeOK'
    BY <1>1 DEF JInv, JobsTypeOK
  <1>3. ASSUME NEW n \in Makes PROVE Local(n)'
    <2>1. PICK x : x \notin Makes
      BY NoSetContainsEverything
    <2>2. OthersKept(x)
      BY <1>1 DEF OthersKept
    <2> QED BY <2>1, <2>2, OthersLocal DEF JInv
  <1>4. StartedOnce'
    BY <1>1, <1>k DEF JInv, StartedOnce, Alive
  <1>5. Reasons'
    BY <1>1, <1>k DEF JInv, Reasons, Reason
  <1>6. Idle' /\ OneByOne'
    BY <1>1, <1>k DEF JInv, Idle, OneByOne
  <1>7. Balance'
    <2>1. \A n \in Makes : Taken(n)' = Taken(n)
      BY <1>1, <1>k DEF Taken, Alive
    <2>2. [n \in Makes |-> Taken(n)]' = [n \in Makes |-> Taken(n)]
      BY <2>1
    <2>3. Surplus' = Surplus
      BY <1>1, <1>k DEF Surplus
    <2>4. Balance
      BY DEF JInv
    <2> QED BY <1>1, <2>2, <2>3, <2>4 DEF Balance, Held
  <1> QED
    BY <1>2, <1>3, <1>4, <1>5, <1>6, <1>7 DEF JInv

LEMMA JInvStep ==
  JInv /\ [JobsNext]_vars => JInv'
  <1> SUFFICES ASSUME JInv, [JobsNext]_vars PROVE JInv'
    OBVIOUS
  <1>1. ASSUME NEW m \in Makes,
               Step(m) \/ child_handler(m) \/ fatal_error_signal(m) \/ Terminate(m)
        PROVE  JInv'
    BY <1>1, StepActs, ActsKeep
  <1>2. ASSUME NEW j \in Jobs, EndCommand(j) PROVE JInv'
    BY <1>2, EndCommandActs, ActsKeep
  <1>3. CASE AllEnded
    BY <1>3, StutterKeeps DEF AllEnded
  <1>4. CASE UNCHANGED vars
    BY <1>4, StutterKeeps
  <1> QED
    BY <1>1, <1>2, <1>3, <1>4 DEF JobsNext

LEMMA JInvInit ==
  JobsInit => JInv
  <1> SUFFICES ASSUME JobsInit PROVE JInv
    OBVIOUS
  <1>b. build \in DOMAIN Builds
    BY DEF JobsInit
  <1>t. /\ Todo \in [Makes -> Seq(Jobs)] /\ Lines \in [Jobs -> Seq({"run", "nop"} \cup (Makes \ {Top}))]
        /\ \A m \in Makes : JobsOf(m) \subseteq Jobs
        /\ \A m \in Makes : JobServer(m) \in BOOLEAN
        /\ Slots \in Nat /\ Slots > 1
    BY <1>b, BuildFacts, OneOwner, JobsAssumption DEF JobServer
  <1>1. JobsTypeOK
    BY <1>t DEF JobsInit, InitialTokens, JobsTypeOK, NotDying, None
  <1>2. ASSUME NEW m \in Makes PROVE Local(m)
    <2>v. /\ pc[m] \in {"chain", "off"} /\ ret[m] = "pass" /\ wret[m] = "block" /\ pos[m] = 1
          /\ tokens[m] = 0 /\ children[m] = {} /\ waiting[m] = <<>> /\ term[m] = "no"
          /\ status[m] = NotDying
          /\ \A j \in JobsOf(m) : /\ state[j] = "not_started" /\ result[j] = None
                                  /\ line[j] = 1 /\ proc[j] = None
      BY <1>t DEF JobsInit
    <2>1. PassOf(m)
      BY <1>t, <2>v DEF PassOf, Before, Begun, InWaitingJobs
    <2>2. FlowOf(m)
      BY <2>v DEF FlowOf, InWaitingJobs, Dying, Handling
    <2>3. ChainsOf(m)
      BY <2>v DEF ChainsOf
    <2>4. SlotsOf(m)
      BY <2>v, FS_EmptySet DEF SlotsOf, Used
    <2>5. TargetsOf(m)
      BY <2>v DEF TargetsOf, NotDying
    <2>6. LinesOf(m)
      BY <1>t, <2>v DEF LinesOf, LineOf
    <2> QED BY <2>1, <2>2, <2>3, <2>4, <2>5, <2>6 DEF Local
  <1>3. StartedOnce
    BY DEF StartedOnce, JobsInit, Alive
  <1>4. Reasons /\ Idle
    BY DEF Reasons, Idle, JobsInit, None
  <1>5. OneByOne
    BY DEF OneByOne, JobsInit
  <1>6. Balance
    <2>1. \A m \in Makes : Taken(m) = 0
      BY DEF Taken, JobsInit
    <2>2. Held([m \in Makes |-> Taken(m)]) = {}
      BY <2>1 DEF Held
    <2>3. {m \in Makes : /\ JobServer(m) /\ pc[m] = "exited"
                         /\ status[m] = 2 /\ waiting[m] # <<>>} = {}
      BY DEF JobsInit
    <2>4. Surplus = 0
      BY <2>3, FS_EmptySet DEF Surplus
    <2>5. pipe = Slots - 1
      BY DEF JobsInit, InitialTokens
    <2>6. Cardinality(Held([m \in Makes |-> Taken(m)])) = 0
      BY <2>2, FS_EmptySet
    <2> QED BY <1>t, <2>4, <2>5, <2>6 DEF Balance
  <1> QED
    BY <1>1, <1>2, <1>3, <1>4, <1>5, <1>6 DEF JInv

LEMMA JInvAlways ==
  JobsSpec => []JInv
  BY JInvInit, JInvStep, PTL DEF JobsSpec

-----------------------------------------------------------------------------
(* Counting commands: every process stands for a token or for the free     *)
(* token of its make, and every make but Top for a process.                *)
LEMMA ChildrenCounted ==
  ASSUME JInv, NEW m \in Makes
  PROVE  \E f : f \in Injection(children[m], 0 .. Taken(m))
  <1> DEFINE n == Cardinality(children[m])
             C == children[m]
  <1>0. IsFiniteSet(C) /\ n \in Nat
    BY ChildrenFinite DEF JInv
  <1>t. Taken(m) \in Nat
    BY TakenType DEF JInv
  <1>1. CASE C = {}
    <2>1. [j \in C |-> 0] \in Injection(C, 0 .. Taken(m))
      BY <1>1 DEF Injection, IsInjective
    <2> QED BY <2>1
  <1>2. CASE C # {}
    <2>1. n <= Taken(m) + 1
      <3>1. Alive(m) /\ pc[m] # "off"
        BY <1>2 DEF JInv, Local, FlowOf, Alive
      <3>2. tokens[m] \in Nat /\ Len(waiting[m]) \in Nat
        BY DEF JInv, JobsTypeOK
      <3>3. Used(m) <= tokens[m]
        BY <3>1 DEF JInv, Local, SlotsOf
      <3>4. n <= tokens[m]
        BY <1>0, <3>2, <3>3 DEF Used
      <3>5. CASE JobServer(m)
        <4>1. tokens[m] <= Taken(m) + 1
          BY <3>1, <3>2, <3>5 DEF Taken
        <4> QED BY <1>0, <1>t, <3>2, <3>4, <4>1
      <3>6. CASE ~JobServer(m)
        <4>1. tokens[m] <= 1
          BY <3>6 DEF JInv, OneByOne
        <4> QED BY <1>0, <1>t, <3>2, <3>4, <4>1
      <3> QED BY <3>5, <3>6
    <2>2. ExistsBijection(C, 1 .. n)
      <3>1. IsFiniteSet(1 .. n) /\ Cardinality(1 .. n) = n
        BY <1>0, FS_Interval
      <3> QED BY <1>0, <3>1, FS_SameCardinalityBij
    <2> HIDE DEF n, C
    <2>3. PICK b : b \in Bijection(C, 1 .. n)
      BY <2>2 DEF ExistsBijection
    <2>4. /\ b \in [C -> 1 .. n]
          /\ \A x, y \in C : b[x] = b[y] => x = y
      BY <2>3 DEF Bijection, Injection, IsInjective
    <2> DEFINE f == [j \in C |-> b[j] - 1]
    <2>5. f \in [C -> 0 .. Taken(m)]
      BY <1>0, <1>t, <2>1, <2>4
    <2>6. \A x, y \in C : f[x] = f[y] => x = y
      BY <1>0, <2>4
    <2>7. f \in Injection(C, 0 .. Taken(m))
      BY <2>5, <2>6 DEF Injection, IsInjective
    <2> QED BY <2>7 DEF C
  <1> QED
    BY <1>1, <1>2

LEMMA CommandsBounded ==
  ASSUME JInv
  PROVE  NeverMoreThanSlots
  <1> DEFINE R == {j \in Jobs : proc[j] = "alive" /\ Lines[j][line[j] - 1] = "run"}
             M == {j \in Jobs : proc[j] = "alive" /\ Lines[j][line[j] - 1] \in Makes}
             A == {m \in Makes : Alive(m)}
             t == [m \in Makes |-> Taken(m)]
             H == Held(t)
             Z == A \X {0}
  <1>t. t \in [Makes -> Nat]
    BY TakenType DEF JInv
  <1>r. /\ IsFiniteSet(R) /\ IsFiniteSet(M) /\ IsFiniteSet(A)
        /\ Cardinality(R) \in Nat /\ Cardinality(M) \in Nat /\ Cardinality(A) \in Nat
    <2>1. R \in SUBSET Jobs /\ M \in SUBSET Jobs /\ A \in SUBSET Makes
      OBVIOUS
    <2> HIDE DEF R, M, A
    <2> QED BY <2>1, FS_Subset, FS_CardinalityType, JobsAssumption
  <1>h. IsFiniteSet(H) /\ Cardinality(H) \in Nat
    <2> HIDE DEF t
    <2> QED BY <1>t, HeldFinite
  <1>z. IsFiniteSet(Z) /\ Cardinality(Z) = Cardinality(A)
    <2>1. IsFiniteSet({0}) /\ Cardinality({0}) = 1
      BY FS_Singleton
    <2> HIDE DEF A
    <2>2. IsFiniteSet(Z) /\ Cardinality(Z) = Cardinality(A) * Cardinality({0})
      BY <1>r, <2>1, FS_Product
    <2> QED BY <1>r, <2>1, <2>2
  <1>1. ASSUME NEW j \in R \cup M PROVE \E m \in A : j \in children[m]
    <2>1. PICK m \in Makes : j \in JobsOf(m)
      BY DEF JInv, Idle, None
    <2>2. j \in children[m]
      BY <2>1 DEF JInv, Local, ChainsOf, None
    <2>3. Alive(m)
      BY <2>2 DEF JInv, Local, FlowOf, Alive
    <2> QED BY <2>2, <2>3
  <1>2. Cardinality(R \cup M) <= Cardinality(H \cup Z)
    <2> DEFINE own == [j \in R \cup M |-> CHOOSE m \in A : j \in children[m]]
               inj == [m \in Makes |-> CHOOSE f : f \in Injection(children[m], 0 .. Taken(m))]
               F == [j \in R \cup M |-> <<own[j], inj[own[j]][j]>>]
    <2>1. \A j \in R \cup M : own[j] \in A /\ j \in children[own[j]]
      BY <1>1
    <2>2. ASSUME NEW m \in Makes
          PROVE  /\ inj[m] \in [children[m] -> 0 .. Taken(m)]
                 /\ \A x, y \in children[m] : inj[m][x] = inj[m][y] => x = y
      <3>1. inj[m] \in Injection(children[m], 0 .. Taken(m))
        BY ChildrenCounted
      <3> HIDE DEF inj
      <3> QED BY <3>1 DEF Injection, IsInjective
    <2>3. \A m \in A : m \in Makes /\ Taken(m) \in Nat /\ t[m] = Taken(m)
      BY TakenType DEF JInv
    <2>4. ASSUME NEW m \in A, NEW k \in 0 .. Taken(m) PROVE <<m, k>> \in H \cup Z
      <3>1. CASE k = 0
        BY <3>1
      <3>2. CASE k # 0
        <4>1. m \in Makes /\ k \in 1 .. t[m]
          BY <2>3, <3>2
        <4> HIDE DEF t
        <4>2. <<m, k>> \in H
          BY <4>1 DEF Held
        <4> QED BY <4>2
      <3> QED BY <3>1, <3>2
    <2> HIDE DEF own, inj, R, M, A, H, Z, t
    <2>5. ASSUME NEW j \in R \cup M
          PROVE  inj[own[j]][j] \in 0 .. Taken(own[j]) /\ F[j] \in H \cup Z
      <3>1. own[j] \in A /\ own[j] \in Makes /\ j \in children[own[j]]
        BY <2>1, <2>3
      <3>2. inj[own[j]][j] \in 0 .. Taken(own[j])
        BY <2>2, <3>1
      <3> QED BY <2>4, <3>1, <3>2
    <2>6. ASSUME NEW x \in R \cup M, NEW y \in R \cup M, F[x] = F[y] PROVE x = y
      <3>1. own[x] = own[y] /\ inj[own[x]][x] = inj[own[y]][y]
        BY <2>6
      <3>2. own[x] \in Makes /\ x \in children[own[x]] /\ y \in children[own[x]]
        BY <2>1, <2>3, <3>1
      <3> QED BY <2>2, <3>1, <3>2
    <2>7. F \in Injection(R \cup M, H \cup Z)
      BY <2>5, <2>6 DEF Injection, IsInjective
    <2>8. IsFiniteSet(H \cup Z)
      BY <1>h, <1>z, FS_Union
    <2> HIDE DEF F
    <2> QED BY <2>7, <2>8, FS_Injection
  <1>3. Cardinality(R \cup M) = Cardinality(R) + Cardinality(M)
    <2>1. R \cap M = {}
      BY JobsAssumption
    <2> HIDE DEF R, M
    <2>2. Cardinality(R \cup M) = Cardinality(R) + Cardinality(M) - Cardinality(R \cap M)
      BY <1>r, FS_Union
    <2>3. Cardinality(R \cap M) = 0
      BY <2>1, FS_EmptySet
    <2> QED BY <1>r, <2>2, <2>3
  <1>4. Cardinality(H \cup Z) <= Cardinality(H) + Cardinality(A)
    <2> HIDE DEF H, Z, A
    <2>1. Cardinality(H \cup Z) = Cardinality(H) + Cardinality(Z) - Cardinality(H \cap Z)
      BY <1>h, <1>z, FS_Union
    <2>2. IsFiniteSet(H \cap Z) /\ Cardinality(H \cap Z) \in Nat
      BY <1>h, FS_Intersection, FS_CardinalityType
    <2> QED BY <1>h, <1>z, <1>r, <2>1, <2>2
  <1>5. Cardinality(A) <= Cardinality(M) + 1
    <2> DEFINE G == [x \in A \ {Top} |-> CHOOSE j \in M : Lines[j][line[j] - 1] = x]
    <2>1. ASSUME NEW x \in A \ {Top} PROVE G[x] \in M /\ Lines[G[x]][line[G[x]] - 1] = x
      <3>1. \E j \in M : Lines[j][line[j] - 1] = x
        BY DEF JInv, StartedOnce
      <3> HIDE DEF M
      <3> QED BY <3>1
    <2> HIDE DEF G
    <2>2. \A x, y \in A \ {Top} : G[x] = G[y] => x = y
      BY <2>1
    <2>3. G \in [A \ {Top} -> M]
      BY <2>1 DEF G
    <2> HIDE DEF A, M
    <2>4. G \in Injection(A \ {Top}, M)
      BY <2>2, <2>3 DEF Injection, IsInjective
    <2>5. IsFiniteSet(A \ {Top}) /\ Cardinality(A \ {Top}) <= Cardinality(M)
      BY <1>r, <2>4, FS_Injection
    <2>6. Cardinality(A \ {Top}) = IF Top \in A THEN Cardinality(A) - 1 ELSE Cardinality(A)
      BY <1>r, FS_RemoveElement
    <2> QED BY <1>r, <2>5, <2>6
  <1>6. pipe \in Nat /\ pipe + Cardinality(H) <= Slots - 1 + Surplus
    BY DEF JInv, Balance, JobsTypeOK
  <1>7. Slots \in Nat /\ Surplus \in Nat
    <2> DEFINE S == {m \in Makes : /\ JobServer(m) /\ pc[m] = "exited"
                                   /\ status[m] = 2 /\ waiting[m] # <<>>}
    <2>1. S \in SUBSET Makes
      OBVIOUS
    <2>2. Surplus = Cardinality(S)
      BY DEF Surplus
    <2> HIDE DEF S
    <2> QED BY <2>1, <2>2, FS_Subset, FS_CardinalityType, JobsAssumption
  <1>8. Cardinality(R) <= Slots + Surplus
    <2> HIDE DEF R, M, A, H, Z
    <2>1. Cardinality(R) + Cardinality(M) <= Cardinality(H) + Cardinality(M) + 1
      <3>1. Cardinality(H \cup Z) \in Nat
        BY <1>h, <1>z, FS_Union, FS_CardinalityType
      <3> QED BY <1>r, <1>h, <1>2, <1>3, <1>4, <1>5, <3>1
    <2> QED BY <1>r, <1>h, <1>6, <1>7, <2>1
  <1> QED
    BY <1>8 DEF NeverMoreThanSlots

-----------------------------------------------------------------------------
(* The types. *)
THEOREM JobsTypeCorrect == JobsSpec => []JobsTypeOK
  <1>1. JInv => JobsTypeOK
    BY DEF JInv
  <1> QED
    BY <1>1, JInvAlways, PTL

(* Whatever fails, ends or waits, the tokens in the pipe and those that    *)
(* the makes have taken are Slots - 1 together, but for the slots that     *)
(* clean_jobserver makes up and what a signal takes away.                  *)
THEOREM TokensAreConserved == JobsSpec => []TokensConserved
  <1>1. JInv => TokensConserved
    BY DEF JInv, Balance, TokensConserved
  <1> QED
    BY <1>1, JInvAlways, PTL

(* Hence no more commands run at a time than there are slots: a command    *)
(* runs with a token from the pipe or with the free token of its make, and *)
(* that one came with the slot of the command that the make is.            *)
THEOREM SlotsAreEnough == JobsSpec => []NeverMoreThanSlots
  BY CommandsBounded, JInvAlways, PTL

(* die and fatal_error_signal wait for the children: a make that has ended *)
(* leaves no process behind.                                               *)
THEOREM NobodyIsLeftBehind == JobsSpec => []NobodyLeftBehind
  <1>1. JInv => NobodyLeftBehind
    <2> SUFFICES ASSUME JInv, NEW m \in Makes, pc[m] = "exited", NEW j \in JobsOf(m)
                 PROVE  proc[j] # "alive"
      BY DEF NobodyLeftBehind
    <2>1. children[m] = {}
      BY DEF JInv, Local, FlowOf
    <2> QED BY <2>1 DEF JInv, Local, ChainsOf, None
  <1> QED
    BY <1>1, JInvAlways, PTL

(* No command of a target runs, in any pass over the targets and with jobs *)
(* that waited for the load, before its prerequisites have been made.      *)
THEOREM PrerequisitesAreFirst == JobsSpec => []PrerequisitesFirst
  <1>1. JInv => PrerequisitesFirst
    <2> SUFFICES ASSUME JInv, NEW j \in Jobs, proc[j] = "alive"
                 PROVE  \A d \in After[j] : state[d] = "finished" /\ result[d] = "ok"
      BY DEF PrerequisitesFirst
    <2>1. PICK m \in Makes : j \in JobsOf(m)
      BY DEF JInv, Idle, None
    <2>2. j \in children[m]
      BY <2>1 DEF JInv, Local, ChainsOf, None
    <2>3. state[j] = "running"
      BY <2>2 DEF JInv, Local, ChainsOf
    <2> QED BY <2>1, <2>3 DEF JInv, Local, TargetsOf, Made
  <1> QED
    BY <1>1, JInvAlways, PTL

(* The exit status tells: 0 means that every target was made; with -k all  *)
(* targets are finished, and one that failed has a reason.                 *)
THEOREM ExitStatusTells == JobsSpec => []ExitTells
  <1>1. JInv => ExitTells
    <2> SUFFICES ASSUME JInv, NEW m \in Makes, pc[m] = "exited", term[m] = "no"
                 PROVE  /\ status[m] = 0 =>
                             \A j \in JobsOf(m) : state[j] = "finished" /\ result[j] = "ok"
                        /\ KeepGoing => \A j \in JobsOf(m) :
                             /\ state[j] = "finished"
                             /\ result[j] = "failed" =>
                                  \/ j \in MayFail \cup NoRule \/ ForkFails
                                  \/ \E d \in After[j] : result[d] = "failed"
                                  \/ \E x \in Makes :
                                       Runs(j, x) /\ (status[x] # 0 \/ term[x] # "no")
      BY DEF ExitTells
    <2>1. status[m] # NotDying
      BY DEF JInv, Local, FlowOf
    <2>2. status[m] = 0 => \A j \in JobsOf(m) : state[j] = "finished" /\ result[j] = "ok"
      BY DEF JInv, Local, TargetsOf, Made
    <2>3. KeepGoing => \A j \in JobsOf(m) : state[j] = "finished"
      BY <2>1 DEF JInv, Local, TargetsOf
    <2>4. ASSUME NEW j \in JobsOf(m), result[j] = "failed"
          PROVE  \/ j \in MayFail \cup NoRule \/ ForkFails
                 \/ \E d \in After[j] : result[d] = "failed"
                 \/ \E x \in Makes : Runs(j, x) /\ (status[x] # 0 \/ term[x] # "no")
      <3>1. j \in Jobs /\ \A n \in Makes : j \in JobsOf(n) => n = m
        BY OneOwner DEF JInv, JobsTypeOK
      <3>2. Reason(j)
        BY <2>4, <3>1 DEF JInv, Reasons
      <3> QED BY <3>1, <3>2 DEF Reason
    <2> QED BY <2>2, <2>3, <2>4
  <1> QED
    BY <1>1, JInvAlways, PTL

(* Neither internal error of job.c is met: free_child always has a token   *)
(* to give back, and new_job never waits for the pipe without a child.     *)
NoInternalError == \A m \in Makes : pc[m] # "internal"

THEOREM NoInternalErrors == JobsSpec => []NoInternalError
  <1>1. JInv => NoInternalError
    BY DEF JInv, Local, FlowOf, NoInternalError
  <1> QED
    BY <1>1, JInvAlways, PTL

=============================================================================
