-------------------------- MODULE MakeUpdate_proofs -------------------------
(***************************************************************************)
(* What holds of make (MakeUpdate) for every set of makefiles, and what    *)
(* holds for makefiles without intermediate files and shared commands,     *)
(* with any number of files, prerequisites, goals and slots, with cycles,  *)
(* order-only prerequisites, phony targets, -k and -B.                     *)
(*                                                                         *)
(* The argument for the latter follows the passes.  A file is visited once *)
(* its state is not not_started, or while it is considered.  A file that   *)
(* waits has only visited prerequisites, so that in a pass in which the    *)
(* value of considered is that of a fresh file no file is met that was     *)
(* never visited: pruning never skips a file that was not looked at.  Each *)
(* call of update_file_1 keeps that the prerequisites behind it are done,  *)
(* unless one is running or has failed.                                    *)
(*                                                                         *)
(* The second part follows the times: what is done is not older than its   *)
(* prerequisites and not written again, and must_make tells whether what   *)
(* a call has behind it is newer.                                          *)
(***************************************************************************)
EXTENDS MakeUpdate, DataLemmas

-----------------------------------------------------------------------------
(***************************************************************************)
(* Intermediate files.                                                     *)
(***************************************************************************)

(* The commands of another target do not write an intermediate file. *)
OwnIntermediates ==
  \A r \in Makefiles : \A f \in Files : r.also[f] \cap r.intermediate \subseteq {f}

(* What was not touched is as it was before make. *)
UntouchedAsBefore ==
  /\ mk \in Makefiles
  /\ update_status = [f \in Files |-> update_status[f]]
  /\ disk = [f \in Files |-> disk[f]]
  /\ upc # "exited" =>
       \A f \in mk.intermediate : update_status[f] = Unset => disk[f] = old[f]
  /\ IntermediatesGone

LEMMA FinishedStatus ==
  ASSUME NEW f, NEW cs, NEW us, us = [x \in Files |-> us[x]], NEW last, NEW dk,
         Finished(f, cs, us, last, dk)
  PROVE  /\ update_status' = [x \in Files |-> update_status'[x]]
         /\ \A x \in Files : update_status'[x] = Unset => x # f /\ us[x] = Unset
  <1>1. PICK with : with = IF cs[f] = "running" /\ us[f] # Unset THEN mk.also[f] ELSE {}
    OBVIOUS
  <1>2. PICK st : st = IF us[f] = Unset THEN 0 ELSE us[f]
    OBVIOUS
  <1>3. update_status' = [x \in Files |-> IF x \in {f} \cup with THEN st ELSE us[x]]
    BY <1>1, <1>2, Zenon DEF Finished
  <1>4. st # Unset
    BY <1>2 DEF Unset
  <1> QED BY <1>3, <1>4

(* Most steps touch none of this. *)
LEMMA UntouchedStays ==
  ASSUME UntouchedAsBefore, UNCHANGED <<mk, disk, update_status, old>>,
         upc' = upc \/ (upc # "exited" /\ upc' # "exited")
  PROVE  UntouchedAsBefore'
  BY DEF UntouchedAsBefore, IntermediatesGone, Passing

(* A file that is finished was touched. *)
LEMMA UntouchedFinished ==
  ASSUME UntouchedAsBefore, NEW f, NEW cs, NEW us, us = [x \in Files |-> us[x]],
         \A x \in Files : x # f => us[x] = update_status[x],
         NEW last, NEW dk, Finished(f, cs, us, last, dk),
         UNCHANGED <<mk, old>>, upc # "exited", upc' # "exited",
         disk' = [x \in Files |-> disk'[x]],
         \A x \in mk.intermediate : x # f => disk'[x] = disk[x],
         mk.intermediate \subseteq Files
  PROVE  UntouchedAsBefore'
  <1>1. /\ update_status' = [x \in Files |-> update_status'[x]]
        /\ \A x \in Files : update_status'[x] = Unset => x # f /\ us[x] = Unset
    BY FinishedStatus
  <1>2. IntermediatesGone'
    BY DEF IntermediatesGone
  <1>3. ASSUME NEW x \in mk.intermediate, update_status'[x] = Unset
        PROVE  disk'[x] = old[x]
    <2>1. x \in Files
      OBVIOUS
    <2>2. x # f /\ us[x] = Unset
      BY <1>1, <1>3, <2>1
    <2>3. update_status[x] = Unset
      BY <2>1, <2>2
    <2>4. disk[x] = old[x]
      BY <2>3 DEF UntouchedAsBefore
    <2> QED BY <2>2, <2>4
  <1> QED BY <1>1, <1>2, <1>3 DEF UntouchedAsBefore

LEMMA MakefileIs ==
  ASSUME NEW r \in Makefiles
  PROVE  /\ r.intermediate \subseteq Files /\ r.goals \in Seq(Files)
         /\ r.phony \subseteq Files /\ r.targets \subseteq Files
         /\ r.maxJobs \in Nat \ {0} /\ r.rounds \in Nat \ {0}
         /\ r.deps \in [Files -> Seq([file : Files, order : BOOLEAN])]
  BY UpdateAssumption

(* The commands of j have ended: a file among their targets is written,    *)
(* gone or as it was, and after a success none is gone.                    *)
Ended(j, ok, writes, later, gone) ==
  /\ ok => writes = (mk.cmds[j] = "touch") /\ gone = {}
  /\ now' = now + later
  /\ disk' = [f \in Files |-> IF f \in gone THEN Nonexistent
                              ELSE IF writes /\ (f = j \/ f \in mk.also[j])
                                   THEN now + later ELSE disk[f]]
  /\ Finished(j, command_state, [update_status EXCEPT ![j] = IF ok THEN 0 ELSE 2],
              last_mtime, disk')
  /\ IF ok \/ mk.keepGoing \/ upc = "dying"
       THEN UNCHANGED exit /\ upc' = IF upc = "wait" THEN "more" ELSE upc
       ELSE exit' = 2 /\ upc' = "dying"

(* Reap is the end of some commands, whatever is deleted. *)
LEMMA ReapIs ==
  ASSUME NEW j \in Files, Reap(j)
  PROVE  \E ok \in BOOLEAN, writes \in BOOLEAN, later \in {0, 1},
            gone \in SUBSET ({j} \cup mk.also[j]) : Ended(j, ok, writes, later, gone)
  <1>1. PICK ok \in {TRUE} \cup (IF j \in mk.mayFail THEN {FALSE} ELSE {}),
             writes \in BOOLEAN, deletes \in BOOLEAN, later \in {0, 1} :
          /\ ok => writes = (mk.cmds[j] = "touch") /\ ~deletes
          /\ ~ok => later = 0
          /\ now' = now + later
          /\ LET written == [f \in Files |-> IF writes /\ (f = j \/ f \in mk.also[j])
                                             THEN now + later ELSE disk[f]]
                 gone == IF deletes THEN Changed(j, written) ELSE {}
             IN  disk' = [f \in Files |-> IF f \in gone THEN Nonexistent ELSE written[f]]
          /\ Finished(j, command_state, [update_status EXCEPT ![j] = IF ok THEN 0 ELSE 2],
                      last_mtime, disk')
          /\ IF ok \/ mk.keepGoing \/ upc = "dying"
               THEN UNCHANGED exit /\ upc' = IF upc = "wait" THEN "more" ELSE upc
               ELSE exit' = 2 /\ upc' = "dying"
    BY DEF Reap
  <1>2. PICK written : written = [f \in Files |-> IF writes /\ (f = j \/ f \in mk.also[j])
                                                  THEN now + later ELSE disk[f]]
    OBVIOUS
  <1>3. PICK gone : gone = IF deletes THEN Changed(j, written) ELSE {}
    OBVIOUS
  <1>4. disk' = [f \in Files |-> IF f \in gone THEN Nonexistent ELSE written[f]]
    BY <1>1, <1>2, <1>3
  <1>5. \A f \in Files : written[f] = IF writes /\ (f = j \/ f \in mk.also[j])
                                      THEN now + later ELSE disk[f]
    BY <1>2
  <1>6. disk' = [f \in Files |-> IF f \in gone THEN Nonexistent
                                ELSE IF writes /\ (f = j \/ f \in mk.also[j])
                                     THEN now + later ELSE disk[f]]
    BY <1>4, <1>5
  <1>7. gone \in SUBSET ({j} \cup mk.also[j])
    BY <1>3 DEF Changed
  <1>8. (ok => gone = {}) /\ ok \in BOOLEAN
    BY <1>1, <1>3
  <1>9. Ended(j, ok, writes, later, gone)
    BY <1>1, <1>6, <1>8, Zenon DEF Ended
  <1> QED BY <1>7, <1>8, <1>9

LEMMA UntouchedInit == ASSUME UpdateInit PROVE UntouchedAsBefore
  <1>1. disk = [f \in Files |-> disk[f]]
    BY DEF UpdateInit
  <1>2. update_status = [f \in Files |-> Unset]
    BY DEF UpdateInit, Fresh
  <1> QED BY <1>1, <1>2 DEF UpdateInit, UntouchedAsBefore, IntermediatesGone

LEMMA UntouchedStep ==
  ASSUME OwnIntermediates, UntouchedAsBefore, [UpdateNext]_vars
  PROVE  UntouchedAsBefore'
  <1>1. /\ mk \in Makefiles /\ mk.intermediate \subseteq Files
        /\ update_status = [x \in Files |-> update_status[x]]
        /\ disk = [x \in Files |-> disk[x]]
    BY MakefileIs DEF UntouchedAsBefore
  <1>2. CASE \/ DropCircular \/ CheckPrerequisite \/ PrerequisiteChecked \/ ToIntermediates
             \/ UpdateIntermediate \/ IntermediateUpdated \/ PrerequisitesDone
             \/ WaitForPrerequisites
    <2>1. UNCHANGED <<mk, disk, update_status, old, upc>>
      BY <1>2 DEF DropCircular, CheckPrerequisite, PrerequisiteChecked, ToIntermediates,
                  UpdateIntermediate, IntermediateUpdated, PrerequisitesDone,
                  WaitForPrerequisites, fileVars
    <2> QED BY <2>1, UntouchedStays
  <1>3. CASE \/ RemakeWith \/ StartCommands \/ CommandsStarted
             \/ CheckOrdinary \/ OrdinaryUpdated \/ CheckIntermediate \/ CheckThrough
             \/ CheckedThrough \/ CheckedIntermediate
    <2>1. UNCHANGED <<mk, disk, update_status, old, upc>>
      BY <1>3 DEF RemakeWith, StartCommands, CommandsStarted, CheckOrdinary, OrdinaryUpdated,
                  CheckIntermediate, CheckThrough, CheckedThrough, CheckedIntermediate, fileVars
    <2> QED BY <2>1, UntouchedStays
  <1>4. CASE BeginPass \/ UpdateGoal \/ GoalConsidered \/ EndPass
    <2>1. UNCHANGED <<mk, disk, update_status, old>> /\ upc # "exited" /\ upc' # "exited"
      BY <1>4 DEF BeginPass, UpdateGoal, GoalConsidered, EndPass, fileVars
    <2> QED BY <2>1, UntouchedStays
  <1>5. CASE GiveUp
    <2>1. PICK us : us = [update_status EXCEPT ![Top.f] = Top.status]
      OBVIOUS
    <2>2. us = [x \in Files |-> us[x]] /\ \A x \in Files : x # Top.f => us[x] = update_status[x]
      BY <1>1, <2>1
    <2>3. Finished(Top.f, command_state, us, last_mtime, disk)
      BY <1>5, <2>1, Zenon DEF GiveUp
    <2>4. UNCHANGED <<mk, old, disk, upc>> /\ upc # "exited"
      BY <1>5 DEF GiveUp, InFile
    <2> QED BY <1>1, <2>2, <2>3, <2>4, UntouchedFinished
  <1>6. CASE NoNeedToRemake
    <2>1. Finished(Top.f, Reset(Top.f), update_status, last_mtime, disk)
      BY <1>6, Zenon DEF NoNeedToRemake
    <2>2. UNCHANGED <<mk, old, disk, upc>> /\ upc # "exited"
      BY <1>6 DEF NoNeedToRemake, Ready, InFile
    <2> QED BY <1>1, <2>1, <2>2, UntouchedFinished
  <1>7. CASE RemakeWithout
    <2>1. UNCHANGED <<mk, old, disk>> /\ upc = "pass"
      BY <1>7 DEF RemakeWithout, Ready, InFile
    <2>2. \/ upc' = "dying" /\ UNCHANGED update_status
          \/ \E status, cs : /\ UNCHANGED upc
                             /\ Finished(Top.f, cs, [update_status EXCEPT ![Top.f] = status],
                                         last_mtime, disk)
      BY <1>7 DEF RemakeWithout, fileVars
    <2>3. CASE upc' = "dying" /\ UNCHANGED update_status
      BY <2>1, <2>3, UntouchedStays
    <2>4. ASSUME NEW status, NEW cs, UNCHANGED upc,
                 Finished(Top.f, cs, [update_status EXCEPT ![Top.f] = status], last_mtime, disk)
          PROVE  UntouchedAsBefore'
      <3>1. PICK us : us = [update_status EXCEPT ![Top.f] = status]
        OBVIOUS
      <3>2. us = [x \in Files |-> us[x]] /\ \A x \in Files : x # Top.f => us[x] = update_status[x]
        BY <1>1, <3>1
      <3>3. Finished(Top.f, cs, us, last_mtime, disk)
        BY <2>4, <3>1
      <3> QED BY <1>1, <2>1, <2>4, <3>2, <3>3, UntouchedFinished
    <2> QED BY <2>2, <2>3, <2>4
  <1>8. ASSUME NEW j \in Files, Reap(j)
        PROVE  UntouchedAsBefore'
    <2>1. UNCHANGED <<mk, old>> /\ upc # "exited" /\ upc' # "exited"
      BY <1>8 DEF Reap, CanReap, InFile
    <2>2. \A x \in mk.intermediate : x \in mk.also[j] => x = j
      BY <1>1 DEF OwnIntermediates
    <2>ended. PICK ok \in BOOLEAN, writes \in BOOLEAN, later \in {0, 1},
                   gone \in SUBSET ({j} \cup mk.also[j]) : Ended(j, ok, writes, later, gone)
      BY <1>8, ReapIs
    <2>3. /\ disk' = [f \in Files |-> IF f \in gone THEN Nonexistent
                                      ELSE IF writes /\ (f = j \/ f \in mk.also[j])
                                           THEN now + later ELSE disk[f]]
          /\ Finished(j, command_state, [update_status EXCEPT ![j] = IF ok THEN 0 ELSE 2],
                      last_mtime, disk')
      BY <2>ended, Zenon DEF Ended
    <2>4. PICK us : us = [update_status EXCEPT ![j] = IF ok THEN 0 ELSE 2]
      OBVIOUS
    <2>5. us = [x \in Files |-> us[x]] /\ \A x \in Files : x # j => us[x] = update_status[x]
      BY <1>1, <2>4
    <2>6. /\ disk' = [x \in Files |-> disk'[x]]
          /\ \A x \in mk.intermediate : x # j => disk'[x] = disk[x]
      BY <1>1, <2>2, <2>3
    <2>7. Finished(j, command_state, us, last_mtime, disk')
      BY <2>3, <2>4
    <2> QED BY <1>1, <2>1, <2>5, <2>6, <2>7, UntouchedFinished
  <1>9. CASE remove_intermediates
    <2>1. /\ UNCHANGED <<mk, old, update_status>> /\ upc = "dying" /\ upc' = "exited"
          /\ disk' = [f \in Files |-> IF f \in Removed THEN Nonexistent ELSE disk[f]]
      BY <1>9 DEF remove_intermediates, fileVars
    <2>2. ASSUME NEW f \in Passing, old[f] = Nonexistent
          PROVE  disk'[f] = Nonexistent
      <3>1. f \in Files /\ f \in mk.intermediate
        BY <1>1 DEF Passing
      <3>2. CASE update_status[f] = Unset
        <4>1. disk[f] = old[f]
          BY <2>1, <3>1, <3>2 DEF UntouchedAsBefore
        <4> QED BY <2>1, <2>2, <3>1, <4>1
      <3>3. CASE update_status[f] # Unset
        <4>1. f \in Removed
          BY <2>2, <3>3 DEF Removed
        <4> QED BY <2>1, <3>1, <4>1
      <3> QED BY <3>2, <3>3
    <2>3. IntermediatesGone'
      BY <2>1, <2>2 DEF IntermediatesGone, Passing
    <2> QED BY <1>1, <2>1, <2>3 DEF UntouchedAsBefore
  <1>10. CASE Again
    <2>1. /\ UNCHANGED <<mk, disk>> /\ old' = disk /\ upc' = "wait"
          /\ update_status' = [f \in Files |-> Unset]
      BY <1>10 DEF Again, Fresh
    <2>2. IntermediatesGone'
      BY <2>1 DEF IntermediatesGone
    <2> QED BY <1>1, <2>1, <2>2 DEF UntouchedAsBefore
  <1>11. CASE UNCHANGED vars
    BY <1>11, UntouchedStays DEF vars
  <1>12. CASE Stop
    BY <1>12, UntouchedStays DEF vars, Stop
  <1> QED BY <1>2, <1>3, <1>4, <1>5, <1>6, <1>7, <1>8, <1>9, <1>10, <1>11, <1>12 DEF UpdateNext

(* IntermediatesGone, for all makefiles in which no other target's commands *)
(* write an intermediate file: whatever fails or is still running when make *)
(* dies, an intermediate file that was not there before is not there after. *)
THEOREM NoIntermediateLeft ==
  ASSUME OwnIntermediates
  PROVE  UpdateSpec => []IntermediatesGone
  <1>1. UpdateInit => UntouchedAsBefore
    BY UntouchedInit
  <1>2. UntouchedAsBefore /\ [UpdateNext]_vars => UntouchedAsBefore'
    BY UntouchedStep
  <1>3. UntouchedAsBefore => IntermediatesGone
    BY DEF UntouchedAsBefore
  <1> QED BY <1>1, <1>2, <1>3, PTL DEF UpdateSpec

-----------------------------------------------------------------------------
(***************************************************************************)
(* The stack of calls, and the list of prerequisites from which one is     *)
(* dropped.                                                                *)
(***************************************************************************)

LEMMA NonEmpty ==
  ASSUME NEW S, NEW s \in Seq(S), s # <<>>
  PROVE  \E n \in Nat : Len(s) = n + 1
  <1>1. Len(s) \in Nat /\ Len(s) # 0
    OBVIOUS
  <1> QED BY <1>1, Len(s) - 1 \in Nat

LEMMA TopReplaced ==
  ASSUME NEW S, NEW s \in Seq(S), s # <<>>, NEW e \in S,
         NEW t, t = Append(Front(s), e)
  PROVE  /\ t \in Seq(S) /\ t # <<>> /\ Len(t) = Len(s) /\ t[Len(s)] = e
         /\ \A k \in 1 .. Len(s) - 1 : t[k] = s[k]
         /\ Last(t) = e
  <1>1. PICK n \in Nat : Len(s) = n + 1
    BY NonEmpty
  <1>2. PICK u : u = Front(s)
    OBVIOUS
  <1>3. u \in Seq(S) /\ Len(u) = n /\ \A k \in 1 .. n : u[k] = s[k]
    BY <1>1, <1>2 DEF Front
  <1>4. t = Append(u, e)
    BY <1>2
  <1> QED BY ONLY <1>1, <1>3, <1>4, e \in S DEF Last

LEMMA TopPopped ==
  ASSUME NEW S, NEW s \in Seq(S), s # <<>>, NEW t, t = Front(s)
  PROVE  /\ t \in Seq(S) /\ Len(t) = Len(s) - 1
         /\ \A k \in 1 .. Len(s) - 1 : t[k] = s[k]
  <1>1. PICK n \in Nat : Len(s) = n + 1
    BY NonEmpty
  <1> QED BY <1>1 DEF Front

LEMMA TopPushed ==
  ASSUME NEW S, NEW s \in Seq(S), NEW e \in S, NEW t, t = Append(s, e)
  PROVE  /\ t \in Seq(S) /\ t # <<>> /\ Len(t) = Len(s) + 1 /\ t[Len(t)] = e
         /\ \A k \in 1 .. Len(s) : t[k] = s[k]
         /\ Last(t) = e
  BY DEF Last

LEMMA LastPushed ==
  ASSUME NEW S, NEW s \in Seq(S), NEW e \in S
  PROVE  Last(Append(s, e)) = e /\ Append(s, e) # <<>>
  <1>1. PICK t : t = Append(s, e)
    OBVIOUS
  <1>2. Last(t) = e /\ t # <<>>
    BY <1>1 DEF Last
  <1> QED BY <1>1, <1>2

WithoutOne(t, s, i, S) ==
  /\ t \in Seq(S) /\ Len(t) = Len(s) - 1
  /\ \A k \in 1 .. Len(s) - 1 : t[k] = IF k < i THEN s[k] ELSE s[k + 1]

LEMMA OneRemoved ==
  ASSUME NEW S, NEW s \in Seq(S), NEW i \in DOMAIN s, NEW t, t = RemoveAt(s, i)
  PROVE  WithoutOne(t, s, i, S)
  <1>1. /\ SubSeq(s, 1, i - 1) \in Seq(S) /\ Len(SubSeq(s, 1, i - 1)) = i - 1
        /\ \A k \in 1 .. i - 1 : SubSeq(s, 1, i - 1)[k] = s[k]
    OBVIOUS
  <1>2. /\ SubSeq(s, i + 1, Len(s)) \in Seq(S) /\ Len(SubSeq(s, i + 1, Len(s))) = Len(s) - i
        /\ \A k \in 1 .. Len(s) - i : SubSeq(s, i + 1, Len(s))[k] = s[i + k]
    OBVIOUS
  <1>3. PICK a : a = SubSeq(s, 1, i - 1)
    OBVIOUS
  <1>4. PICK b : b = SubSeq(s, i + 1, Len(s))
    OBVIOUS
  <1>5. /\ a \in Seq(S) /\ Len(a) = i - 1 /\ \A k \in 1 .. i - 1 : a[k] = s[k]
        /\ b \in Seq(S) /\ Len(b) = Len(s) - i /\ \A k \in 1 .. Len(s) - i : b[k] = s[i + k]
    BY <1>1, <1>2, <1>3, <1>4
  <1>6. t = a \o b
    BY <1>3, <1>4 DEF RemoveAt
  <1>7. /\ t \in Seq(S) /\ Len(t) = Len(a) + Len(b)
        /\ \A k \in 1 .. Len(t) : t[k] = IF k <= Len(a) THEN a[k] ELSE b[k - Len(a)]
    BY <1>5, <1>6
  <1>8. ASSUME NEW k \in 1 .. Len(s) - 1
        PROVE  t[k] = IF k < i THEN s[k] ELSE s[k + 1]
    <2>1. CASE k < i
      BY <1>5, <1>7, <2>1
    <2>2. CASE ~(k < i)
      <3>1. t[k] = b[k - (i - 1)]
        BY <1>5, <1>7, <2>2
      <3>2. k - (i - 1) \in 1 .. Len(s) - i /\ i + (k - (i - 1)) = k + 1
        BY <2>2
      <3> QED BY <1>5, <2>2, <3>1, <3>2
    <2> QED BY <2>1, <2>2
  <1>9. Len(t) = Len(s) - 1
    BY ONLY <1>1, <1>5, <1>7, SMT
  <1>10. t \in Seq(S)
    BY <1>7
  <1> QED BY ONLY <1>8, <1>9, <1>10, Zenon DEF WithoutOne

-----------------------------------------------------------------------------
(***************************************************************************)
(* Makefiles without intermediate files, in which every file has commands  *)
(* of its own: the invariant.  cs, us, dp and ud are command_state,        *)
(* update_status, deps and updating, st is the stack; V are the files that *)
(* were visited, D those that are done.                                    *)
(***************************************************************************)

OrdinaryMakefiles ==
  \A r \in Makefiles : r.intermediate = {} /\ \A f \in Files : r.also[f] \subseteq {f}

(* The calls of update_file_1 and check_dep. *)
Calls ==
  [kind : {"file", "check"}, f : Files,
   phase : {"dep", "back", "inter", "finish", "job", "started", "updated"},
   i : Nat \ {0}, must : BOOLEAN, status : {0, 2}, running : BOOLEAN,
   this : Nat, before : Nat]

OnStack(st) == {f \in Files : \E k \in 1 .. Len(st) : st[k].kind = "file" /\ st[k].f = f}
VisitedFiles(cs, st) == {f \in Files : cs[f] # "not_started"} \cup OnStack(st)
DoneFiles(cs, us) == {f \in Files : cs[f] = "finished" /\ us[f] = 0}
DepFiles(dp, f) == {dp[f][i].file : i \in DOMAIN dp[f]}

(* The prerequisites that a call of update_file_1 has behind it. *)
CheckedFiles(fr, dp) ==
  {dp[fr.f][i].file : i \in {k \in DOMAIN dp[fr.f] : fr.phase \in {"dep", "back"} => k < fr.i}}

FileFrameOk(fr, cs, dp, ud, V, D, pa) ==
  /\ fr.phase \in {"dep", "back", "inter", "finish", "job", "started"}
  /\ fr.phase \notin {"job", "started"} => fr.f \in ud
  /\ fr.phase # "started" => cs[fr.f] \in {"not_started", "deps_running"}
  /\ fr.phase = "started" => cs[fr.f] \in {"running", "finished"}
  /\ fr.phase = "back" => fr.i \in DOMAIN dp[fr.f]
  /\ CheckedFiles(fr, dp) \subseteq V
  /\ ~fr.running /\ fr.status = 0 => CheckedFiles(fr, dp) \subseteq D
  /\ fr.phase = "job" => ~fr.running /\ fr.status = 0
  /\ ~pa => DepFiles(dp, fr.f) \subseteq V

FrameOk(fr, cs, dp, ud, V, D, pa, keep) ==
  /\ ~keep => fr.status = 0
  /\ ~pa => fr.f \in V
  /\ fr.kind = "check" => fr.phase \in {"dep", "updated"}
  /\ fr.kind = "file" => FileFrameOk(fr, cs, dp, ud, V, D, pa)

(* The call b was made by the call a. *)
Nested(a, b, dp) ==
  /\ a.kind = "file" => a.phase = "back" /\ b.kind = "check" /\ b.f = dp[a.f][a.i].file
  /\ a.kind = "check" => a.phase = "updated" /\ b.kind = "file" /\ b.f = a.f

StackOk(st, cs, dp, ud, V, D, pa, keep) ==
  /\ \A k \in 1 .. Len(st) : FrameOk(st[k], cs, dp, ud, V, D, pa, keep)
  /\ \A k \in 1 .. Len(st) - 1 : Nested(st[k], st[k + 1], dp)
  /\ \A k \in 1 .. Len(st) : \A j \in 1 .. k - 1 : st[j].kind = "file" => st[j].f # st[k].f

(* What the call that has just returned says of the file d. *)
Answered(d, cs, us, status) ==
  /\ cs[d] # "not_started"
  /\ cs[d] = "finished" /\ status = 0 => us[d] = 0
TopAnswered(st, cs, us, dp, status) ==
  st # <<>> =>
    /\ Last(st).kind = "check" /\ Last(st).phase = "updated" =>
         Answered(Last(st).f, cs, us, status)
    /\ Last(st).kind = "file" /\ Last(st).phase = "back" =>
         Answered(dp[Last(st).f][Last(st).i].file, cs, us, status)

(* A step changes f only, and what was visited or done remains so. *)
Moves(f, cs, dp, ud, V, D, cs2, dp2, ud2, V2, D2) ==
  /\ \A x \in Files : x # f => cs2[x] = cs[x] /\ dp2[x] = dp[x] /\ (x \in ud => x \in ud2)
  /\ V \subseteq V2 /\ D \subseteq D2

LEMMA FrameStays ==
  ASSUME NEW fr \in Calls, NEW f, NEW cs, NEW dp, NEW ud, NEW V, NEW D, NEW cs2, NEW dp2,
         NEW ud2, NEW V2, NEW D2, NEW pa, NEW keep,
         Moves(f, cs, dp, ud, V, D, cs2, dp2, ud2, V2, D2),
         FrameOk(fr, cs, dp, ud, V, D, pa, keep), fr.kind = "file" => fr.f # f
  PROVE  FrameOk(fr, cs2, dp2, ud2, V2, D2, pa, keep)
  <1>0. V \subseteq V2 /\ D \subseteq D2
    BY Zenon DEF Moves
  <1>1. fr.f \in Files
    BY DEF Calls
  <1>2. ASSUME fr.kind = "file"
        PROVE  FileFrameOk(fr, cs2, dp2, ud2, V2, D2, pa)
    <2>1. cs2[fr.f] = cs[fr.f] /\ dp2[fr.f] = dp[fr.f] /\ (fr.f \in ud => fr.f \in ud2)
      BY <1>1, <1>2, Zenon DEF Moves
    <2>2. CheckedFiles(fr, dp2) = CheckedFiles(fr, dp) /\ DepFiles(dp2, fr.f) = DepFiles(dp, fr.f)
      BY <2>1, Zenon DEF CheckedFiles, DepFiles
    <2>3. FileFrameOk(fr, cs, dp, ud, V, D, pa)
      BY <1>2, Zenon DEF FrameOk
    <2> QED BY ONLY <1>0, <2>1, <2>2, <2>3, SMT DEF FileFrameOk
  <1> QED BY ONLY <1>0, <1>2, FrameOk(fr, cs, dp, ud, V, D, pa, keep) DEF FrameOk

(* The call on top goes on. *)
LEMMA StackBecomes ==
  ASSUME NEW st \in Seq(Calls), st # <<>>, NEW cs, NEW dp, NEW ud, NEW V, NEW D, NEW cs2,
         NEW dp2, NEW ud2, NEW V2, NEW D2, NEW pa, NEW keep,
         StackOk(st, cs, dp, ud, V, D, pa, keep),
         Moves(Last(st).f, cs, dp, ud, V, D, cs2, dp2, ud2, V2, D2),
         NEW fr \in Calls, fr.f = Last(st).f, fr.kind = Last(st).kind,
         FrameOk(fr, cs2, dp2, ud2, V2, D2, pa, keep),
         NEW t, t = Append(Front(st), fr)
  PROVE  StackOk(t, cs2, dp2, ud2, V2, D2, pa, keep)
  <1>1. PICK n \in Nat : Len(st) = n + 1
    BY NonEmpty
  <1>2. /\ Len(t) = n + 1 /\ t[n + 1] = fr /\ \A k \in 1 .. n : t[k] = st[k]
    BY <1>1, TopReplaced, SMTT(30)
  <1>3. Last(st) = st[n + 1]
    BY <1>1 DEF Last
  <1>4. \A k \in 1 .. n + 1 : st[k] \in Calls /\ t[k].f = st[k].f /\ t[k].kind = st[k].kind
    BY <1>1, <1>2, <1>3
  <1>5. \A k \in 1 .. n : st[k].kind = "file" => st[k].f # Last(st).f
    BY <1>1, <1>3 DEF StackOk
  <1>6. ASSUME NEW k \in 1 .. n + 1
        PROVE  FrameOk(t[k], cs2, dp2, ud2, V2, D2, pa, keep)
    <2>1. CASE k = n + 1
      BY <1>2, <2>1
    <2>2. CASE k \in 1 .. n
      <3>1. FrameOk(st[k], cs, dp, ud, V, D, pa, keep)
        BY <1>1 DEF StackOk
      <3>2. FrameOk(st[k], cs2, dp2, ud2, V2, D2, pa, keep)
        BY <1>4, <1>5, <2>2, <3>1, FrameStays
      <3> QED BY <1>2, <2>2, <3>2
    <2>3. k = n + 1 \/ k \in 1 .. n
      OBVIOUS
    <2> QED BY <2>1, <2>2, <2>3, Zenon
  <1>7. ASSUME NEW k \in 1 .. n
        PROVE  Nested(t[k], t[k + 1], dp2)
    <2>1. Nested(st[k], st[k + 1], dp)
      BY <1>1 DEF StackOk
    <2>2. t[k] = st[k] /\ t[k + 1].f = st[k + 1].f /\ t[k + 1].kind = st[k + 1].kind
      BY <1>2, <1>4
    <2>3. st[k].kind = "file" => dp2[st[k].f] = dp[st[k].f]
      <3>1. st[k].f \in Files
        BY <1>4 DEF Calls
      <3> QED BY <1>5, <3>1 DEF Moves
    <2> QED BY <2>1, <2>2, <2>3 DEF Nested
  <1>8. ASSUME NEW k \in 1 .. n + 1, NEW j \in 1 .. k - 1, t[j].kind = "file"
        PROVE  t[j].f # t[k].f
    <2>1. j \in 1 .. n + 1 /\ k \in 1 .. Len(st)
      BY <1>1
    <2>2. t[j].f = st[j].f /\ t[j].kind = st[j].kind /\ t[k].f = st[k].f
      BY <1>4, <2>1
    <2> QED BY <1>8, <2>1, <2>2 DEF StackOk
  <1> QED BY <1>2, <1>6, <1>7, <1>8 DEF StackOk

LEMMA OnStackBecomes ==
  ASSUME NEW st \in Seq(Calls), st # <<>>,
         NEW fr \in Calls, fr.f = Last(st).f, fr.kind = Last(st).kind,
         NEW t, t = Append(Front(st), fr)
  PROVE  OnStack(t) = OnStack(st)
  <1>1. PICK n \in Nat : Len(st) = n + 1
    BY NonEmpty
  <1>2. /\ Len(t) = n + 1 /\ t[n + 1] = fr /\ \A k \in 1 .. n : t[k] = st[k]
    BY <1>1, TopReplaced
  <1>3. \A k \in 1 .. n + 1 : t[k].f = st[k].f /\ t[k].kind = st[k].kind
    BY <1>1, <1>2 DEF Last
  <1> QED BY <1>1, <1>2, <1>3 DEF OnStack

(* The call on top returns. *)
LEMMA StackPopped ==
  ASSUME NEW st \in Seq(Calls), st # <<>>, NEW cs, NEW dp, NEW ud, NEW V, NEW D, NEW cs2,
         NEW dp2, NEW ud2, NEW V2, NEW D2, NEW pa, NEW keep,
         StackOk(st, cs, dp, ud, V, D, pa, keep),
         Moves(Last(st).f, cs, dp, ud, V, D, cs2, dp2, ud2, V2, D2),
         NEW t, t = Front(st)
  PROVE  StackOk(t, cs2, dp2, ud2, V2, D2, pa, keep)
  <1>1. PICK n \in Nat : Len(st) = n + 1
    BY NonEmpty
  <1>2. /\ t \in Seq(Calls) /\ Len(t) = n /\ \A k \in 1 .. n : t[k] = st[k]
    BY <1>1, TopPopped
  <1>3. Last(st) = st[n + 1]
    BY <1>1 DEF Last
  <1>4. \A k \in 1 .. n + 1 : st[k] \in Calls
    BY <1>1
  <1>5. \A k \in 1 .. n : st[k].kind = "file" => st[k].f # Last(st).f
    BY <1>1, <1>3 DEF StackOk
  <1>6. ASSUME NEW k \in 1 .. n
        PROVE  FrameOk(t[k], cs2, dp2, ud2, V2, D2, pa, keep)
    <2>1. FrameOk(st[k], cs, dp, ud, V, D, pa, keep)
      BY <1>1 DEF StackOk
    <2>2. FrameOk(st[k], cs2, dp2, ud2, V2, D2, pa, keep)
      BY <1>4, <1>5, <2>1, FrameStays
    <2> QED BY <1>2, <2>2
  <1>7. ASSUME NEW k \in 1 .. n - 1
        PROVE  Nested(t[k], t[k + 1], dp2)
    <2>1. Nested(st[k], st[k + 1], dp)
      BY <1>1 DEF StackOk
    <2>2. t[k] = st[k] /\ t[k + 1] = st[k + 1]
      BY <1>2
    <2>3. st[k].kind = "file" => dp2[st[k].f] = dp[st[k].f]
      <3>1. st[k].f \in Files
        BY <1>4 DEF Calls
      <3> QED BY <1>5, <3>1 DEF Moves
    <2> QED BY <2>1, <2>2, <2>3 DEF Nested
  <1>8. ASSUME NEW k \in 1 .. n, NEW j \in 1 .. k - 1, t[j].kind = "file"
        PROVE  t[j].f # t[k].f
    <2>1. j \in 1 .. n /\ k \in 1 .. Len(st)
      BY <1>1
    <2>2. t[j] = st[j] /\ t[k] = st[k]
      BY <1>2, <2>1
    <2> QED BY <1>8, <2>1, <2>2 DEF StackOk
  <1> QED BY <1>2, <1>6, <1>7, <1>8 DEF StackOk

LEMMA OnStackPopped ==
  ASSUME NEW st \in Seq(Calls), st # <<>>, NEW t, t = Front(st)
  PROVE  /\ OnStack(st) \subseteq OnStack(t) \cup {Last(st).f}
         /\ Last(st).kind = "check" => OnStack(st) \subseteq OnStack(t)
  <1>1. PICK n \in Nat : Len(st) = n + 1
    BY NonEmpty
  <1>2. Len(t) = n /\ \A k \in 1 .. n : t[k] = st[k]
    BY <1>1, TopPopped
  <1> QED BY <1>1, <1>2 DEF OnStack, Last

(* The call to which the one on top returns. *)
LEMMA CallBelow ==
  ASSUME NEW st \in Seq(Calls), st # <<>>, NEW cs, NEW dp, NEW ud, NEW V, NEW D, NEW pa,
         NEW keep, StackOk(st, cs, dp, ud, V, D, pa, keep), NEW t, t = Front(st), t # <<>>
  PROVE  Last(t) \in Calls /\ Nested(Last(t), Last(st), dp)
  <1>1. PICK n \in Nat : Len(st) = n + 1
    BY NonEmpty
  <1>2. t \in Seq(Calls) /\ Len(t) = n /\ \A k \in 1 .. n : t[k] = st[k]
    BY <1>1, TopPopped
  <1>3. n \in 1 .. n /\ Last(t) = st[n] /\ Last(st) = st[n + 1]
    BY <1>1, <1>2 DEF Last
  <1>4. st[n] \in Calls /\ Nested(st[n], st[n + 1], dp)
    BY <1>1, <1>3 DEF StackOk
  <1> QED BY <1>3, <1>4

LEMMA CallIs ==
  ASSUME NEW c \in Calls
  PROVE  /\ c.f \in Files /\ c.i \in Nat \ {0} /\ c.kind \in {"file", "check"}
         /\ c.status \in {0, 2} /\ c.running \in BOOLEAN /\ c.must \in BOOLEAN
         /\ c.this \in Nat /\ c.before \in Nat
  BY DEF Calls

(* The call on top calls. *)
LEMMA StackPushed ==
  ASSUME NEW st \in Seq(Calls), NEW cs, NEW dp, NEW ud, NEW V, NEW D, NEW pa, NEW keep,
         StackOk(st, cs, dp, ud, V, D, pa, keep),
         NEW g \in Calls, FrameOk(g, cs, dp, ud, V, D, pa, keep),
         st # <<>> => Nested(Last(st), g, dp), g.f \notin OnStack(st),
         NEW t, t = Append(st, g)
  PROVE  StackOk(t, cs, dp, ud, V, D, pa, keep)
  <1>1. PICK n \in Nat : Len(st) = n
    OBVIOUS
  <1>2. /\ Len(t) = n + 1 /\ t[n + 1] = g /\ \A k \in 1 .. n : t[k] = st[k]
    BY <1>1, TopPushed
  <1>3. \A k \in 1 .. n : st[k] \in Calls /\ st[k].f \in Files
    <2>1. \A k \in 1 .. n : st[k] \in Calls
      BY <1>1
    <2> QED BY <2>1, CallIs, Zenon
  <1>4. \A k \in 1 .. n : st[k].kind = "file" => st[k].f # g.f
    BY <1>1, <1>3 DEF OnStack
  <1>5. ASSUME NEW k \in 1 .. n + 1
        PROVE  FrameOk(t[k], cs, dp, ud, V, D, pa, keep)
    <2>1. k = n + 1 \/ k \in 1 .. n
      OBVIOUS
    <2>2. CASE k = n + 1
      BY <1>2, <2>2
    <2>3. CASE k \in 1 .. n
      <3>1. FrameOk(st[k], cs, dp, ud, V, D, pa, keep)
        BY <1>1, <2>3 DEF StackOk
      <3> QED BY <1>2, <2>3, <3>1
    <2> QED BY <2>1, <2>2, <2>3, Zenon
  <1>6. ASSUME NEW k \in 1 .. n
        PROVE  Nested(t[k], t[k + 1], dp)
    <2>1. CASE k = n
      <3>1. st # <<>> /\ Last(st) = st[n]
        BY <1>1, <2>1 DEF Last
      <3> QED BY <1>2, <2>1, <3>1
    <2>2. CASE k # n
      <3>1. k \in 1 .. n - 1 /\ k + 1 \in 1 .. n
        BY <2>2
      <3>2. Nested(st[k], st[k + 1], dp)
        BY <1>1, <3>1 DEF StackOk
      <3> QED BY <1>2, <3>1, <3>2
    <2> QED BY <2>1, <2>2
  <1>7. ASSUME NEW k \in 1 .. n + 1, NEW j \in 1 .. k - 1, t[j].kind = "file"
        PROVE  t[j].f # t[k].f
    <2>0. j \in 1 .. n /\ t[j] = st[j]
      BY <1>2
    <2>1. CASE k = n + 1
      BY <1>2, <1>4, <1>7, <2>0, <2>1
    <2>2. CASE k # n + 1
      <3>1. k \in 1 .. n /\ t[k] = st[k]
        BY <1>2, <2>2
      <3> QED BY <1>1, <1>7, <2>0, <3>1 DEF StackOk
    <2> QED BY <2>1, <2>2
  <1> QED BY <1>2, <1>5, <1>6, <1>7 DEF StackOk

LEMMA OnStackPushed ==
  ASSUME NEW st \in Seq(Calls), NEW g \in Calls, NEW t, t = Append(st, g)
  PROVE  /\ OnStack(st) \subseteq OnStack(t)
         /\ g.kind = "file" => g.f \in OnStack(t)
  <1>1. PICK n \in Nat : Len(st) = n
    OBVIOUS
  <1>2. /\ Len(t) = n + 1 /\ t[n + 1] = g /\ \A k \in 1 .. n : t[k] = st[k]
    BY <1>1, TopPushed
  <1>3. OnStack(st) \subseteq OnStack(t)
    BY <1>1, <1>2 DEF OnStack
  <1>4. g.f \in Files /\ n + 1 \in 1 .. Len(t)
    BY <1>2, CallIs
  <1> QED BY <1>2, <1>3, <1>4 DEF OnStack

LEMMA TopOk ==
  ASSUME NEW st \in Seq(Calls), st # <<>>, NEW cs, NEW dp, NEW ud, NEW V, NEW D, NEW pa,
         NEW keep, StackOk(st, cs, dp, ud, V, D, pa, keep)
  PROVE  /\ Last(st) \in Calls /\ Last(st).f \in Files
         /\ FrameOk(Last(st), cs, dp, ud, V, D, pa, keep)
         /\ Last(st).kind = "check" => Last(st).f \notin OnStack(st)
         /\ Last(st).kind = "file" => Last(st).f \in OnStack(st)
  <1>1. PICK n \in Nat : Len(st) = n + 1
    BY NonEmpty
  <1>2. Last(st) = st[n + 1] /\ n + 1 \in 1 .. Len(st)
    BY <1>1 DEF Last
  <1>3. Last(st) \in Calls /\ Last(st).f \in Files
    <2>1. Last(st) \in Calls
      BY <1>2
    <2> QED BY <2>1, CallIs, Zenon
  <1>4. FrameOk(Last(st), cs, dp, ud, V, D, pa, keep)
    BY <1>2 DEF StackOk
  <1>5. ASSUME Last(st).kind = "check", Last(st).f \in OnStack(st)
        PROVE  FALSE
    <2>1. PICK k \in 1 .. Len(st) : st[k].kind = "file" /\ st[k].f = Last(st).f
      BY <1>5 DEF OnStack
    <2>2. k # n + 1
      BY <1>2, <1>5, <2>1
    <2>3. k \in 1 .. (n + 1) - 1
      BY <1>1, <2>2
    <2> QED BY <1>2, <2>1, <2>3 DEF StackOk
  <1>6. Last(st).kind = "file" => Last(st).f \in OnStack(st)
    BY <1>2, <1>3 DEF OnStack
  <1> QED BY <1>3, <1>4, <1>5, <1>6

LEMMA VisitedStays ==
  ASSUME NEW f, NEW cs, NEW cs2, NEW st, NEW st2,
         \A x \in Files : x # f => cs2[x] = cs[x],
         OnStack(st) \subseteq OnStack(st2) \cup {f},
         f \in OnStack(st2) \/ cs2[f] # "not_started" \/ f \notin VisitedFiles(cs, st)
  PROVE  VisitedFiles(cs, st) \subseteq VisitedFiles(cs2, st2)
  BY DEF VisitedFiles, OnStack

LEMMA DoneStays ==
  ASSUME NEW f, NEW cs, NEW us, NEW cs2, NEW us2,
         \A x \in Files : x # f => cs2[x] = cs[x] /\ us2[x] = us[x],
         cs[f] # "finished" \/ (cs2[f] = cs[f] /\ us2[f] = us[f])
  PROVE  DoneFiles(cs, us) \subseteq DoneFiles(cs2, us2)
  BY DEF DoneFiles

(* A prerequisite is dropped. *)
DepDropped(dp, dp2, f, i) ==
  /\ dp2 \in [Files -> Seq([file : Files, order : BOOLEAN])]
  /\ \A x \in Files : x # f => dp2[x] = dp[x]
  /\ DepFiles(dp2, f) \subseteq DepFiles(dp, f)
  /\ \A k \in DOMAIN dp2[f] : k < i => k \in DOMAIN dp[f] /\ dp2[f][k] = dp[f][k]
  /\ Len(dp2[f]) = Len(dp[f]) - 1

LEMMA DropsDep ==
  ASSUME NEW dp \in [Files -> Seq([file : Files, order : BOOLEAN])], NEW f \in Files,
         NEW i \in DOMAIN dp[f], NEW dp2, dp2 = [dp EXCEPT ![f] = RemoveAt(@, i)]
  PROVE  DepDropped(dp, dp2, f, i)
  <1>1. PICK a : a = dp[f]
    OBVIOUS
  <1>2. PICK b : b = RemoveAt(a, i)
    OBVIOUS
  <1>3. dp2 = [dp EXCEPT ![f] = b]
    BY <1>1, <1>2
  <1>4. a \in Seq([file : Files, order : BOOLEAN]) /\ i \in DOMAIN a
    BY <1>1
  <1>5. /\ b \in Seq([file : Files, order : BOOLEAN]) /\ Len(b) = Len(a) - 1
        /\ \A k \in 1 .. Len(a) - 1 : b[k] = IF k < i THEN a[k] ELSE a[k + 1]
    <2>1. WithoutOne(b, a, i, [file : Files, order : BOOLEAN])
      BY <1>2, <1>4, OneRemoved, Zenon
    <2> QED BY <2>1, Zenon DEF WithoutOne
  <1>6. /\ dp2 \in [Files -> Seq([file : Files, order : BOOLEAN])] /\ dp2[f] = b
        /\ \A x \in Files : x # f => dp2[x] = dp[x]
    BY <1>3, <1>5
  <1>7. PICK n \in Nat : Len(a) = n + 1
    <2>1. a # <<>>
      BY <1>4
    <2> QED BY <1>4, <2>1, NonEmpty
  <1>8. DOMAIN a = 1 .. n + 1 /\ DOMAIN b = 1 .. n /\ Len(b) = n
    BY <1>4, <1>5, <1>7
  <1>9. ASSUME NEW k \in 1 .. n
        PROVE  \E m \in DOMAIN a : b[k] = a[m]
    <2>1. b[k] = IF k < i THEN a[k] ELSE a[k + 1]
      BY <1>5, <1>7
    <2>2. k \in DOMAIN a /\ k + 1 \in DOMAIN a
      BY <1>8
    <2> QED BY <2>1, <2>2
  <1>10. DepFiles(dp2, f) \subseteq DepFiles(dp, f)
    <2>1. ASSUME NEW x \in DepFiles(dp2, f)
          PROVE  x \in DepFiles(dp, f)
      <3>1. PICK k \in DOMAIN b : x = b[k].file
        BY <1>6, Zenon DEF DepFiles
      <3>2. PICK m \in DOMAIN a : b[k] = a[m]
        BY <1>8, <1>9, Zenon
      <3>3. m \in DOMAIN dp[f] /\ x = dp[f][m].file
        BY <1>1, <3>1, <3>2, Zenon
      <3> QED BY <3>3, Zenon DEF DepFiles
    <2> QED BY <2>1, Zenon
  <1>11. \A k \in DOMAIN b : k < i => k \in DOMAIN a /\ b[k] = a[k]
    BY <1>5, <1>7, <1>8
  <1> QED BY ONLY <1>1, <1>5, <1>6, <1>10, <1>11, Zenon DEF DepDropped

-----------------------------------------------------------------------------
(* No file is skipped as considered that was not visited in this pass or    *)
(* an earlier one, and what waits has only visited prerequisites.           *)
PassOk(st, cs, dp, cons, V) ==
  /\ \A x \in Files : x \notin V => ~cons[x]
  /\ \A x \in Files : cs[x] = "deps_running" /\ x \notin OnStack(st) => DepFiles(dp, x) \subseteq V

(* A pass that follows another one meets only visited files. *)
GoalsOk(u, g, i, pa, V) ==
  /\ u = "goal" => \A k \in 1 .. i - 1 : k <= Len(g) => g[k] \in V
  /\ u = "pass" => i <= Len(g) /\ \A k \in 1 .. i : g[k] \in V
  /\ ~pa => \A k \in 1 .. Len(g) : g[k] \in V

(* Without -k nothing has failed. *)
NoFailure(r, us, keep) == ~keep => r.status = 0 /\ \A x \in Files : us[x] # 2

LEMMA PassStays ==
  ASSUME NEW f, NEW st, NEW cs, NEW dp, NEW cons, NEW V, NEW st2, NEW cs2, NEW dp2, NEW V2,
         PassOk(st, cs, dp, cons, V), V \subseteq V2,
         \A x \in Files : x # f => cs2[x] = cs[x] /\ dp2[x] = dp[x],
         OnStack(st) \subseteq OnStack(st2) \cup {f},
         cs2[f] = "deps_running" /\ f \notin OnStack(st2) => DepFiles(dp2, f) \subseteq V2
  PROVE  PassOk(st2, cs2, dp2, cons, V2)
  <1>1. ASSUME NEW x \in Files, x \notin V2
        PROVE  ~cons[x]
    BY <1>1 DEF PassOk
  <1>2. ASSUME NEW x \in Files, cs2[x] = "deps_running", x \notin OnStack(st2)
        PROVE  DepFiles(dp2, x) \subseteq V2
    <2>1. CASE x = f
      BY <1>2, <2>1
    <2>2. CASE x # f
      <3>1. cs[x] = "deps_running" /\ x \notin OnStack(st)
        BY <1>2, <2>2
      <3>2. DepFiles(dp, x) \subseteq V
        BY <3>1 DEF PassOk
      <3>3. DepFiles(dp2, x) = DepFiles(dp, x)
        BY <2>2 DEF DepFiles
      <3> QED BY <3>2, <3>3
    <2> QED BY <2>1, <2>2
  <1> QED BY <1>1, <1>2 DEF PassOk

LEMMA GoalsStay ==
  ASSUME NEW u, NEW g, NEW i, NEW pa, NEW V, NEW V2, GoalsOk(u, g, i, pa, V), V \subseteq V2,
         NEW n \in Nat, Len(g) = n
  PROVE  GoalsOk(u, g, i, pa, V2)
  BY DEF GoalsOk

-----------------------------------------------------------------------------
(* The types, in groups. *)
Times == [Files -> Nat \cup {Unknown}]
FileTypes == disk \in [Files -> Nat] /\ now \in Nat /\ last_mtime \in Times
StateTypes ==
  /\ command_state \in [Files -> {"not_started", "deps_running", "running", "finished"}]
  /\ update_status \in [Files -> {Unset, 0, 2}]
  /\ updated \in [Files -> BOOLEAN] /\ runs \in [Files -> Nat]
SetTypes ==
  /\ considered \in [Files -> BOOLEAN] /\ pass \in BOOLEAN
  /\ updating \subseteq Files /\ jobs \subseteq Files
DepTypes ==
  /\ deps \in [Files -> Seq([file : Files, order : BOOLEAN])]
  /\ changed \in [Files -> Seq(BOOLEAN)]
  /\ \A f \in Files : Len(changed[f]) = Len(deps[f])
CallTypes == stack \in Seq(Calls) /\ rv \in [status : {0, 2}, must : BOOLEAN]
GoalTypes ==
  /\ mk \in Makefiles /\ goals \in Seq(Files) /\ gi \in Nat \ {0}
  /\ exit \in {Unset, 0, 2} /\ round \in 1 .. mk.rounds
  /\ upc \in {"wait", "more", "goal", "pass", "dying", "exited"}
UpdateTypes ==
  FileTypes /\ StateTypes /\ SetTypes /\ DepTypes /\ CallTypes /\ GoalTypes

Live == upc \notin {"dying", "exited"}
Visited == VisitedFiles(command_state, stack)
Done == DoneFiles(command_state, update_status)

StateAgrees(cs, us, up, js, rn, f) ==
  /\ cs[f] = "running" <=> f \in js
  /\ up[f] <=> cs[f] = "finished"
  /\ us[f] # Unset <=> cs[f] = "finished"
  /\ rn[f] \in {0, 1} /\ (rn[f] = 1 => cs[f] \in {"running", "finished"})
StatesAgree ==
  \A f \in Files : StateAgrees(command_state, update_status, updated, jobs, runs, f)
JobsReady == \A f \in jobs : DepFiles(deps, f) \subseteq Done

LiveOk ==
  /\ upc # "pass" => stack = <<>>
  /\ StackOk(stack, command_state, deps, updating, Visited, Done, pass, mk.keepGoing)
  /\ TopAnswered(stack, command_state, update_status, deps, rv.status)
  /\ NoFailure(rv, update_status, mk.keepGoing)
  /\ PassOk(stack, command_state, deps, considered, Visited)
  /\ GoalsOk(upc, goals, gi, pass, Visited)

UpdateInv ==
  /\ UpdateTypes /\ StatesAgree /\ JobsReady
  /\ upc = "exited" => jobs = {}
  /\ Live => LiveOk

LEMMA Ordinary1 ==
  ASSUME OrdinaryMakefiles, mk \in Makefiles
  PROVE  /\ mk.intermediate = {} /\ mk.keepGoing \in BOOLEAN
         /\ \A f \in Files : mk.also[f] \subseteq {f}
  BY UpdateAssumption DEF OrdinaryMakefiles

LEMMA CallOnTop ==
  ASSUME UpdateInv, upc = "pass", stack # <<>>
  PROVE  /\ Top \in Calls /\ Top.f \in Files /\ LiveOk
         /\ FrameOk(Top, command_state, deps, updating, Visited, Done, pass, mk.keepGoing)
         /\ Top.kind = "check" => Top.f \notin OnStack(stack)
         /\ Top.kind = "file" => Top.f \in OnStack(stack)
  <1>1. LiveOk
    BY DEF UpdateInv, Live
  <1>2. stack \in Seq(Calls)
    BY DEF UpdateInv, UpdateTypes, CallTypes
  <1>3. StackOk(stack, command_state, deps, updating, Visited, Done, pass, mk.keepGoing)
    BY <1>1, Zenon DEF LiveOk
  <1> QED BY <1>1, <1>2, <1>3, TopOk, Zenon DEF Top

LEMMA FileOnTop ==
  ASSUME UpdateInv, NEW p, InFile(p)
  PROVE  /\ Top \in Calls /\ Top.f \in Files /\ LiveOk /\ upc = "pass" /\ stack # <<>>
         /\ Top.kind = "file" /\ Top.phase = p /\ Top.f \in OnStack(stack)
         /\ ~mk.keepGoing => Top.status = 0
         /\ FileFrameOk(Top, command_state, deps, updating, Visited, Done, pass)
  BY CallOnTop, Zenon DEF InFile, FrameOk

LEMMA CheckOnTop ==
  ASSUME UpdateInv, NEW p, InCheck(p)
  PROVE  /\ Top \in Calls /\ Top.f \in Files /\ LiveOk /\ upc = "pass" /\ stack # <<>>
         /\ Top.kind = "check" /\ Top.phase = p /\ Top.f \notin OnStack(stack)
         /\ ~mk.keepGoing => Top.status = 0
         /\ ~pass => Top.f \in Visited
         /\ p \in {"dep", "updated"}
  BY CallOnTop, Zenon DEF InCheck, FrameOk

LEMMA TimeIs ==
  ASSUME FileTypes, NEW f \in Files, NEW S
  PROVE  mtime(f) \in Nat /\ Known(last_mtime, S) \in Times
  BY DEF FileTypes, mtime, Known, Unknown, Times

LEMMA SetStateIs ==
  ASSUME OrdinaryMakefiles, mk \in Makefiles, NEW f \in Files,
         NEW cs \in [Files -> {"not_started", "deps_running", "running", "finished"}],
         NEW s \in {"not_started", "deps_running", "running", "finished"},
         NEW cs2, cs2 = set_command_state(cs, f, s)
  PROVE  /\ cs2 \in [Files -> {"not_started", "deps_running", "running", "finished"}]
         /\ cs2[f] = s /\ \A x \in Files : x # f => cs2[x] = cs[x]
  <1>1. \A x \in Files : x \in mk.also[f] => x = f
    BY Ordinary1
  <1> QED BY <1>1 DEF set_command_state

LEMMA FinishedIs ==
  ASSUME OrdinaryMakefiles, mk \in Makefiles, updated \in [Files -> BOOLEAN],
         NEW f \in Files,
         NEW cs \in [Files -> {"not_started", "deps_running", "running", "finished"}],
         NEW us \in [Files -> {Unset, 0, 2}], NEW last \in Times, NEW dk \in [Files -> Nat],
         Finished(f, cs, us, last, dk)
  PROVE  /\ command_state' \in [Files -> {"not_started", "deps_running", "running", "finished"}]
         /\ updated' \in [Files -> BOOLEAN] /\ update_status' \in [Files -> {Unset, 0, 2}]
         /\ last_mtime' \in Times
         /\ command_state'[f] = "finished" /\ updated'[f]
         /\ update_status'[f] = IF us[f] = Unset THEN 0 ELSE us[f]
         /\ \A x \in Files : x # f => /\ command_state'[x] = cs[x] /\ updated'[x] = updated[x]
                                      /\ update_status'[x] = us[x]
  <1>1. PICK with : with = IF cs[f] = "running" /\ us[f] # Unset THEN mk.also[f] ELSE {}
    OBVIOUS
  <1>2. with \subseteq {f}
    BY <1>1, Ordinary1
  <1>3. PICK st : st = IF us[f] = Unset THEN 0 ELSE us[f]
    OBVIOUS
  <1>4. st \in {Unset, 0, 2}
    BY <1>3
  <1>5. /\ command_state' = [x \in Files |-> IF x \in {f} \cup with THEN "finished" ELSE cs[x]]
        /\ updated' = [x \in Files |-> updated[x] \/ x \in {f} \cup with]
        /\ update_status' = [x \in Files |-> IF x \in {f} \cup with THEN st ELSE us[x]]
        /\ last_mtime' = [x \in Files |->
             IF x = f /\ AskAgain(f, cs[f] = "running") THEN Unknown
             ELSE IF x \in with /\ x \notin mk.phony THEN dk[x] ELSE last[x]]
    BY <1>1, <1>3, Zenon DEF Finished
  <1>6. last_mtime' \in Times
    <2>1. PICK again : again = AskAgain(f, cs[f] = "running")
      OBVIOUS
    <2>2. last_mtime' = [x \in Files |->
             IF x = f /\ again THEN Unknown
             ELSE IF x \in with /\ x \notin mk.phony THEN dk[x] ELSE last[x]]
      BY <1>5, <2>1, Zenon
    <2> QED BY ONLY <2>2, dk \in [Files -> Nat], last \in Times, SMT DEF Times, Unknown
  <1>7. \A x \in Files : x \in {f} \cup with <=> x = f
    BY <1>2
  <1>8. /\ command_state' = [x \in Files |-> IF x = f THEN "finished" ELSE cs[x]]
        /\ updated' = [x \in Files |-> updated[x] \/ x = f]
        /\ update_status' = [x \in Files |-> IF x = f THEN st ELSE us[x]]
    BY <1>5, <1>7
  <1>9. updated'[f] /\ updated' \in [Files -> BOOLEAN]
        /\ \A x \in Files : x # f => updated'[x] = updated[x]
    BY <1>8
  <1> QED BY <1>3, <1>4, <1>6, <1>8, <1>9

-----------------------------------------------------------------------------
(* Every step keeps the types. *)

LEMMA FrameIs ==
  ASSUME NEW kind \in {"file", "check"}, NEW f \in Files, NEW must \in BOOLEAN, NEW this \in Nat
  PROVE  Frame(kind, f, must, this) \in Calls
  BY DEF Frame, Calls, Nonexistent

LEMMA PhaseIs ==
  ASSUME NEW c \in Calls
  PROVE  /\ [c EXCEPT !.phase = "inter", !.i = 1] \in Calls
         /\ [c EXCEPT !.phase = "dep", !.i = @ + 1] \in Calls
         /\ \A p \in {"finish", "job", "started", "updated"} : [c EXCEPT !.phase = p] \in Calls
  <1>1. c.i + 1 \in Nat \ {0} /\ 1 \in Nat \ {0}
    BY CallIs
  <1>2. PICK n : n = c.i + 1
    OBVIOUS
  <1>3. [c EXCEPT !.phase = "inter", !.i = 1] \in Calls
    BY <1>1 DEF Calls
  <1>4. [c EXCEPT !.phase = "dep", !.i = n] \in Calls
    BY <1>1, <1>2 DEF Calls
  <1>5. ASSUME NEW p \in {"finish", "job", "started", "updated"}
        PROVE  [c EXCEPT !.phase = p] \in Calls
    BY DEF Calls
  <1> QED BY <1>2, <1>3, <1>4, <1>5

LEMMA SameTypes ==
  /\ FileTypes /\ UNCHANGED <<disk, now, last_mtime>> => FileTypes'
  /\ StateTypes /\ UNCHANGED <<command_state, update_status, updated, runs>> => StateTypes'
  /\ SetTypes /\ UNCHANGED <<considered, pass, updating, jobs>> => SetTypes'
  /\ DepTypes /\ UNCHANGED <<deps, changed>> => DepTypes'
  /\ CallTypes /\ UNCHANGED <<stack, rv>> => CallTypes'
  /\ GoalTypes /\ UNCHANGED <<mk, goals, gi, exit, round, upc>> => GoalTypes'
  BY DEF FileTypes, StateTypes, SetTypes, DepTypes, CallTypes, GoalTypes

LEMMA BecomesIs ==
  ASSUME CallTypes, stack # <<>>, NEW c \in Calls
  PROVE  Becomes(c) \in Seq(Calls) /\ Becomes(c) # <<>> /\ Last(Becomes(c)) = c
  <1>1. stack \in Seq(Calls)
    BY DEF CallTypes
  <1>2. PICK n \in Nat : Len(stack) = n + 1
    BY <1>1, NonEmpty
  <1>3. PICK u : u = Front(stack)
    OBVIOUS
  <1>4. u \in Seq(Calls) /\ Len(u) = n
    BY <1>1, <1>2, <1>3 DEF Front
  <1>5. PICK t : t = Append(u, c)
    OBVIOUS
  <1>6. t \in Seq(Calls) /\ t # <<>> /\ Last(t) = c
    BY <1>4, <1>5 DEF Last
  <1> QED BY <1>3, <1>5, <1>6 DEF Becomes

LEMMA ReturnIs ==
  ASSUME CallTypes, stack # <<>>, NEW s \in {0, 2}, NEW m \in BOOLEAN, Return(s, m)
  PROVE  CallTypes'
  <1>1. stack' \in Seq(Calls)
    BY TopPopped DEF CallTypes, Return
  <1> QED BY <1>1 DEF CallTypes, Return

LEMMA TopIs ==
  ASSUME CallTypes, stack # <<>>
  PROVE  Top \in Calls
  <1>1. PICK n \in Nat : Len(stack) = n + 1
    BY NonEmpty DEF CallTypes
  <1> QED BY <1>1 DEF CallTypes, Top, Last

LEMMA SettledStatusIs ==
  ASSUME StateTypes, NEW f \in Files
  PROVE  SettledStatus(f) \in {0, 2}
  BY DEF StateTypes, SettledStatus, Unset

LEMMA UpdateFileTypes ==
  ASSUME FileTypes, StateTypes, SetTypes, CallTypes, NEW f \in Files,
         NEW st \in Seq(Calls), update_file(f, st), UNCHANGED <<disk, now, pass, jobs>>
  PROVE  FileTypes' /\ SetTypes' /\ CallTypes'
  <1>1. considered' \in [Files -> BOOLEAN]
    <2>1. considered' = [considered EXCEPT ![f] = pass]
      BY DEF update_file
    <2> QED BY <2>1 DEF SetTypes
  <1>2. CASE Settled(f)
    <2>1. /\ stack' = st /\ rv' = [rv EXCEPT !.status = SettledStatus(f)]
          /\ UNCHANGED <<last_mtime, updating>>
      BY <1>2 DEF update_file
    <2>2. rv' \in [status : {0, 2}, must : BOOLEAN]
      BY <2>1, SettledStatusIs DEF CallTypes
    <2>3. FileTypes'
      BY <2>1 DEF FileTypes
    <2>4. SetTypes'
      BY <1>1, <2>1 DEF SetTypes
    <2> QED BY <2>1, <2>2, <2>3, <2>4 DEF CallTypes
  <1>3. CASE ~Settled(f)
    <2>1. /\ updating' = updating \cup {f} /\ last_mtime' = Known(last_mtime, {f})
          /\ stack' = Append(st, Frame("file", f, mtime(f) = Nonexistent, mtime(f)))
          /\ UNCHANGED rv
      BY <1>3 DEF update_file
    <2>2. mtime(f) \in Nat /\ last_mtime' \in Times
      BY <2>1, TimeIs
    <2>3. Frame("file", f, mtime(f) = Nonexistent, mtime(f)) \in Calls
      BY <2>2, FrameIs
    <2>4. stack' \in Seq(Calls)
      BY <2>1, <2>3, TopPushed
    <2>5. FileTypes'
      BY <2>2 DEF FileTypes
    <2>6. SetTypes'
      BY <1>1, <2>1 DEF SetTypes
    <2> QED BY <2>1, <2>4, <2>5, <2>6 DEF CallTypes
  <1> QED BY <1>2, <1>3

LEMMA GroupsOf ==
  ASSUME UpdateInv
  PROVE  /\ FileTypes /\ StateTypes /\ SetTypes /\ DepTypes /\ CallTypes /\ GoalTypes
         /\ mk \in Makefiles
  BY DEF UpdateInv, UpdateTypes, GoalTypes

LEMMA DepIs ==
  ASSUME DepTypes, NEW c \in Calls, ~PastEnd(c)
  PROVE  /\ c.i \in DOMAIN deps[c.f] /\ Dep(c) = deps[c.f][c.i]
         /\ Dep(c).file \in Files /\ Dep(c).order \in BOOLEAN
  <1>1. c.f \in Files /\ c.i \in Nat \ {0}
    BY CallIs
  <1>2. PICK a : a = deps[c.f]
    OBVIOUS
  <1>3. a \in Seq([file : Files, order : BOOLEAN])
    BY <1>1, <1>2 DEF DepTypes
  <1>4. c.i \in DOMAIN a
    BY <1>1, <1>2, <1>3 DEF PastEnd
  <1>5. a[c.i] \in [file : Files, order : BOOLEAN]
    BY <1>3, <1>4, ElementOfSeq, DOMAIN a = 1 .. Len(a)
  <1> QED BY <1>2, <1>4, <1>5 DEF Dep

LEMMA DropTypes ==
  ASSUME DepTypes, NEW f \in Files, NEW i \in DOMAIN deps[f], Drop(f, i)
  PROVE  DepTypes'
  <1>1. /\ deps' \in [Files -> Seq([file : Files, order : BOOLEAN])]
        /\ \A x \in Files : x # f => deps'[x] = deps[x]
        /\ Len(deps'[f]) = Len(deps[f]) - 1
    <2>1. deps' = [deps EXCEPT ![f] = RemoveAt(@, i)] /\ deps \in [Files -> Seq([file : Files, order : BOOLEAN])]
      BY DEF Drop, DepTypes
    <2>2. DepDropped(deps, deps', f, i)
      BY <2>1, DropsDep, Zenon
    <2> QED BY <2>2, Zenon DEF DepDropped
  <1>2. PICK a : a = changed[f]
    OBVIOUS
  <1>3. PICK b : b = RemoveAt(a, i)
    OBVIOUS
  <1>4. changed' = [changed EXCEPT ![f] = b]
    BY <1>2, <1>3, Zenon DEF Drop
  <1>5. a \in Seq(BOOLEAN) /\ Len(a) = Len(deps[f])
    BY <1>2 DEF DepTypes
  <1>6. i \in DOMAIN a
    <2>1. deps[f] \in Seq([file : Files, order : BOOLEAN])
      BY DEF DepTypes
    <2> QED BY <1>5, <2>1
  <1>7. WithoutOne(b, a, i, BOOLEAN)
    BY <1>3, <1>5, <1>6, OneRemoved, Zenon
  <1>8. b \in Seq(BOOLEAN) /\ Len(b) = Len(a) - 1
    BY <1>7, Zenon DEF WithoutOne
  <1>9. changed \in [Files -> Seq(BOOLEAN)] /\ \A x \in Files : Len(changed[x]) = Len(deps[x])
    BY DEF DepTypes
  <1>10. changed' \in [Files -> Seq(BOOLEAN)] /\ changed'[f] = b
         /\ \A x \in Files : x # f => changed'[x] = changed[x]
    BY <1>4, <1>8, <1>9
  <1>11. ASSUME NEW x \in Files
         PROVE  Len(changed'[x]) = Len(deps'[x])
    <2>1. CASE x = f
      BY <1>1, <1>5, <1>8, <1>10, <2>1
    <2>2. CASE x # f
      BY <1>1, <1>9, <1>10, <2>2
    <2> QED BY <2>1, <2>2
  <1> QED BY <1>1, <1>10, <1>11 DEF DepTypes

(* A prerequisite is noted as changed or not. *)
LEMMA ChangedTypes ==
  ASSUME DepTypes, NEW f \in Files, NEW i \in DOMAIN deps[f], NEW b \in BOOLEAN,
         UNCHANGED deps, changed' = [changed EXCEPT ![f] = [@ EXCEPT ![i] = b]]
  PROVE  DepTypes'
  <1>1. PICK a : a = [changed[f] EXCEPT ![i] = b]
    OBVIOUS
  <1>2. changed[f] \in Seq(BOOLEAN) /\ changed \in [Files -> Seq(BOOLEAN)]
    BY DEF DepTypes
  <1>3. a \in Seq(BOOLEAN) /\ Len(a) = Len(changed[f])
    <2>1. PICK c : c = changed[f]
      OBVIOUS
    <2>2. c \in Seq(BOOLEAN)
      BY <1>2, <2>1
    <2>3. i \in 1 .. Len(c)
      <3>1. deps[f] \in Seq([file : Files, order : BOOLEAN]) /\ Len(changed[f]) = Len(deps[f])
        BY DEF DepTypes
      <3> QED BY <2>1, <3>1
    <2>4. [c EXCEPT ![i] = b] \in Seq(BOOLEAN) /\ Len([c EXCEPT ![i] = b]) = Len(c)
      BY <2>2, <2>3, ExceptSeq
    <2> QED BY <1>1, <2>1, <2>4
  <1>4. changed' = [changed EXCEPT ![f] = a]
    BY <1>1
  <1>5. changed' \in [Files -> Seq(BOOLEAN)] /\ \A x \in Files : Len(changed'[x]) = Len(changed[x])
    BY <1>2, <1>3, <1>4
  <1> QED BY <1>5 DEF DepTypes

LEMMA FileActionTypes ==
  ASSUME OrdinaryMakefiles, UpdateInv,
         \/ DropCircular \/ CheckPrerequisite \/ PrerequisiteChecked \/ ToIntermediates
         \/ UpdateIntermediate \/ IntermediateUpdated \/ PrerequisitesDone
  PROVE  UpdateTypes'
  <1>1. /\ FileTypes /\ StateTypes /\ SetTypes /\ DepTypes /\ CallTypes /\ GoalTypes
        /\ mk \in Makefiles
    BY GroupsOf
  <1>2. /\ StateTypes' /\ GoalTypes'
    <2>1. UNCHANGED <<command_state, update_status, updated, runs, mk, goals, gi, exit, round, upc>>
      BY DEF DropCircular, CheckPrerequisite, PrerequisiteChecked, ToIntermediates,
             UpdateIntermediate, IntermediateUpdated, PrerequisitesDone, fileVars
    <2> QED BY <1>1, <2>1, SameTypes
  <1>3. PICK c : c = Top
    OBVIOUS
  <1>4. CASE DropCircular
    <2>1. c \in Calls /\ c.f \in Files /\ ~PastEnd(c)
      BY <1>3, <1>4, FileOnTop DEF DropCircular
    <2>2. c.i \in DOMAIN deps[c.f]
      BY <1>1, <2>1, DepIs
    <2>3. Drop(c.f, c.i)
      BY <1>3, <1>4, Zenon DEF DropCircular
    <2>4. DepTypes'
      BY <1>1, <2>1, <2>2, <2>3, DropTypes
    <2>5. UNCHANGED <<disk, now, last_mtime, considered, pass, updating, jobs, stack, rv>>
      BY <1>4 DEF DropCircular, fileVars
    <2> QED BY <1>1, <1>2, <2>4, <2>5, SameTypes DEF UpdateTypes
  <1>5. CASE CheckPrerequisite
    <2>1. c \in Calls /\ c.f \in Files /\ ~PastEnd(c) /\ stack # <<>>
      BY <1>3, <1>5, FileOnTop DEF CheckPrerequisite
    <2>2. PICK d : d = Dep(c).file
      OBVIOUS
    <2>3. d \in Files
      BY <1>1, <2>1, <2>2, DepIs
    <2>4. /\ last_mtime' = Known(last_mtime, {d}) /\ updating' = updating \cup {d}
          /\ stack' = Append(Becomes([c EXCEPT !.phase = "back", !.before = mtime(d)]),
                             Frame("check", d, c.must, c.this))
          /\ UNCHANGED <<disk, now, considered, pass, jobs, deps, changed, rv>>
      BY <1>3, <1>5, <2>2 DEF CheckPrerequisite
    <2>5. mtime(d) \in Nat /\ last_mtime' \in Times
      BY <1>1, <2>3, <2>4, TimeIs
    <2>6. [c EXCEPT !.phase = "back", !.before = mtime(d)] \in Calls
      BY <2>1, <2>5 DEF Calls
    <2>7. Frame("check", d, c.must, c.this) \in Calls
      BY <2>1, <2>3, CallIs, FrameIs
    <2>8. stack' \in Seq(Calls)
      <3>1. Becomes([c EXCEPT !.phase = "back", !.before = mtime(d)]) \in Seq(Calls)
        BY <1>1, <2>1, <2>6, BecomesIs
      <3> QED BY <2>4, <2>7, <3>1
    <2>9. FileTypes' /\ SetTypes' /\ CallTypes'
      BY <1>1, <2>3, <2>4, <2>5, <2>8 DEF FileTypes, SetTypes, CallTypes
    <2>10. DepTypes'
      BY <1>1, <2>4, SameTypes
    <2> QED BY <1>2, <2>9, <2>10 DEF UpdateTypes
  <1>6. CASE PrerequisiteChecked
    <2>1. /\ c \in Calls /\ c.f \in Files /\ c.i \in DOMAIN deps[c.f] /\ stack # <<>>
      BY <1>3, <1>6, FileOnTop DEF PrerequisiteChecked, FileFrameOk
    <2>2. ~PastEnd(c)
      <3>1. deps[c.f] \in Seq([file : Files, order : BOOLEAN])
        BY <1>1, <2>1 DEF DepTypes
      <3> QED BY <2>1, <3>1 DEF PastEnd
    <2>3. PICK d : d = Dep(c)
      OBVIOUS
    <2>4. d.file \in Files
      BY <1>1, <2>1, <2>2, <2>3, DepIs
    <2>5. PICK status : status = Worse(c.status, rv.status)
      OBVIOUS
    <2>6. PICK running : running = StillRunning(c)
      OBVIOUS
    <2>7. PICK next : next = [c EXCEPT !.status = status, !.running = running,
                                       !.must = IF d.order THEN @ ELSE rv.must]
      OBVIOUS
    <2>8. status \in {0, 2}
      BY <1>1, <2>1, <2>5, CallIs DEF CallTypes, Worse
    <2>9. running \in BOOLEAN
      BY <2>1, <2>6, CallIs DEF StillRunning, Busy
    <2>10. next \in Calls
      <3>1. rv.must \in BOOLEAN
        BY <1>1 DEF CallTypes
      <3>2. PICK m : m = IF d.order THEN c.must ELSE rv.must
        OBVIOUS
      <3>3. m \in BOOLEAN
        BY <2>1, <3>1, <3>2, CallIs
      <3>4. next = [c EXCEPT !.status = status, !.running = running, !.must = m]
        BY <2>7, <3>2
      <3> QED BY <2>1, <2>8, <2>9, <3>3, <3>4 DEF Calls
    <2>11. /\ last_mtime' = Known(last_mtime, {d.file})
           /\ \/ /\ stack' = Becomes([next EXCEPT !.phase = "inter", !.i = 1])
                 /\ UNCHANGED changed
              \/ /\ stack' = Becomes([next EXCEPT !.phase = "dep", !.i = @ + 1])
                 /\ \/ UNCHANGED changed
                    \/ changed' = [changed EXCEPT ![c.f] =
                                    [@ EXCEPT ![c.i] = mtime(d.file) # c.before]]
           /\ UNCHANGED <<disk, now, considered, pass, updating, jobs, deps, rv>>
      BY <1>3, <1>6, <2>3, <2>5, <2>6, <2>7 DEF PrerequisiteChecked
    <2>12. DepTypes'
      <3>1. CASE UNCHANGED changed
        BY <1>1, <2>11, <3>1, SameTypes
      <3>2. CASE changed' = [changed EXCEPT ![c.f] = [@ EXCEPT ![c.i] = mtime(d.file) # c.before]]
        BY <1>1, <2>1, <2>11, <3>2, (mtime(d.file) # c.before) \in BOOLEAN, ChangedTypes, Zenon
      <3> QED BY <2>11, <3>1, <3>2
    <2>13. FileTypes' /\ SetTypes'
      <3>1. last_mtime' \in Times
        BY <1>1, <2>4, <2>11, TimeIs
      <3> QED BY <1>1, <2>11, <3>1 DEF FileTypes, SetTypes
    <2>14. CallTypes'
      <3>1. /\ [next EXCEPT !.phase = "inter", !.i = 1] \in Calls
            /\ [next EXCEPT !.phase = "dep", !.i = @ + 1] \in Calls
        BY <2>10, PhaseIs
      <3>2. stack' \in Seq(Calls)
        BY <1>1, <2>1, <2>11, <3>1, BecomesIs
      <3> QED BY <1>1, <2>11, <3>2 DEF CallTypes
    <2> QED BY <1>2, <2>12, <2>13, <2>14 DEF UpdateTypes
  <1>7. CASE ToIntermediates \/ PrerequisitesDone
    <2>1. c \in Calls /\ stack # <<>>
      BY <1>3, <1>7, FileOnTop DEF ToIntermediates, PrerequisitesDone
    <2>2. /\ \/ stack' = Becomes([c EXCEPT !.phase = "inter", !.i = 1])
             \/ stack' = Becomes([c EXCEPT !.phase = "finish"])
          /\ UNCHANGED <<disk, now, last_mtime, considered, pass, updating, jobs, deps, changed, rv>>
      BY <1>3, <1>7 DEF ToIntermediates, PrerequisitesDone, fileVars
    <2>3. /\ [c EXCEPT !.phase = "inter", !.i = 1] \in Calls
          /\ [c EXCEPT !.phase = "finish"] \in Calls
      BY <2>1, PhaseIs
    <2>4. stack' \in Seq(Calls)
      BY <1>1, <2>1, <2>2, <2>3, BecomesIs
    <2>5. CallTypes'
      BY <1>1, <2>2, <2>4 DEF CallTypes
    <2> QED BY <1>1, <1>2, <2>2, <2>5, SameTypes DEF UpdateTypes
  <1>8. CASE UpdateIntermediate
    <2>1. c \in Calls /\ stack # <<>>
      BY <1>3, <1>8, FileOnTop DEF UpdateIntermediate
    <2>2. mk.intermediate = {}
      BY <1>1, Ordinary1
    <2>3. /\ stack' = Becomes([c EXCEPT !.i = @ + 1])
          /\ UNCHANGED <<disk, now, last_mtime, considered, pass, updating, jobs, deps, changed, rv>>
      BY <1>3, <1>8, <2>2 DEF UpdateIntermediate
    <2>4. [c EXCEPT !.i = @ + 1] \in Calls
      BY <2>1 DEF Calls
    <2>5. stack' \in Seq(Calls)
      BY <1>1, <2>1, <2>3, <2>4, BecomesIs
    <2>6. CallTypes'
      BY <1>1, <2>3, <2>5 DEF CallTypes
    <2> QED BY <1>1, <1>2, <2>3, <2>6, SameTypes DEF UpdateTypes
  <1>9. CASE IntermediateUpdated
    <2>1. FileFrameOk(Top, command_state, deps, updating, Visited, Done, pass) /\ Top.phase = "interback"
      BY <1>9, FileOnTop DEF IntermediateUpdated
    <2> QED BY <2>1 DEF FileFrameOk
  <1> QED BY <1>4, <1>5, <1>6, <1>7, <1>8, <1>9

LEMMA FinishActionTypes ==
  ASSUME OrdinaryMakefiles, UpdateInv,
         \/ WaitForPrerequisites \/ GiveUp \/ NoNeedToRemake \/ RemakeWithout
         \/ RemakeWith \/ StartCommands \/ CommandsStarted
  PROVE  UpdateTypes'
  <1>1. /\ FileTypes /\ StateTypes /\ SetTypes /\ DepTypes /\ CallTypes /\ GoalTypes
        /\ mk \in Makefiles
    BY GroupsOf
  <1>2. PICK c : c = Top
    OBVIOUS
  <1>3. c \in Calls /\ c.f \in Files /\ stack # <<>> /\ c.status \in {0, 2}
    <2>1. \E p : InFile(p)
      BY Zenon DEF WaitForPrerequisites, GiveUp, NoNeedToRemake, RemakeWithout, RemakeWith,
                   StartCommands, CommandsStarted, Ready
    <2>2. c \in Calls /\ stack # <<>>
      BY <1>2, <2>1, FileOnTop
    <2> QED BY <2>2, CallIs
  <1>4. PICK f : f = c.f
    OBVIOUS
  <1>5. /\ command_state \in [Files -> {"not_started", "deps_running", "running", "finished"}]
        /\ update_status \in [Files -> {Unset, 0, 2}] /\ updated \in [Files -> BOOLEAN]
        /\ runs \in [Files -> Nat] /\ last_mtime \in Times /\ disk \in [Files -> Nat]
        /\ updating \subseteq Files /\ jobs \subseteq Files /\ f \in Files
    BY <1>1, <1>3, <1>4 DEF StateTypes, FileTypes, SetTypes
  <1>6. PICK rs : rs = Reset(f)
    OBVIOUS
  <1>7. rs \in [Files -> {"not_started", "deps_running", "running", "finished"}]
    <2>1. CASE command_state[f] = "deps_running"
      BY <1>1, <1>5, <1>6, <2>1, SetStateIs DEF Reset
    <2>2. CASE command_state[f] # "deps_running"
      BY <1>5, <1>6, <2>2 DEF Reset
    <2> QED BY <2>1, <2>2
  <1>8. DepTypes'
    <2>1. UNCHANGED <<deps, changed>>
      BY DEF WaitForPrerequisites, GiveUp, NoNeedToRemake, RemakeWithout, RemakeWith,
             StartCommands, CommandsStarted
    <2> QED BY <1>1, <2>1, SameTypes
  <1>9. ASSUME UNCHANGED <<disk, now, considered, pass, jobs, runs>>,
               updating' = updating \ {f}, UNCHANGED <<mk, goals, gi, exit, round, upc>>,
               NEW cs \in [Files -> {"not_started", "deps_running", "running", "finished"}],
               NEW us \in [Files -> {Unset, 0, 2}], Finished(f, cs, us, last_mtime, disk),
               NEW s \in {0, 2}, Return(s, FALSE)
        PROVE  UpdateTypes'
    <2>1. /\ command_state' \in [Files -> {"not_started", "deps_running", "running", "finished"}]
          /\ updated' \in [Files -> BOOLEAN] /\ update_status' \in [Files -> {Unset, 0, 2}]
          /\ last_mtime' \in Times
      BY <1>1, <1>5, <1>9, FinishedIs
    <2>2. FileTypes' /\ StateTypes' /\ SetTypes'
      BY <1>1, <1>5, <1>9, <2>1 DEF FileTypes, StateTypes, SetTypes
    <2>3. CallTypes'
      BY <1>1, <1>3, <1>9, ReturnIs
    <2>4. GoalTypes'
      BY <1>1, <1>9, SameTypes
    <2> QED BY <1>8, <2>2, <2>3, <2>4 DEF UpdateTypes
  <1>10. CASE WaitForPrerequisites
    <2>1. /\ updating' = updating \ {f} /\ Return(0, FALSE)
          /\ command_state' = set_command_state(command_state, f, "deps_running")
          /\ UNCHANGED <<disk, now, last_mtime, update_status, updated, runs, considered, pass,
                         jobs, mk, goals, gi, exit, round, upc>>
      BY <1>2, <1>4, <1>10 DEF WaitForPrerequisites
    <2>2. command_state' \in [Files -> {"not_started", "deps_running", "running", "finished"}]
      BY <1>1, <1>5, <2>1, SetStateIs
    <2>3. StateTypes' /\ SetTypes'
      BY <1>1, <1>5, <2>1, <2>2 DEF StateTypes, SetTypes
    <2>4. FileTypes' /\ GoalTypes'
      BY <1>1, <2>1, SameTypes
    <2>5. CallTypes'
      BY <1>1, <1>3, <2>1, ReturnIs
    <2> QED BY <1>8, <2>3, <2>4, <2>5 DEF UpdateTypes
  <1>11. CASE GiveUp
    <2>1. PICK us : us = [update_status EXCEPT ![f] = c.status]
      OBVIOUS
    <2>2. us \in [Files -> {Unset, 0, 2}]
      BY <1>3, <1>5, <2>1
    <2>3. /\ updating' = updating \ {f} /\ Return(c.status, FALSE)
          /\ Finished(f, command_state, us, last_mtime, disk)
          /\ UNCHANGED <<disk, now, runs, considered, pass, jobs, mk, goals, gi, exit, round, upc>>
      BY <1>2, <1>4, <1>11, <2>1 DEF GiveUp
    <2> QED BY <1>3, <1>5, <1>9, <2>2, <2>3
  <1>12. CASE NoNeedToRemake
    <2>1. /\ updating' = updating \ {f} /\ Return(0, FALSE)
          /\ Finished(f, rs, update_status, last_mtime, disk)
          /\ UNCHANGED <<disk, now, runs, considered, pass, jobs, mk, goals, gi, exit, round, upc>>
      BY <1>2, <1>4, <1>6, <1>12 DEF NoNeedToRemake
    <2> QED BY <1>5, <1>7, <1>9, <2>1
  <1>13. CASE RemakeWithout
    <2>1. PICK norule : norule = (mk.cmds[f] = "none" /\ f \notin mk.phony \cup mk.targets)
      OBVIOUS
    <2>2. PICK status : status = IF norule THEN 2 ELSE 0
      OBVIOUS
    <2>3. PICK cs : cs = IF mk.cmds[f] = "empty" THEN set_command_state(rs, f, "running") ELSE rs
      OBVIOUS
    <2>4. PICK us : us = [update_status EXCEPT ![f] = status]
      OBVIOUS
    <2>5. /\ cs \in [Files -> {"not_started", "deps_running", "running", "finished"}]
          /\ us \in [Files -> {Unset, 0, 2}] /\ status \in {0, 2}
      <3>1. set_command_state(rs, f, "running")
               \in [Files -> {"not_started", "deps_running", "running", "finished"}]
        BY <1>1, <1>5, <1>7, SetStateIs
      <3>2. status \in {0, 2}
        BY <2>2
      <3>3. us \in [Files -> {Unset, 0, 2}]
        BY <1>5, <2>4, <3>2
      <3> QED BY <1>7, <2>3, <3>1, <3>2, <3>3
    <2>6. /\ updating' = updating \ {f}
          /\ UNCHANGED <<disk, now, considered, pass, goals, gi, jobs, runs, round, mk>>
          /\ \/ /\ upc' = "dying" /\ exit' = 2
                /\ UNCHANGED <<fileVars, stack, rv>>
             \/ /\ Finished(f, cs, us, last_mtime, disk)
                /\ Return(status, FALSE)
                /\ UNCHANGED <<upc, exit>>
      BY <1>2, <1>4, <1>6, <1>13, <2>1, <2>2, <2>3, <2>4 DEF RemakeWithout
    <2>7. CASE upc' = "dying" /\ exit' = 2 /\ UNCHANGED <<fileVars, stack, rv>>
      <3>1. UNCHANGED <<command_state, update_status, updated, last_mtime>>
        BY <2>7 DEF fileVars
      <3>2. FileTypes' /\ StateTypes' /\ CallTypes'
        BY <1>1, <2>6, <2>7, <3>1, SameTypes
      <3>3. SetTypes' /\ GoalTypes'
        BY <1>1, <1>5, <2>6, <2>7 DEF SetTypes, GoalTypes
      <3> QED BY <1>8, <3>2, <3>3 DEF UpdateTypes
    <2>8. CASE Finished(f, cs, us, last_mtime, disk) /\ Return(status, FALSE) /\ UNCHANGED <<upc, exit>>
      BY <1>9, <2>5, <2>6, <2>8
    <2> QED BY <2>6, <2>7, <2>8
  <1>14. CASE RemakeWith
    <2>1. /\ updating' = updating \ {f} /\ command_state' = rs
          /\ stack' = Becomes([c EXCEPT !.phase = "job"])
          /\ UNCHANGED <<disk, now, last_mtime, update_status, updated, runs, considered, pass,
                         jobs, rv, mk, goals, gi, exit, round, upc>>
      BY <1>2, <1>4, <1>6, <1>14 DEF RemakeWith
    <2>2. StateTypes' /\ SetTypes'
      BY <1>1, <1>5, <1>7, <2>1 DEF StateTypes, SetTypes
    <2>3. FileTypes' /\ GoalTypes'
      BY <1>1, <2>1, SameTypes
    <2>4. stack' \in Seq(Calls)
      BY <1>1, <1>3, <2>1, PhaseIs, BecomesIs
    <2>5. CallTypes'
      BY <1>1, <2>1, <2>4 DEF CallTypes
    <2> QED BY <1>8, <2>2, <2>3, <2>5 DEF UpdateTypes
  <1>15. CASE StartCommands
    <2>1. /\ jobs' = jobs \cup {f} /\ runs' = [runs EXCEPT ![f] = @ + 1]
          /\ command_state' = set_command_state(command_state, f, "running")
          /\ stack' = Becomes([c EXCEPT !.phase = "started"])
          /\ UNCHANGED <<disk, now, last_mtime, update_status, updated, considered, pass,
                         updating, rv, mk, goals, gi, exit, round, upc>>
      BY <1>2, <1>4, <1>15 DEF StartCommands
    <2>2. command_state' \in [Files -> {"not_started", "deps_running", "running", "finished"}]
      BY <1>1, <1>5, <2>1, SetStateIs
    <2>3. runs' \in [Files -> Nat]
      BY <1>5, <2>1
    <2>4. StateTypes' /\ SetTypes'
      BY <1>1, <1>5, <2>1, <2>2, <2>3 DEF StateTypes, SetTypes
    <2>5. FileTypes' /\ GoalTypes'
      BY <1>1, <2>1, SameTypes
    <2>6. stack' \in Seq(Calls)
      BY <1>1, <1>3, <2>1, PhaseIs, BecomesIs
    <2>7. CallTypes'
      BY <1>1, <2>1, <2>6 DEF CallTypes
    <2> QED BY <1>8, <2>4, <2>5, <2>7 DEF UpdateTypes
  <1>16. CASE CommandsStarted
    <2>1. PICK s : s = IF command_state[f] = "finished" THEN update_status[f] ELSE 0
      OBVIOUS
    <2>2. s \in {0, 2}
      <3>1. StateAgrees(command_state, update_status, updated, jobs, runs, f)
        BY <1>5 DEF UpdateInv, StatesAgree
      <3> QED BY <1>5, <2>1, <3>1 DEF StateAgrees
    <2>3. Return(s, FALSE) /\ UNCHANGED fileVars
          /\ UNCHANGED <<disk, now, runs, considered, pass, updating, jobs, mk, goals, gi, exit,
                         round, upc>>
      BY <1>2, <1>4, <1>16, <2>1 DEF CommandsStarted
    <2>4. FileTypes' /\ StateTypes' /\ SetTypes' /\ GoalTypes'
      BY <1>1, <2>3, SameTypes DEF fileVars
    <2>5. CallTypes'
      BY <1>1, <1>3, <2>2, <2>3, ReturnIs
    <2> QED BY <1>8, <2>4, <2>5 DEF UpdateTypes
  <1> QED BY <1>10, <1>11, <1>12, <1>13, <1>14, <1>15, <1>16

LEMMA FreshDeps ==
  ASSUME NEW d \in [Files -> Seq([file : Files, order : BOOLEAN])],
         NEW c, c = [f \in Files |-> [i \in DOMAIN d[f] |-> FALSE]]
  PROVE  c \in [Files -> Seq(BOOLEAN)] /\ \A f \in Files : Len(c[f]) = Len(d[f])
  <1>1. ASSUME NEW f \in Files
        PROVE  c[f] \in Seq(BOOLEAN) /\ Len(c[f]) = Len(d[f])
    <2>1. PICK n \in Nat : Len(d[f]) = n
      OBVIOUS
    <2>2. DOMAIN d[f] = 1 .. n
      BY <2>1
    <2>3. PICK a : a = c[f]
      OBVIOUS
    <2>4. a = [i \in 1 .. n |-> FALSE]
      BY <2>2, <2>3
    <2>5. a \in Seq(BOOLEAN)
      BY <2>4, IsASeq
    <2>6. Len(a) = n
      BY <2>4, <2>5, LenProperties
    <2> QED BY <2>1, <2>3, <2>5, <2>6
  <1> QED BY <1>1

LEMMA CheckActionTypes ==
  ASSUME OrdinaryMakefiles, UpdateInv,
         \/ CheckOrdinary \/ OrdinaryUpdated \/ CheckIntermediate \/ CheckThrough
         \/ CheckedThrough \/ CheckedIntermediate
  PROVE  UpdateTypes'
  <1>1. /\ FileTypes /\ StateTypes /\ SetTypes /\ DepTypes /\ CallTypes /\ GoalTypes
        /\ mk \in Makefiles
    BY GroupsOf
  <1>2. PICK c : c = Top
    OBVIOUS
  <1>3. CASE CheckOrdinary
    <2>1. c \in Calls /\ c.f \in Files /\ stack # <<>>
      BY <1>2, <1>3, CheckOnTop DEF CheckOrdinary
    <2>2. PICK st : st = Becomes([c EXCEPT !.phase = "updated"])
      OBVIOUS
    <2>3. st \in Seq(Calls)
      BY <1>1, <2>1, <2>2, PhaseIs, BecomesIs
    <2>4. /\ update_file(c.f, st)
          /\ UNCHANGED <<disk, now, command_state, update_status, updated, runs, pass, jobs,
                         deps, changed, mk, goals, gi, exit, round, upc>>
      BY <1>2, <1>3, <2>2 DEF CheckOrdinary
    <2>5. FileTypes' /\ SetTypes' /\ CallTypes'
      BY <1>1, <2>1, <2>3, <2>4, UpdateFileTypes
    <2>6. StateTypes' /\ DepTypes' /\ GoalTypes'
      BY <1>1, <2>4, SameTypes
    <2> QED BY <2>5, <2>6 DEF UpdateTypes
  <1>4. CASE OrdinaryUpdated
    <2>1. c \in Calls /\ c.f \in Files /\ stack # <<>> /\ c.must \in BOOLEAN
      <3>1. c \in Calls /\ c.f \in Files /\ stack # <<>>
        BY <1>2, <1>4, CheckOnTop DEF OrdinaryUpdated
      <3> QED BY <3>1, CallIs
    <2>2. PICK m : m = (c.must \/ Newer(mtime(c.f), c.this))
      OBVIOUS
    <2>3. m \in BOOLEAN
      BY <2>1, <2>2
    <2>4. /\ last_mtime' = Known(last_mtime, {c.f}) /\ updating' = updating \ {c.f}
          /\ Return(rv.status, m)
          /\ UNCHANGED <<disk, now, command_state, update_status, updated, runs, considered, pass,
                         jobs, deps, changed, mk, goals, gi, exit, round, upc>>
      BY <1>2, <1>4, <2>2, Zenon DEF OrdinaryUpdated
    <2>5. last_mtime' \in Times
      BY <1>1, <2>1, <2>4, TimeIs
    <2>6. FileTypes' /\ SetTypes'
      BY <1>1, <2>4, <2>5 DEF FileTypes, SetTypes
    <2>7. CallTypes'
      <3>1. rv.status \in {0, 2}
        BY <1>1 DEF CallTypes
      <3> QED BY <1>1, <2>1, <2>3, <2>4, <3>1, ReturnIs
    <2>8. StateTypes' /\ DepTypes' /\ GoalTypes'
      BY <1>1, <2>4, SameTypes
    <2> QED BY <2>6, <2>7, <2>8 DEF UpdateTypes
  <1>5. CASE CheckIntermediate
    <2>1. mk.intermediate = {}
      BY <1>1, Ordinary1
    <2> QED BY <1>5, <2>1 DEF CheckIntermediate, Ordinary
  <1>6. CASE CheckThrough \/ CheckedThrough \/ CheckedIntermediate
    <2>1. InCheck("through") \/ InCheck("throughback")
      BY <1>6, Zenon DEF CheckThrough, CheckedThrough, CheckedIntermediate
    <2> QED BY <2>1, CheckOnTop
  <1> QED BY <1>3, <1>4, <1>5, <1>6

LEMMA OuterTypes ==
  ASSUME OrdinaryMakefiles, UpdateInv,
         \/ BeginPass \/ UpdateGoal \/ GoalConsidered \/ EndPass
         \/ remove_intermediates \/ Again \/ Stop \/ UNCHANGED vars
  PROVE  UpdateTypes'
  <1>1. /\ FileTypes /\ StateTypes /\ SetTypes /\ DepTypes /\ CallTypes /\ GoalTypes
        /\ mk \in Makefiles
    BY GroupsOf
  <1>2. CASE BeginPass
    <2>1. /\ upc' = "goal" /\ gi' = 1
          /\ UNCHANGED <<disk, now, last_mtime, command_state, update_status, updated, runs,
                         considered, pass, updating, jobs, deps, changed, stack, rv,
                         mk, goals, exit, round>>
      BY <1>2 DEF BeginPass, fileVars
    <2>2. GoalTypes'
      BY <1>1, <2>1 DEF GoalTypes
    <2> QED BY <1>1, <2>1, <2>2, SameTypes DEF UpdateTypes
  <1>3. CASE UpdateGoal
    <2>1. /\ gi <= Len(goals) /\ update_file(goals[gi], <<>>) /\ upc' = "pass"
          /\ UNCHANGED <<disk, now, command_state, update_status, updated, runs, pass, jobs,
                         deps, changed, mk, goals, gi, exit, round>>
      BY <1>3 DEF UpdateGoal
    <2>2. goals[gi] \in Files
      BY <1>1, <2>1 DEF GoalTypes
    <2>3. <<>> \in Seq(Calls)
      OBVIOUS
    <2>4. FileTypes' /\ SetTypes' /\ CallTypes'
      BY <1>1, <2>1, <2>2, <2>3, UpdateFileTypes
    <2>5. GoalTypes'
      BY <1>1, <2>1 DEF GoalTypes
    <2>6. StateTypes' /\ DepTypes'
      BY <1>1, <2>1, SameTypes
    <2> QED BY <2>4, <2>5, <2>6 DEF UpdateTypes
  <1>4. CASE GoalConsidered
    <2>1. /\ UNCHANGED <<disk, now, last_mtime, command_state, update_status, updated, runs,
                         considered, pass, updating, jobs, deps, changed, stack, rv,
                         mk, round>>
          /\ upc = "pass" /\ upc' = "goal"
          /\ \/ goals' = RemoveAt(goals, gi) /\ UNCHANGED gi
             \/ gi' = gi + 1 /\ UNCHANGED goals
          /\ exit' = IF updated[goals[gi]] /\ update_status[goals[gi]] # 0 THEN 2 ELSE exit
      BY <1>4 DEF GoalConsidered, fileVars
    <2>2. gi \in DOMAIN goals /\ goals \in Seq(Files) /\ gi \in Nat \ {0}
      <3>1. GoalsOk(upc, goals, gi, pass, Visited)
        BY <2>1 DEF UpdateInv, LiveOk, Live
      <3> QED BY <1>1, <2>1, <3>1 DEF GoalTypes, GoalsOk
    <2>3. goals' \in Seq(Files)
      <3>1. PICK g : g = RemoveAt(goals, gi)
        OBVIOUS
      <3>2. WithoutOne(g, goals, gi, Files)
        BY <2>2, <3>1, OneRemoved, Zenon
      <3> QED BY <2>1, <2>2, <3>1, <3>2 DEF WithoutOne
    <2>4. GoalTypes'
      <3>1. exit' \in {Unset, 0, 2}
        BY <1>1, <2>1 DEF GoalTypes
      <3>2. gi' \in Nat \ {0}
        BY <2>1, <2>2
      <3> QED BY <1>1, <2>1, <2>3, <3>1, <3>2 DEF GoalTypes
    <2> QED BY <1>1, <2>1, <2>4, SameTypes DEF UpdateTypes
  <1>5. CASE EndPass
    <2>1. /\ UNCHANGED <<disk, now, last_mtime, command_state, update_status, updated, runs,
                         considered, updating, jobs, deps, changed, stack, rv,
                         mk, goals, gi, round>>
          /\ pass' = NextPass /\ upc' \in {"dying", "wait"} /\ exit' \in {exit, 0}
      BY <1>5 DEF EndPass, fileVars
    <2>2. SetTypes' /\ GoalTypes'
      BY <1>1, <2>1 DEF SetTypes, GoalTypes, NextPass
    <2> QED BY <1>1, <2>1, <2>2, SameTypes DEF UpdateTypes
  <1>6. CASE remove_intermediates
    <2>1. /\ disk' = [f \in Files |-> IF f \in Removed THEN Nonexistent ELSE disk[f]]
          /\ upc' = "exited"
          /\ UNCHANGED <<now, last_mtime, command_state, update_status, updated, runs,
                         considered, pass, updating, jobs, deps, changed, stack, rv,
                         mk, goals, gi, exit, round>>
      BY <1>6 DEF remove_intermediates, fileVars
    <2>2. disk' \in [Files -> Nat]
      <3>1. PICK R : R = Removed
        OBVIOUS
      <3> QED BY <1>1, <2>1, <3>1 DEF FileTypes, Nonexistent
    <2>3. FileTypes' /\ GoalTypes'
      BY <1>1, <2>1, <2>2 DEF FileTypes, GoalTypes
    <2> QED BY <1>1, <2>1, <2>3, SameTypes DEF UpdateTypes
  <1>7. CASE Again
    <2>1. /\ round < mk.rounds
          /\ deps' = mk.deps
          /\ last_mtime' = [f \in Files |-> IF f \in mk.phony THEN Nonexistent ELSE Unknown]
          /\ command_state' = [f \in Files |-> "not_started"]
          /\ update_status' = [f \in Files |-> Unset] /\ updated' = [f \in Files |-> FALSE]
          /\ considered' = [f \in Files |-> FALSE]
          /\ changed' = [f \in Files |-> [i \in DOMAIN mk.deps[f] |-> FALSE]]
          /\ pass' = TRUE /\ updating' = {} /\ stack' = <<>>
          /\ rv' = [status |-> 0, must |-> FALSE]
          /\ goals' = mk.goals /\ gi' = 1 /\ upc' = "wait"
          /\ exit' = Unset /\ runs' = [f \in Files |-> 0] /\ round' = round + 1
          /\ UNCHANGED <<mk, disk, now, jobs>>
      BY <1>7, Zenon DEF Again, Fresh
    <2>2. /\ mk.goals \in Seq(Files) /\ mk.rounds \in Nat \ {0}
          /\ mk.deps \in [Files -> Seq([file : Files, order : BOOLEAN])]
      BY <1>1, MakefileIs
    <2>3. FileTypes' /\ StateTypes' /\ SetTypes' /\ CallTypes'
      BY <1>1, <2>1 DEF FileTypes, StateTypes, SetTypes, CallTypes, Times, Nonexistent, Unknown, Unset
    <2>4. DepTypes'
      BY <2>1, <2>2, FreshDeps DEF DepTypes
    <2>5. GoalTypes'
      BY <1>1, <2>1, <2>2 DEF GoalTypes
    <2> QED BY <2>3, <2>4, <2>5 DEF UpdateTypes
  <1>8. CASE Stop \/ UNCHANGED vars
    <2>1. UNCHANGED <<disk, now, last_mtime, command_state, update_status, updated, runs,
                      considered, pass, updating, jobs, deps, changed, stack, rv,
                      mk, goals, gi, exit, round, upc>>
      BY <1>8 DEF Stop, vars
    <2> QED BY <1>1, <2>1, SameTypes DEF UpdateTypes
  <1> QED BY <1>2, <1>3, <1>4, <1>5, <1>6, <1>7, <1>8

LEMMA ReapTypes ==
  ASSUME OrdinaryMakefiles, UpdateInv, NEW j \in Files, Reap(j)
  PROVE  UpdateTypes'
  <1>1. /\ FileTypes /\ StateTypes /\ SetTypes /\ DepTypes /\ CallTypes /\ GoalTypes
        /\ mk \in Makefiles
    BY GroupsOf
  <1>2. /\ UNCHANGED <<considered, pass, updating, deps, changed, stack, rv, mk, goals, gi, runs,
                       round>>
        /\ jobs' = jobs \ {j}
    BY DEF Reap
  <1>ended. PICK ok \in BOOLEAN, writes \in BOOLEAN, later \in {0, 1},
                 gone \in SUBSET ({j} \cup mk.also[j]) : Ended(j, ok, writes, later, gone)
    BY ReapIs
  <1>3. /\ now' = now + later
        /\ disk' = [f \in Files |-> IF f \in gone THEN Nonexistent
                                    ELSE IF writes /\ (f = j \/ f \in mk.also[j])
                                         THEN now + later ELSE disk[f]]
        /\ Finished(j, command_state, [update_status EXCEPT ![j] = IF ok THEN 0 ELSE 2],
                    last_mtime, disk')
        /\ exit' \in {exit, 2} /\ upc' \in {upc, "more", "dying"}
    <2>1. exit' \in {exit, 2} /\ upc' \in {upc, "more", "dying"}
      BY <1>ended DEF Ended
    <2> QED BY <1>ended, <2>1, Zenon DEF Ended
  <1>4. now' \in Nat
    BY <1>1, <1>3 DEF FileTypes
  <1>5. disk' \in [Files -> Nat]
    <2>1. PICK S : S = mk.also[j] \cup {j}
      OBVIOUS
    <2>2. disk' = [f \in Files |-> IF f \in gone THEN Nonexistent
                                  ELSE IF writes /\ f \in S THEN now' ELSE disk[f]]
      BY <1>3, <2>1
    <2> QED BY <1>1, <1>4, <2>2 DEF FileTypes, Nonexistent
  <1>6. PICK us : us = [update_status EXCEPT ![j] = IF ok THEN 0 ELSE 2]
    OBVIOUS
  <1>7. us \in [Files -> {Unset, 0, 2}]
    BY <1>1, <1>6 DEF StateTypes
  <1>8. PICK dk : dk = disk'
    OBVIOUS
  <1>9. Finished(j, command_state, us, last_mtime, dk)
    BY <1>3, <1>6, <1>8
  <1>10. /\ command_state \in [Files -> {"not_started", "deps_running", "running", "finished"}]
         /\ updated \in [Files -> BOOLEAN] /\ last_mtime \in Times /\ dk \in [Files -> Nat]
    BY <1>1, <1>5, <1>8 DEF StateTypes, FileTypes
  <1>11. /\ command_state' \in [Files -> {"not_started", "deps_running", "running", "finished"}]
         /\ updated' \in [Files -> BOOLEAN] /\ update_status' \in [Files -> {Unset, 0, 2}]
         /\ last_mtime' \in Times
    BY <1>1, <1>7, <1>9, <1>10, FinishedIs
  <1>12. FileTypes' /\ StateTypes' /\ SetTypes'
    BY <1>1, <1>2, <1>4, <1>5, <1>11 DEF FileTypes, StateTypes, SetTypes
  <1>13. GoalTypes'
    BY <1>1, <1>2, <1>3 DEF GoalTypes
  <1> QED BY <1>1, <1>2, <1>12, <1>13, SameTypes DEF UpdateTypes

LEMMA UpdateTypesStep ==
  ASSUME OrdinaryMakefiles, UpdateInv, [UpdateNext]_vars
  PROVE  UpdateTypes'
  BY FileActionTypes, FinishActionTypes, CheckActionTypes, OuterTypes, ReapTypes, Zenon
     DEF UpdateNext

-----------------------------------------------------------------------------
(* What the calls below see of a step. *)

LEMMA MovesIs ==
  ASSUME NEW f, NEW cs, NEW us, NEW dp, NEW ud, NEW st, NEW cs2, NEW us2, NEW dp2, NEW ud2,
         NEW st2,
         \A x \in Files : x # f => /\ cs2[x] = cs[x] /\ us2[x] = us[x] /\ dp2[x] = dp[x]
                                   /\ (x \in ud => x \in ud2),
         OnStack(st) \subseteq OnStack(st2) \cup {f},
         f \in OnStack(st2) \/ cs2[f] # "not_started" \/ f \notin VisitedFiles(cs, st),
         cs[f] # "finished" \/ (cs2[f] = cs[f] /\ us2[f] = us[f])
  PROVE  Moves(f, cs, dp, ud, VisitedFiles(cs, st), DoneFiles(cs, us),
               cs2, dp2, ud2, VisitedFiles(cs2, st2), DoneFiles(cs2, us2))
  <1>1. VisitedFiles(cs, st) \subseteq VisitedFiles(cs2, st2)
    BY VisitedStays
  <1>2. DoneFiles(cs, us) \subseteq DoneFiles(cs2, us2)
    BY DoneStays
  <1> QED BY <1>1, <1>2 DEF Moves

(* update_file_1 answers check_dep, and check_dep answers update_file_1. *)
LEMMA FileAnswers ==
  ASSUME NEW st \in Seq(Calls), st # <<>>, NEW cs, NEW dp, NEW ud, NEW V, NEW D, NEW pa,
         NEW keep, StackOk(st, cs, dp, ud, V, D, pa, keep), Last(st).kind = "file",
         NEW cs2, NEW us2, NEW dp2, NEW s, Answered(Last(st).f, cs2, us2, s),
         NEW t, t = Front(st)
  PROVE  TopAnswered(t, cs2, us2, dp2, s)
  <1>1. ASSUME t # <<>>
        PROVE  Last(t).kind = "check" /\ Last(t).f = Last(st).f
    <2>1. Last(t) \in Calls /\ Nested(Last(t), Last(st), dp)
      BY <1>1, CallBelow
    <2>2. Last(t).kind \in {"file", "check"}
      BY <2>1, CallIs
    <2> QED BY <2>1, <2>2 DEF Nested
  <1> QED BY <1>1, Zenon DEF TopAnswered

LEMMA CheckAnswers ==
  ASSUME NEW st \in Seq(Calls), st # <<>>, NEW cs, NEW dp, NEW ud, NEW V, NEW D, NEW pa,
         NEW keep, StackOk(st, cs, dp, ud, V, D, pa, keep), Last(st).kind = "check",
         NEW us, NEW s, Answered(Last(st).f, cs, us, s),
         NEW t, t = Front(st)
  PROVE  TopAnswered(t, cs, us, dp, s)
  <1>1. ASSUME t # <<>>
        PROVE  Last(t).kind = "file" /\ Last(st).f = dp[Last(t).f][Last(t).i].file
    <2>1. Last(t) \in Calls /\ Nested(Last(t), Last(st), dp)
      BY <1>1, CallBelow
    <2>2. Last(t).kind \in {"file", "check"}
      BY <2>1, CallIs
    <2> QED BY <2>1, <2>2 DEF Nested
  <1> QED BY <1>1, Zenon DEF TopAnswered

(* While prerequisites are looked at, the files on the stack are updating. *)
LEMMA OnStackUpdating ==
  ASSUME NEW st \in Seq(Calls), st # <<>>, NEW cs, NEW dp, NEW ud, NEW V, NEW D, NEW pa,
         NEW keep, StackOk(st, cs, dp, ud, V, D, pa, keep), Last(st).kind = "file",
         Last(st).phase = "dep"
  PROVE  OnStack(st) \subseteq ud
  <1>1. PICK n \in Nat : Len(st) = n + 1
    BY NonEmpty
  <1>2. ASSUME NEW k \in 1 .. n + 1, st[k].kind = "file"
        PROVE  st[k].f \in ud
    <2>1. FileFrameOk(st[k], cs, dp, ud, V, D, pa)
      BY <1>1, <1>2 DEF StackOk, FrameOk
    <2>2. st[k].phase \in {"dep", "back"}
      <3>1. CASE k = n + 1
        BY <1>1, <3>1 DEF Last
      <3>2. CASE k # n + 1
        <4>1. Nested(st[k], st[k + 1], dp)
          BY <1>1, <3>2 DEF StackOk
        <4> QED BY <1>2, <4>1 DEF Nested
      <3> QED BY <3>1, <3>2
    <2> QED BY <2>1, <2>2 DEF FileFrameOk
  <1> QED BY <1>1, <1>2 DEF OnStack

LEMMA TopKept ==
  ASSUME NEW st \in Seq(Calls), st # <<>>
  PROVE  st = Append(Front(st), Last(st))
  <1>1. PICK n \in Nat : Len(st) = n + 1
    BY NonEmpty
  <1>2. PICK u : u = Front(st)
    OBVIOUS
  <1>3. u \in Seq(Calls) /\ Len(u) = n /\ \A k \in 1 .. n : u[k] = st[k]
    BY <1>1, <1>2 DEF Front
  <1>4. PICK e : e = st[n + 1]
    OBVIOUS
  <1>5. e \in Calls
    BY <1>1, <1>4
  <1>6. PICK t : t = Append(u, e)
    OBVIOUS
  <1>7. t \in Seq(Calls) /\ Len(t) = n + 1 /\ t[n + 1] = e /\ \A k \in 1 .. n : t[k] = u[k]
    BY <1>3, <1>5, <1>6
  <1>8. \A k \in 1 .. Len(t) : t[k] = st[k]
    BY <1>3, <1>4, <1>7
  <1>9. t = st
    BY <1>1, <1>7, <1>8, SeqEqual
  <1> QED BY <1>1, <1>2, <1>4, <1>6, <1>9 DEF Last

-----------------------------------------------------------------------------
(* Steps while a goal is considered. *)

LEMMA StatesSame ==
  ASSUME StatesAgree, JobsReady,
         UNCHANGED <<command_state, update_status, updated, jobs, runs, deps>>
  PROVE  StatesAgree' /\ JobsReady' /\ Done' = Done
  <1>1. StatesAgree'
    BY DEF StatesAgree, StateAgrees
  <1>2. Done' = Done
    BY Zenon DEF Done
  <1> QED BY <1>1, <1>2 DEF JobsReady, DepFiles

LEMMA StatesChange ==
  ASSUME StatesAgree, JobsReady, NEW f,
         \A x \in Files : x # f =>
           /\ command_state'[x] = command_state[x] /\ update_status'[x] = update_status[x]
           /\ updated'[x] = updated[x] /\ runs'[x] = runs[x] /\ (x \in jobs' <=> x \in jobs),
         StateAgrees(command_state', update_status', updated', jobs', runs', f),
         Done \subseteq Done', UNCHANGED deps, jobs' \subseteq Files,
         f \in jobs' => f \in jobs \/ DepFiles(deps, f) \subseteq Done'
  PROVE  StatesAgree' /\ JobsReady'
  <1>1. ASSUME NEW x \in Files
        PROVE  StateAgrees(command_state', update_status', updated', jobs', runs', x)
    <2>1. CASE x = f
      BY <2>1
    <2>2. CASE x # f
      <3>1. StateAgrees(command_state, update_status, updated, jobs, runs, x)
        BY DEF StatesAgree
      <3> QED BY <2>2, <3>1 DEF StateAgrees
    <2> QED BY <2>1, <2>2
  <1>2. ASSUME NEW x \in jobs'
        PROVE  DepFiles(deps', x) \subseteq Done'
    <2>1. DepFiles(deps', x) = DepFiles(deps, x) /\ x \in Files
      BY DEF DepFiles
    <2>2. x \in jobs => DepFiles(deps, x) \subseteq Done
      BY DEF JobsReady
    <2> QED BY <2>1, <2>2
  <1>3. StatesAgree'
    BY <1>1 DEF StatesAgree
  <1> QED BY <1>2, <1>3 DEF JobsReady

LEMMA InnerStepConsidered ==
  ASSUME UpdateInv, UpdateTypes', StatesAgree', JobsReady', upc = "pass", LiveOk, NEW f,
         UNCHANGED <<mk, pass, goals, gi, upc>>,
         \A x \in Files : x \notin Visited' => considered'[x] = considered[x],
         Moves(f, command_state, deps, updating, Visited, Done,
               command_state', deps', updating', Visited', Done'),
         OnStack(stack) \subseteq OnStack(stack') \cup {f},
         command_state'[f] = "deps_running" /\ f \notin OnStack(stack') =>
           DepFiles(deps', f) \subseteq Visited',
         StackOk(stack', command_state', deps', updating', Visited', Done', pass, mk.keepGoing),
         TopAnswered(stack', command_state', update_status', deps', rv'.status),
         NoFailure(rv', update_status', mk.keepGoing)
  PROVE  UpdateInv'
  <1>1. Visited \subseteq Visited' /\ \A x \in Files : x # f => /\ command_state'[x] = command_state[x]
                                                               /\ deps'[x] = deps[x]
    BY DEF Moves
  <1>2. PassOk(stack', command_state', deps', considered', Visited')
    <2>1. PassOk(stack, command_state, deps, considered, Visited)
      BY Zenon DEF LiveOk
    <2>2. PassOk(stack', command_state', deps', considered, Visited')
      BY <1>1, <2>1, PassStays
    <2> QED BY <2>2, Zenon DEF PassOk
  <1>3. GoalsOk(upc', goals', gi', pass', Visited')
    <2>1. GoalsOk(upc, goals, gi, pass, Visited)
      BY Zenon DEF LiveOk
    <2>2. GoalsOk(upc, goals, gi, pass, Visited')
      BY <1>1, <2>1 DEF GoalsOk
    <2> QED BY <2>2
  <1>4. LiveOk'
    BY <1>2, <1>3, Zenon DEF LiveOk
  <1>5. upc' # "exited"
    OBVIOUS
  <1> QED BY <1>4, <1>5, Zenon DEF UpdateInv

LEMMA InnerStep ==
  ASSUME UpdateInv, UpdateTypes', StatesAgree', JobsReady', upc = "pass", LiveOk, NEW f,
         UNCHANGED <<mk, considered, pass, goals, gi, upc>>,
         Moves(f, command_state, deps, updating, Visited, Done,
               command_state', deps', updating', Visited', Done'),
         OnStack(stack) \subseteq OnStack(stack') \cup {f},
         command_state'[f] = "deps_running" /\ f \notin OnStack(stack') =>
           DepFiles(deps', f) \subseteq Visited',
         StackOk(stack', command_state', deps', updating', Visited', Done', pass, mk.keepGoing),
         TopAnswered(stack', command_state', update_status', deps', rv'.status),
         NoFailure(rv', update_status', mk.keepGoing)
  PROVE  UpdateInv'
  <1>1. UNCHANGED <<mk, pass, goals, gi, upc>>
        /\ \A x \in Files : x \notin Visited' => considered'[x] = considered[x]
    OBVIOUS
  <1> QED BY <1>1, InnerStepConsidered, Zenon

LEMMA StackIs ==
  ASSUME UpdateInv, LiveOk
  PROVE  /\ stack \in Seq(Calls)
         /\ StackOk(stack, command_state, deps, updating, Visited, Done, pass, mk.keepGoing)
         /\ NoFailure(rv, update_status, mk.keepGoing)
         /\ PassOk(stack, command_state, deps, considered, Visited)
         /\ TopAnswered(stack, command_state, update_status, deps, rv.status)
         /\ StatesAgree /\ JobsReady /\ mk \in Makefiles
  BY Zenon DEF UpdateInv, UpdateTypes, CallTypes, GoalTypes, LiveOk

(* The call of update_file_1 on top goes on, and nothing else. *)
LEMMA TopStep ==
  ASSUME UpdateInv, UpdateTypes', NEW p, InFile(p), NEW fr \in Calls,
         fr.f = Top.f, fr.kind = "file", fr.phase # "back", stack' = Becomes(fr),
         FileFrameOk(fr, command_state, deps, updating, Visited, Done, pass),
         ~mk.keepGoing => fr.status = 0,
         UNCHANGED <<command_state, update_status, updated, jobs, runs, deps, mk, considered,
                     pass, goals, gi, upc, rv, updating>>
  PROVE  UpdateInv'
  <1>1. /\ Top \in Calls /\ Top.f \in Files /\ LiveOk /\ upc = "pass" /\ stack # <<>>
        /\ Top.kind = "file" /\ Top.f \in OnStack(stack)
        /\ FrameOk(Top, command_state, deps, updating, Visited, Done, pass, mk.keepGoing)
    BY FileOnTop, CallOnTop
  <1>2. /\ stack \in Seq(Calls) /\ StatesAgree /\ JobsReady
        /\ StackOk(stack, command_state, deps, updating, Visited, Done, pass, mk.keepGoing)
        /\ NoFailure(rv, update_status, mk.keepGoing)
    BY <1>1, StackIs
  <1>3. stack' = Append(Front(stack), fr) /\ Top = Last(stack)
    BY DEF Becomes, Top
  <1>4. OnStack(stack') = OnStack(stack)
    BY <1>1, <1>2, <1>3, OnStackBecomes
  <1>5. Visited' = Visited /\ Done' = Done
    BY <1>4 DEF Visited, VisitedFiles, Done
  <1>6. FrameOk(fr, command_state, deps, updating, Visited, Done, pass, mk.keepGoing)
    BY <1>1 DEF FrameOk
  <1>7. Moves(Top.f, command_state, deps, updating, Visited, Done,
              command_state, deps, updating, Visited, Done)
    BY DEF Moves
  <1>8. StackOk(stack', command_state, deps, updating, Visited, Done, pass, mk.keepGoing)
    BY <1>1, <1>2, <1>3, <1>6, <1>7, StackBecomes
  <1>9. TopAnswered(stack', command_state', update_status', deps', rv'.status)
    <2>1. Last(stack') = fr
      BY <1>1, BecomesIs, GroupsOf
    <2> QED BY <2>1 DEF TopAnswered
  <1>10. StatesAgree' /\ JobsReady'
    BY <1>2, StatesSame
  <1>11. Moves(Top.f, command_state, deps, updating, Visited, Done,
               command_state', deps', updating', Visited', Done')
    BY <1>5, <1>7
  <1>12. StackOk(stack', command_state', deps', updating', Visited', Done', pass, mk.keepGoing)
    BY <1>5, <1>8
  <1>13. NoFailure(rv', update_status', mk.keepGoing)
    BY <1>2
  <1>14. OnStack(stack) \subseteq OnStack(stack') \cup {Top.f} /\ Top.f \in OnStack(stack')
    BY <1>1, <1>4
  <1>15. UNCHANGED <<mk, considered, pass, goals, gi, upc>>
    OBVIOUS
  <1> QED BY <1>1, <1>9, <1>10, <1>11, <1>12, <1>13, <1>14, <1>15, InnerStep

(* The call of update_file_1 on top returns; only the state of its file has *)
(* changed.                                                                 *)
LEMMA ReturnStep ==
  ASSUME UpdateInv, UpdateTypes', StatesAgree', JobsReady', NEW p, InFile(p),
         NEW f, f = Top.f, stack' = Front(stack),
         \A x \in Files : x # f => /\ command_state'[x] = command_state[x]
                                   /\ update_status'[x] = update_status[x]
                                   /\ (x \in updating => x \in updating'),
         command_state'[f] # "not_started",
         command_state[f] # "finished" \/ (command_state'[f] = command_state[f] /\
                                           update_status'[f] = update_status[f]),
         command_state'[f] = "deps_running" => DepFiles(deps, f) \subseteq Visited,
         Answered(f, command_state', update_status', rv'.status),
         NoFailure(rv', update_status', mk.keepGoing),
         UNCHANGED <<deps, mk, considered, pass, goals, gi, upc>>
  PROVE  UpdateInv'
  <1>1. /\ Top \in Calls /\ f \in Files /\ LiveOk /\ upc = "pass" /\ stack # <<>>
        /\ Top.kind = "file" /\ Top = Last(stack)
    BY FileOnTop DEF Top
  <1>2. /\ stack \in Seq(Calls)
        /\ StackOk(stack, command_state, deps, updating, Visited, Done, pass, mk.keepGoing)
    BY <1>1, StackIs
  <1>3. OnStack(stack) \subseteq OnStack(stack') \cup {f}
    BY <1>1, <1>2, OnStackPopped
  <1>4. Moves(f, command_state, deps, updating, Visited, Done,
              command_state', deps', updating', Visited', Done')
    <2>1. \A x \in Files : x # f => deps'[x] = deps[x]
      OBVIOUS
    <2> QED BY <1>3, <2>1, MovesIs DEF Visited, Done
  <1>5. StackOk(stack', command_state', deps', updating', Visited', Done', pass, mk.keepGoing)
    BY <1>1, <1>2, <1>4, StackPopped
  <1>6. TopAnswered(stack', command_state', update_status', deps', rv'.status)
    BY <1>1, <1>2, FileAnswers
  <1>7. command_state'[f] = "deps_running" => DepFiles(deps', f) \subseteq Visited'
    BY <1>4 DEF Moves
  <1>8. UNCHANGED <<mk, considered, pass, goals, gi, upc>>
    OBVIOUS
  <1> QED BY <1>1, <1>3, <1>4, <1>5, <1>6, <1>7, <1>8, InnerStep

LEMMA DropCircularStep ==
  ASSUME UpdateInv, UpdateTypes', DropCircular
  PROVE  UpdateInv'
  <1>1. /\ Top \in Calls /\ Top.f \in Files /\ LiveOk /\ upc = "pass" /\ stack # <<>>
        /\ Top.kind = "file" /\ Top.phase = "dep" /\ Top.f \in OnStack(stack)
        /\ ~mk.keepGoing => Top.status = 0
        /\ FileFrameOk(Top, command_state, deps, updating, Visited, Done, pass)
        /\ FrameOk(Top, command_state, deps, updating, Visited, Done, pass, mk.keepGoing)
    BY FileOnTop, CallOnTop DEF DropCircular
  <1>2. /\ stack \in Seq(Calls) /\ StatesAgree /\ JobsReady
        /\ StackOk(stack, command_state, deps, updating, Visited, Done, pass, mk.keepGoing)
        /\ NoFailure(rv, update_status, mk.keepGoing)
    BY <1>1, StackIs
  <1>3. PICK c : c = Top
    OBVIOUS
  <1>4. PICK f : f = c.f
    OBVIOUS
  <1>5. c.i \in DOMAIN deps[f] /\ f \in Files /\ deps \in [Files -> Seq([file : Files, order : BOOLEAN])]
    <2>1. ~PastEnd(c) /\ c \in Calls
      BY <1>1, <1>3 DEF DropCircular
    <2> QED BY <1>1, <1>3, <1>4, <2>1, DepIs, GroupsOf DEF DepTypes
  <1>6. /\ deps' = [deps EXCEPT ![f] = RemoveAt(@, c.i)]
        /\ UNCHANGED <<command_state, update_status, updated, jobs, runs, mk, considered,
                       pass, goals, gi, upc, rv, updating, stack>>
    BY <1>3, <1>4 DEF DropCircular, Drop, fileVars
  <1>7. DepDropped(deps, deps', f, c.i)
    BY <1>5, <1>6, DropsDep, Zenon
  <1>8. /\ \A x \in Files : x # f => deps'[x] = deps[x]
        /\ DepFiles(deps', f) \subseteq DepFiles(deps, f)
        /\ \A k \in DOMAIN deps'[f] : k < c.i => k \in DOMAIN deps[f] /\ deps'[f][k] = deps[f][k]
    BY <1>7, Zenon DEF DepDropped
  <1>9. Visited' = Visited /\ Done' = Done
    BY <1>6, Zenon DEF Visited, Done
  <1>10. CheckedFiles(c, deps') \subseteq CheckedFiles(c, deps)
    BY <1>1, <1>3, <1>4, <1>8 DEF CheckedFiles
  <1>11. FrameOk(c, command_state, deps', updating, Visited, Done, pass, mk.keepGoing)
    <2>1. FileFrameOk(c, command_state, deps', updating, Visited, Done, pass)
      BY <1>1, <1>3, <1>4, <1>8, <1>10 DEF FileFrameOk
    <2> QED BY <1>1, <1>3, <2>1 DEF FrameOk
  <1>12. Moves(f, command_state, deps, updating, Visited, Done,
               command_state, deps', updating, Visited, Done)
    BY <1>8 DEF Moves
  <1>13. StackOk(stack, command_state, deps', updating, Visited, Done, pass, mk.keepGoing)
    <2>1. stack = Append(Front(stack), c) /\ c = Last(stack)
      BY <1>1, <1>2, <1>3, TopKept DEF Top
    <2> QED BY <1>1, <1>2, <1>3, <1>4, <1>11, <1>12, <2>1, StackBecomes
  <1>14. TopAnswered(stack', command_state', update_status', deps', rv'.status)
    BY <1>1, <1>6 DEF TopAnswered, Top
  <1>15. StatesAgree' /\ JobsReady'
    <2>1. StatesAgree'
      BY <1>2, <1>6 DEF StatesAgree, StateAgrees
    <2>2. ASSUME NEW x \in jobs
          PROVE  DepFiles(deps', x) \subseteq Done
      <3>1. DepFiles(deps, x) \subseteq Done
        BY <1>2 DEF JobsReady
      <3>2. DepFiles(deps', x) \subseteq DepFiles(deps, x)
        <4>1. x \in Files
          BY GroupsOf DEF SetTypes
        <4>2. CASE x = f
          BY <1>8, <4>2
        <4>3. CASE x # f
          BY <1>8, <4>1, <4>3 DEF DepFiles
        <4> QED BY <4>2, <4>3
      <3> QED BY <3>1, <3>2
    <2>3. JobsReady'
      BY <1>6, <1>9, <2>2 DEF JobsReady
    <2> QED BY <2>1, <2>3
  <1>16. Moves(f, command_state, deps, updating, Visited, Done,
               command_state', deps', updating', Visited', Done')
    BY <1>6, <1>9, <1>12
  <1>17. StackOk(stack', command_state', deps', updating', Visited', Done', pass, mk.keepGoing)
    BY <1>6, <1>9, <1>13
  <1>18. NoFailure(rv', update_status', mk.keepGoing)
    BY <1>2, <1>6
  <1>19. OnStack(stack) \subseteq OnStack(stack') \cup {f} /\ f \in OnStack(stack')
    BY <1>1, <1>3, <1>4, <1>6
  <1>20. UNCHANGED <<mk, considered, pass, goals, gi, upc>>
    BY <1>6
  <1> QED BY <1>1, <1>14, <1>15, <1>16, <1>17, <1>18, <1>19, <1>20, InnerStep

LEMMA CheckPrerequisiteStep ==
  ASSUME UpdateInv, UpdateTypes', CheckPrerequisite
  PROVE  UpdateInv'
  <1>1. /\ Top \in Calls /\ Top.f \in Files /\ LiveOk /\ upc = "pass" /\ stack # <<>>
        /\ Top.kind = "file" /\ Top.phase = "dep" /\ Top.f \in OnStack(stack)
        /\ ~mk.keepGoing => Top.status = 0
        /\ FileFrameOk(Top, command_state, deps, updating, Visited, Done, pass)
        /\ FrameOk(Top, command_state, deps, updating, Visited, Done, pass, mk.keepGoing)
    BY FileOnTop, CallOnTop DEF CheckPrerequisite
  <1>2. /\ stack \in Seq(Calls) /\ StatesAgree /\ JobsReady
        /\ StackOk(stack, command_state, deps, updating, Visited, Done, pass, mk.keepGoing)
        /\ NoFailure(rv, update_status, mk.keepGoing)
    BY <1>1, StackIs
  <1>3. PICK c : c = Top
    OBVIOUS
  <1>4. PICK d : d = Dep(c).file
    OBVIOUS
  <1>5. d \in Files /\ d \notin updating /\ c.i \in DOMAIN deps[c.f] /\ d = deps[c.f][c.i].file
    <2>1. ~PastEnd(c) /\ c \in Calls /\ d \notin updating
      BY <1>1, <1>3, <1>4 DEF CheckPrerequisite, Circular
    <2> QED BY <1>4, <2>1, DepIs, GroupsOf
  <1>6. PICK back : back = [c EXCEPT !.phase = "back", !.before = mtime(d)]
    OBVIOUS
  <1>7. PICK g : g = Frame("check", d, c.must, c.this)
    OBVIOUS
  <1>8. PICK st : st = Append(Front(stack), back)
    OBVIOUS
  <1>9. /\ updating' = updating \cup {d} /\ stack' = Append(st, g)
        /\ UNCHANGED <<command_state, update_status, updated, jobs, runs, mk, considered,
                       pass, goals, gi, upc, rv, deps>>
    BY <1>3, <1>4, <1>6, <1>7, <1>8 DEF CheckPrerequisite, Becomes
  <1>10. back \in Calls /\ g \in Calls
    <2>1. mtime(d) \in Nat
      BY <1>5, TimeIs, GroupsOf
    <2>2. c \in Calls
      BY <1>1, <1>3
    <2>3. back \in Calls
      BY <1>6, <2>1, <2>2 DEF Calls
    <2> QED BY <1>5, <1>7, <2>2, <2>3, CallIs, FrameIs
  <1>11. /\ back.f = c.f /\ back.kind = "file" /\ back.phase = "back" /\ back.i = c.i
         /\ back.status = c.status /\ back.running = c.running
    BY <1>1, <1>3, <1>6 DEF Calls
  <1>12. g.f = d /\ g.kind = "check" /\ g.phase = "dep" /\ g.status = 0
    BY <1>7 DEF Frame
  <1>13. st \in Seq(Calls) /\ st # <<>> /\ Last(st) = back
    BY <1>1, <1>8, <1>10, BecomesIs, GroupsOf DEF Becomes
  <1>14. OnStack(st) = OnStack(stack)
    BY <1>1, <1>2, <1>3, <1>8, <1>10, <1>11, OnStackBecomes DEF Top
  <1>15. OnStack(stack) \subseteq OnStack(stack')
    BY <1>9, <1>10, <1>13, <1>14, OnStackPushed
  <1>16. Moves(c.f, command_state, deps, updating, Visited, Done,
               command_state', deps', updating', Visited', Done')
    <2>1. c.f \in OnStack(stack')
      BY <1>1, <1>3, <1>15
    <2> QED BY <1>9, <1>15, <2>1, MovesIs DEF Visited, Done
  <1>17. Visited \subseteq Visited' /\ Done \subseteq Done'
    BY <1>16, Zenon DEF Moves
  <1>18. FrameOk(back, command_state', deps', updating', Visited', Done', pass, mk.keepGoing)
    <2>1. CheckedFiles(back, deps') = CheckedFiles(c, deps)
      BY <1>1, <1>3, <1>9, <1>11 DEF CheckedFiles
    <2>2. FileFrameOk(back, command_state', deps', updating', Visited', Done', pass)
      BY <1>1, <1>3, <1>5, <1>9, <1>11, <1>17, <2>1 DEF FileFrameOk
    <2> QED BY <1>1, <1>3, <1>11, <1>17, <2>2 DEF FrameOk
  <1>19. FrameOk(g, command_state', deps', updating', Visited', Done', pass, mk.keepGoing)
    <2>1. ~pass => d \in Visited
      BY <1>1, <1>3, <1>5 DEF FileFrameOk, DepFiles
    <2> QED BY <1>12, <1>17, <2>1 DEF FrameOk
  <1>20. StackOk(st, command_state', deps', updating', Visited', Done', pass, mk.keepGoing)
    BY <1>1, <1>2, <1>3, <1>8, <1>10, <1>11, <1>16, <1>18, StackBecomes DEF Top
  <1>21. StackOk(stack', command_state', deps', updating', Visited', Done', pass, mk.keepGoing)
    <2>1. Nested(back, g, deps')
      BY <1>5, <1>9, <1>11, <1>12 DEF Nested
    <2>2. d \notin OnStack(st)
      BY <1>1, <1>2, <1>5, <1>14, OnStackUpdating DEF Top
    <2> QED BY <1>9, <1>10, <1>12, <1>13, <1>19, <1>20, <2>1, <2>2, StackPushed
  <1>22. TopAnswered(stack', command_state', update_status', deps', rv'.status)
    <2>1. Last(stack') = g
      BY <1>9, <1>10, <1>13, LastPushed
    <2> QED BY <1>12, <2>1 DEF TopAnswered
  <1>23. StatesAgree' /\ JobsReady'
    BY <1>2, <1>9, StatesSame
  <1>24. NoFailure(rv', update_status', mk.keepGoing)
    BY <1>2, <1>9
  <1>25. OnStack(stack) \subseteq OnStack(stack') \cup {c.f} /\ c.f \in OnStack(stack')
    BY <1>1, <1>3, <1>15
  <1>26. UNCHANGED <<mk, considered, pass, goals, gi, upc>>
    BY <1>9
  <1> QED BY <1>1, <1>16, <1>21, <1>22, <1>23, <1>24, <1>25, <1>26, InnerStep

(* The answer for a prerequisite: it is visited, and done if it is neither *)
(* being made nor has failed.                                              *)
(* What it knows once it has the answer for the prerequisite. *)
LEMMA CheckedFrame ==
  ASSUME UpdateInv, PrerequisiteChecked, NEW c, c = Top
  PROVE  /\ c.i \in DOMAIN deps[c.f] /\ Dep(c) = deps[c.f][c.i] /\ Dep(c).file \in Files
         /\ Answered(Dep(c).file, command_state, update_status, rv.status)
         /\ \E fr \in Calls :
              /\ stack' = Becomes(fr) /\ fr.f = c.f /\ fr.kind = "file" /\ fr.phase = "dep"
              /\ fr.i = c.i + 1 /\ fr.status = Worse(c.status, rv.status)
              /\ fr.running = StillRunning(c) /\ fr.this = c.this
              /\ fr.must = IF Dep(c).order THEN c.must ELSE rv.must
              /\ ~mk.keepGoing => fr.status = 0
  <1>1. /\ Top \in Calls /\ Top.f \in Files /\ LiveOk /\ upc = "pass" /\ stack # <<>>
        /\ Top.kind = "file" /\ Top.phase = "back" /\ InFile("back")
        /\ ~mk.keepGoing => Top.status = 0
        /\ FileFrameOk(Top, command_state, deps, updating, Visited, Done, pass)
    BY FileOnTop DEF PrerequisiteChecked
  <1>2. /\ TopAnswered(stack, command_state, update_status, deps, rv.status)
        /\ NoFailure(rv, update_status, mk.keepGoing)
    BY <1>1, StackIs
  <1>3. c = Top
    OBVIOUS
  <1>4. PICK d : d = Dep(c).file
    OBVIOUS
  <1>5. c \in Calls /\ c.i \in DOMAIN deps[c.f] /\ d = deps[c.f][c.i].file /\ c.i \in Nat \ {0}
    BY <1>1, <1>3, <1>4, CallIs DEF FileFrameOk, Dep
  <1>6. d \in Files
    <2>1. ~PastEnd(c)
      <3>1. deps[c.f] \in Seq([file : Files, order : BOOLEAN])
        BY <1>1, <1>3, GroupsOf DEF DepTypes
      <3> QED BY <1>5, <3>1 DEF PastEnd
    <2> QED BY <1>4, <1>5, <2>1, DepIs, GroupsOf
  <1>7. Answered(d, command_state, update_status, rv.status)
    BY <1>1, <1>2, <1>3, <1>5 DEF TopAnswered, Top
  <1>8. PICK status : status = Worse(c.status, rv.status)
    OBVIOUS
  <1>9. PICK running : running = StillRunning(c)
    OBVIOUS
  <1>10. PICK must : must = IF Dep(c).order THEN c.must ELSE rv.must
    OBVIOUS
  <1>11. PICK fr : fr = [c EXCEPT !.status = status, !.running = running, !.must = must,
                                  !.phase = "dep", !.i = c.i + 1]
    OBVIOUS
  <1>12. ~mk.keepGoing => status = 0
    BY <1>1, <1>2, <1>3, <1>8 DEF NoFailure, Worse
  <1>13. stack' = Becomes(fr)
    <2>1. PICK next : next = [c EXCEPT !.status = status, !.running = running, !.must = must]
      OBVIOUS
    <2>2. ~(status # 0 /\ ~mk.keepGoing)
      BY <1>12
    <2>3. next = [c EXCEPT !.status = Worse(c.status, rv.status), !.running = StillRunning(c),
                           !.must = IF Dep(c).order THEN @ ELSE rv.must]
      BY <1>8, <1>9, <1>10, <2>1
    <2>4. stack' = Becomes([next EXCEPT !.phase = "dep", !.i = @ + 1])
      BY <1>3, <1>8, <2>2, <2>3, Zenon DEF PrerequisiteChecked
    <2>5. [next EXCEPT !.phase = "dep", !.i = @ + 1] = fr
      BY <1>5, <1>11, <2>1 DEF Calls
    <2> QED BY <2>4, <2>5
  <1>14. status \in {0, 2} /\ running \in BOOLEAN /\ must \in BOOLEAN
    <2>1. rv.status \in {0, 2} /\ rv.must \in BOOLEAN
      BY GroupsOf DEF CallTypes
    <2>2. c.status \in {0, 2} /\ c.running \in BOOLEAN /\ c.must \in BOOLEAN
      BY <1>5, CallIs
    <2>3. status \in {0, 2}
      BY <1>8, <2>1, <2>2 DEF Worse
    <2>4. running \in BOOLEAN
      BY <1>9, <2>2 DEF StillRunning, Busy
    <2> QED BY <1>10, <2>1, <2>2, <2>3, <2>4
  <1>15. /\ fr \in Calls /\ fr.f = c.f /\ fr.kind = "file" /\ fr.phase = "dep"
         /\ fr.i = c.i + 1 /\ fr.status = status /\ fr.running = running
         /\ fr.this = c.this /\ fr.must = must
    <2>1. PICK n : n = c.i + 1
      OBVIOUS
    <2>2. n \in Nat \ {0}
      BY <1>5, <2>1
    <2>3. fr = [c EXCEPT !.status = status, !.running = running, !.must = must,
                         !.phase = "dep", !.i = n]
      BY <1>11, <2>1
    <2> QED BY <1>1, <1>3, <1>5, <1>14, <2>1, <2>2, <2>3, ZenonT(60) DEF Calls
  <1>16. Dep(c) = deps[c.f][c.i]
    BY DEF Dep
  <1> QED BY <1>4, <1>5, <1>6, <1>7, <1>8, <1>9, <1>10, <1>12, <1>13, <1>15, <1>16

LEMMA PrerequisiteCheckedStep ==
  ASSUME UpdateInv, UpdateTypes', PrerequisiteChecked
  PROVE  UpdateInv'
  <1>1. /\ Top \in Calls /\ Top.f \in Files /\ LiveOk /\ upc = "pass" /\ stack # <<>>
        /\ Top.kind = "file" /\ Top.phase = "back" /\ InFile("back")
        /\ FileFrameOk(Top, command_state, deps, updating, Visited, Done, pass)
    BY FileOnTop DEF PrerequisiteChecked
  <1>3. PICK c : c = Top
    OBVIOUS
  <1>4. PICK d : d = Dep(c).file
    OBVIOUS
  <1>5. c \in Calls /\ c.i \in Nat \ {0}
    BY <1>1, <1>3, CallIs
  <1>6. /\ c.i \in DOMAIN deps[c.f] /\ Dep(c) = deps[c.f][c.i] /\ d \in Files
        /\ d = deps[c.f][c.i].file
    BY <1>3, <1>4, CheckedFrame
  <1>7. Answered(d, command_state, update_status, rv.status)
    BY <1>3, <1>4, CheckedFrame
  <1>8. PICK status : status = Worse(c.status, rv.status)
    OBVIOUS
  <1>9. PICK running : running = StillRunning(c)
    OBVIOUS
  <1>10. PICK fr \in Calls :
           /\ stack' = Becomes(fr) /\ fr.f = c.f /\ fr.kind = "file" /\ fr.phase = "dep"
           /\ fr.i = c.i + 1 /\ fr.status = status /\ fr.running = running
           /\ ~mk.keepGoing => fr.status = 0
    BY <1>3, <1>8, <1>9, CheckedFrame
  <1>13. UNCHANGED <<command_state, update_status, updated, jobs, runs, deps, mk, considered,
                     pass, goals, gi, upc, rv, updating>>
    BY DEF PrerequisiteChecked
  <1>16. CheckedFiles(fr, deps) \subseteq CheckedFiles(c, deps) \cup {d}
    <2>1. \A k \in DOMAIN deps[c.f] : k < c.i + 1 => k < c.i \/ k = c.i
      <3>1. deps[c.f] \in Seq([file : Files, order : BOOLEAN])
        BY <1>1, <1>3, GroupsOf DEF DepTypes
      <3> QED BY <1>5, <3>1
    <2> QED BY <1>1, <1>3, <1>5, <1>6, <1>10, <2>1 DEF CheckedFiles
  <1>17. d \in Visited
    BY <1>6, <1>7 DEF Answered, Visited, VisitedFiles
  <1>18. ~running /\ status = 0 => ~c.running /\ c.status = 0 /\ d \in Done
    <2>1. ASSUME ~running, status = 0
          PROVE  ~c.running /\ c.status = 0 /\ d \in Done
      <3>1. ~c.running /\ ~Busy(d)
        BY <1>4, <1>9, <2>1 DEF StillRunning
      <3>2. c.status = 0 /\ rv.status = 0
        BY <1>8, <2>1 DEF Worse
      <3>3. command_state[d] = "finished"
        <4>1. command_state[d] \in {"not_started", "deps_running", "running", "finished"}
          BY <1>6, GroupsOf DEF StateTypes
        <4> QED BY <1>7, <3>1, <4>1 DEF Answered, Busy
      <3> QED BY <1>6, <1>7, <3>1, <3>2, <3>3 DEF Answered, Done, DoneFiles
    <2> QED BY <2>1
  <1>19. FileFrameOk(fr, command_state, deps, updating, Visited, Done, pass)
    BY <1>1, <1>3, <1>10, <1>16, <1>17, <1>18 DEF FileFrameOk
  <1>20. fr.f = Top.f
    BY <1>3, <1>10
  <1> QED BY <1>1, <1>10, <1>13, <1>19, <1>20, TopStep

(* What a call knows of its prerequisites. *)
SameAnswer(fr, c) ==
  fr.status = c.status /\ fr.running = c.running /\ fr.must = c.must /\ fr.this = c.this

LEMMA LoopFrame ==
  ASSUME OrdinaryMakefiles, UpdateInv, Top \in Calls, NEW c, c = Top,
         ToIntermediates \/ UpdateIntermediate \/ PrerequisitesDone
  PROVE  \E fr \in Calls : /\ stack' = Becomes(fr) /\ fr.f = c.f /\ fr.kind = c.kind
                           /\ fr.phase \in {"inter", "finish"} /\ SameAnswer(fr, c)
  <1>1. c = Top
    OBVIOUS
  <1>2. c \in Calls /\ c.i \in Nat \ {0}
    BY CallIs
  <1>3. CASE ToIntermediates
    <2>1. stack' = Becomes([c EXCEPT !.phase = "inter", !.i = 1])
      BY <1>1, <1>3 DEF ToIntermediates
    <2>2. PICK fr : fr = [c EXCEPT !.phase = "inter", !.i = 1]
      OBVIOUS
    <2>3. fr \in Calls
      BY <1>2, <2>2, PhaseIs
    <2>4. fr.f = c.f /\ fr.kind = c.kind /\ fr.phase = "inter"
      BY <1>2, <2>2 DEF Calls
    <2>5. SameAnswer(fr, c)
      BY <1>2, <2>2 DEF Calls, SameAnswer
    <2> QED BY <2>1, <2>2, <2>3, <2>4, <2>5
  <1>4. CASE UpdateIntermediate
    <2>1. mk.intermediate = {}
      BY GroupsOf, Ordinary1
    <2>2. stack' = Becomes([c EXCEPT !.i = @ + 1]) /\ c.phase = "inter"
      BY <1>1, <1>4, <2>1 DEF UpdateIntermediate, InFile
    <2>3. PICK fr : fr = [c EXCEPT !.i = @ + 1]
      OBVIOUS
    <2>4. /\ fr \in Calls /\ fr.f = c.f /\ fr.kind = c.kind
          /\ fr.phase = "inter" /\ SameAnswer(fr, c)
      BY <1>2, <2>2, <2>3 DEF Calls, SameAnswer
    <2> QED BY <2>2, <2>3, <2>4
  <1>5. CASE PrerequisitesDone
    <2>1. stack' = Becomes([c EXCEPT !.phase = "finish"])
      BY <1>1, <1>5 DEF PrerequisitesDone
    <2>2. PICK fr : fr = [c EXCEPT !.phase = "finish"]
      OBVIOUS
    <2>3. fr \in Calls
      BY <1>2, <2>2, PhaseIs
    <2>4. fr.f = c.f /\ fr.kind = c.kind /\ fr.phase = "finish"
      BY <1>2, <2>2 DEF Calls
    <2>5. SameAnswer(fr, c)
      BY <1>2, <2>2 DEF Calls, SameAnswer
    <2> QED BY <2>1, <2>2, <2>3, <2>4, <2>5
  <1> QED BY <1>3, <1>4, <1>5

LEMMA LoopStep ==
  ASSUME OrdinaryMakefiles, UpdateInv, UpdateTypes',
         ToIntermediates \/ UpdateIntermediate \/ PrerequisitesDone
  PROVE  UpdateInv'
  <1>1. PICK p \in {"dep", "inter"} : InFile(p)
    BY Zenon DEF ToIntermediates, UpdateIntermediate, PrerequisitesDone
  <1>2. /\ Top \in Calls /\ Top.f \in Files /\ Top.kind = "file" /\ Top.phase = p
        /\ ~mk.keepGoing => Top.status = 0
        /\ FileFrameOk(Top, command_state, deps, updating, Visited, Done, pass)
    BY <1>1, FileOnTop
  <1>3. PICK c : c = Top
    OBVIOUS
  <1>4. c \in Calls /\ c.i \in Nat \ {0}
    BY <1>2, <1>3, CallIs
  <1>6. PICK fr \in Calls : /\ stack' = Becomes(fr) /\ fr.f = c.f /\ fr.kind = c.kind
                            /\ fr.phase \in {"inter", "finish"} /\ SameAnswer(fr, c)
    BY <1>2, <1>3, LoopFrame
  <1>7. p = "dep" => PastEnd(c)
    BY <1>1, <1>3 DEF ToIntermediates, UpdateIntermediate, PrerequisitesDone, InFile
  <1>8. CheckedFiles(fr, deps) \subseteq CheckedFiles(c, deps)
    <2>1. ASSUME NEW k \in DOMAIN deps[c.f]
          PROVE  c.phase \in {"dep", "back"} => k < c.i
      <3>1. deps[c.f] \in Seq([file : Files, order : BOOLEAN])
        BY <1>2, <1>3, GroupsOf DEF DepTypes
      <3> QED BY <1>2, <1>3, <1>4, <1>7, <3>1 DEF PastEnd
    <2> QED BY <1>6, <2>1 DEF CheckedFiles
  <1>9. FileFrameOk(fr, command_state, deps, updating, Visited, Done, pass)
    BY <1>2, <1>3, <1>6, <1>8 DEF FileFrameOk, SameAnswer
  <1>10. UNCHANGED <<command_state, update_status, updated, jobs, runs, deps, mk, considered,
                     pass, goals, gi, upc, rv, updating>>
    <2>1. CASE ToIntermediates \/ PrerequisitesDone
      BY <2>1 DEF ToIntermediates, PrerequisitesDone, fileVars
    <2>2. CASE UpdateIntermediate
      <3>1. mk.intermediate = {}
        BY GroupsOf, Ordinary1
      <3> QED BY <2>2, <3>1 DEF UpdateIntermediate
    <2> QED BY <2>1, <2>2
  <1>11. /\ fr \in Calls /\ fr.f = Top.f /\ fr.kind = "file" /\ fr.phase # "back"
         /\ ~mk.keepGoing => fr.status = 0
    BY <1>2, <1>3, <1>6 DEF SameAnswer
  <1> QED BY <1>1, <1>6, <1>9, <1>10, <1>11, TopStep

(* The call of update_file_1 on top goes on and changes the state of its   *)
(* file.                                                                   *)
LEMMA TopMoves ==
  ASSUME UpdateInv, UpdateTypes', StatesAgree', JobsReady', NEW p, InFile(p), NEW fr \in Calls,
         fr.f = Top.f, fr.kind = "file", fr.phase # "back", stack' = Becomes(fr),
         \A x \in Files : x # Top.f => /\ command_state'[x] = command_state[x]
                                       /\ (x \in updating => x \in updating'),
         command_state[Top.f] # "finished",
         FileFrameOk(fr, command_state', deps, updating', Visited, Done, pass),
         ~mk.keepGoing => fr.status = 0,
         UNCHANGED <<update_status, deps, mk, considered, pass, goals, gi, upc, rv>>
  PROVE  UpdateInv'
  <1>1. /\ Top \in Calls /\ Top.f \in Files /\ LiveOk /\ upc = "pass" /\ stack # <<>>
        /\ Top.kind = "file" /\ Top.f \in OnStack(stack)
        /\ FrameOk(Top, command_state, deps, updating, Visited, Done, pass, mk.keepGoing)
    BY FileOnTop, CallOnTop
  <1>2. /\ stack \in Seq(Calls)
        /\ StackOk(stack, command_state, deps, updating, Visited, Done, pass, mk.keepGoing)
        /\ NoFailure(rv, update_status, mk.keepGoing)
    BY <1>1, StackIs
  <1>3. stack' = Append(Front(stack), fr) /\ Top = Last(stack)
    BY DEF Becomes, Top
  <1>4. OnStack(stack') = OnStack(stack)
    BY <1>1, <1>2, <1>3, OnStackBecomes
  <1>5. Moves(Top.f, command_state, deps, updating, Visited, Done,
              command_state', deps', updating', Visited', Done')
    <2>1. PICK f : f = Top.f
      OBVIOUS
    <2>2. \A x \in Files : x # f => /\ command_state'[x] = command_state[x]
                                    /\ update_status'[x] = update_status[x] /\ deps'[x] = deps[x]
                                    /\ (x \in updating => x \in updating')
      BY <2>1
    <2>3. OnStack(stack) \subseteq OnStack(stack') \cup {f} /\ f \in OnStack(stack')
      BY <1>1, <1>4, <2>1
    <2>4. command_state[f] # "finished"
      BY <2>1
    <2>5. Moves(f, command_state, deps, updating, Visited, Done,
                command_state', deps', updating', Visited', Done')
      BY <2>2, <2>3, <2>4, MovesIs DEF Visited, Done
    <2> QED BY <2>1, <2>5
  <1>6. Visited \subseteq Visited' /\ Done \subseteq Done'
    BY <1>5, Zenon DEF Moves
  <1>7. FrameOk(fr, command_state', deps', updating', Visited', Done', pass, mk.keepGoing)
    <2>1. FileFrameOk(fr, command_state', deps', updating', Visited', Done', pass)
      BY <1>6 DEF FileFrameOk
    <2>2. ~pass => fr.f \in Visited'
      BY <1>1, <1>6 DEF FrameOk
    <2> QED BY <2>1, <2>2 DEF FrameOk
  <1>8. StackOk(stack', command_state', deps', updating', Visited', Done', pass, mk.keepGoing)
    BY <1>1, <1>2, <1>3, <1>5, <1>7, StackBecomes, ZenonT(60)
  <1>9. TopAnswered(stack', command_state', update_status', deps', rv'.status)
    <2>1. Last(stack') = fr
      BY <1>1, BecomesIs, GroupsOf
    <2> QED BY <2>1 DEF TopAnswered
  <1>10. NoFailure(rv', update_status', mk.keepGoing)
    BY <1>2
  <1>11. OnStack(stack) \subseteq OnStack(stack') \cup {Top.f} /\ Top.f \in OnStack(stack')
    BY <1>1, <1>4
  <1>12. UNCHANGED <<mk, considered, pass, goals, gi, upc>>
    OBVIOUS
  <1> QED BY <1>1, <1>5, <1>8, <1>9, <1>10, <1>11, <1>12, InnerStep

(* When all prerequisites are behind it, before the commands are started. *)
LEMMA FinishIs ==
  ASSUME UpdateInv, NEW p \in {"finish", "job"}, InFile(p), NEW f, f = Top.f
  PROVE  /\ f \in Files /\ command_state[f] \in {"not_started", "deps_running"}
         /\ f \notin jobs /\ ~updated[f] /\ update_status[f] = Unset /\ runs[f] = 0
         /\ DepFiles(deps, f) \subseteq Visited
         /\ ~Top.running /\ Top.status = 0 => DepFiles(deps, f) \subseteq Done
         /\ p = "job" => ~Top.running /\ Top.status = 0
         /\ CheckedFiles(Top, deps) = DepFiles(deps, f)
  <1>1. /\ f \in Files /\ Top.phase = p
        /\ FileFrameOk(Top, command_state, deps, updating, Visited, Done, pass)
    BY FileOnTop
  <1>2. StateAgrees(command_state, update_status, updated, jobs, runs, f)
    BY <1>1 DEF UpdateInv, StatesAgree
  <1>3. command_state[f] \in {"not_started", "deps_running"}
    BY <1>1 DEF FileFrameOk
  <1>4. f \notin jobs /\ ~updated[f] /\ update_status[f] = Unset /\ runs[f] = 0
    BY <1>2, <1>3 DEF StateAgrees
  <1>5. CheckedFiles(Top, deps) = DepFiles(deps, f)
    BY <1>1 DEF CheckedFiles, DepFiles
  <1> QED BY <1>1, <1>3, <1>4, <1>5 DEF FileFrameOk

LEMMA WaitStep ==
  ASSUME OrdinaryMakefiles, UpdateInv, UpdateTypes', WaitForPrerequisites
  PROVE  UpdateInv'
  <1>1. PICK f : f = Top.f
    OBVIOUS
  <1>2. InFile("finish")
    BY DEF WaitForPrerequisites
  <1>3. /\ f \in Files /\ command_state[f] \in {"not_started", "deps_running"}
        /\ f \notin jobs /\ ~updated[f] /\ update_status[f] = Unset /\ runs[f] = 0
        /\ DepFiles(deps, f) \subseteq Visited
    BY <1>1, <1>2, FinishIs
  <1>4. /\ updating' = updating \ {f} /\ stack' = Front(stack) /\ rv'.status = 0
        /\ command_state' = set_command_state(command_state, f, "deps_running")
        /\ UNCHANGED <<update_status, updated, runs, jobs, deps, mk, considered, pass, goals, gi,
                       upc>>
    BY <1>1 DEF WaitForPrerequisites, Return
  <1>5. command_state'[f] = "deps_running" /\ \A x \in Files : x # f => command_state'[x] = command_state[x]
    BY <1>3, <1>4, SetStateIs, GroupsOf DEF StateTypes
  <1>6. Done \subseteq Done'
    BY <1>3, <1>4, <1>5, DoneStays DEF Done
  <1>7. StateAgrees(command_state', update_status', updated', jobs', runs', f)
    BY <1>3, <1>4, <1>5 DEF StateAgrees
  <1>8. StatesAgree' /\ JobsReady'
    <2>1. StatesAgree /\ JobsReady /\ jobs \subseteq Files
      BY GroupsOf DEF UpdateInv, SetTypes
    <2> QED BY <1>4, <1>5, <1>6, <1>7, <2>1, StatesChange
  <1>9. NoFailure(rv', update_status', mk.keepGoing)
    <2>1. NoFailure(rv, update_status, mk.keepGoing)
      BY <1>2, FileOnTop, StackIs
    <2> QED BY <1>4, <2>1 DEF NoFailure
  <1>10. Answered(f, command_state', update_status', rv'.status)
    BY <1>5 DEF Answered
  <1> QED BY <1>1, <1>2, <1>3, <1>4, <1>5, <1>8, <1>9, <1>10, ReturnStep

(* A file is finished, without commands or because a prerequisite failed. *)
LEMMA FinishedStep ==
  ASSUME OrdinaryMakefiles, UpdateInv, UpdateTypes', InFile("finish"), NEW f, f = Top.f,
         NEW cs \in [Files -> {"not_started", "deps_running", "running", "finished"}],
         \A x \in Files : x # f => cs[x] = command_state[x],
         NEW us \in [Files -> {Unset, 0, 2}],
         \A x \in Files : x # f => us[x] = update_status[x],
         Finished(f, cs, us, last_mtime, disk), NEW s, Return(s, FALSE),
         us[f] = s \/ (us[f] = Unset /\ s = 0), s # Unset, ~mk.keepGoing => s = 0,
         updating' = updating \ {f},
         UNCHANGED <<runs, jobs, deps, mk, considered, pass, goals, gi, upc>>
  PROVE  UpdateInv'
  <1>1. /\ f \in Files /\ command_state[f] \in {"not_started", "deps_running"}
        /\ f \notin jobs /\ runs[f] = 0
    BY FinishIs
  <1>2. /\ command_state'[f] = "finished" /\ updated'[f]
        /\ update_status'[f] = IF us[f] = Unset THEN 0 ELSE us[f]
        /\ \A x \in Files : x # f => /\ command_state'[x] = cs[x] /\ updated'[x] = updated[x]
                                     /\ update_status'[x] = us[x]
    BY <1>1, FinishedIs, GroupsOf DEF StateTypes, FileTypes
  <1>3. update_status'[f] = s
    BY <1>2
  <1>4. \A x \in Files : x # f => /\ command_state'[x] = command_state[x]
                                  /\ update_status'[x] = update_status[x]
                                  /\ updated'[x] = updated[x]
    BY <1>2
  <1>5. Done \subseteq Done'
    <2>1. \A x \in Files : x # f => /\ command_state'[x] = command_state[x]
                                    /\ update_status'[x] = update_status[x]
      BY <1>4
    <2>2. command_state[f] # "finished"
      BY <1>1
    <2> QED BY ONLY <2>1, <2>2, DoneStays DEF Done
  <1>6. StateAgrees(command_state', update_status', updated', jobs', runs', f)
    BY <1>1, <1>2, <1>3 DEF StateAgrees
  <1>7. StatesAgree' /\ JobsReady'
    <2>1. StatesAgree /\ JobsReady /\ jobs \subseteq Files
      BY GroupsOf DEF UpdateInv, SetTypes
    <2> QED BY <1>1, <1>4, <1>5, <1>6, <2>1, StatesChange
  <1>8. stack' = Front(stack) /\ rv'.status = s
    BY DEF Return
  <1>9. NoFailure(rv', update_status', mk.keepGoing)
    <2>1. NoFailure(rv, update_status, mk.keepGoing)
      BY FileOnTop, StackIs
    <2> QED BY <1>3, <1>4, <1>8, <2>1 DEF NoFailure
  <1>10. Answered(f, command_state', update_status', rv'.status)
    BY <1>2, <1>3, <1>8 DEF Answered
  <1> QED BY <1>1, <1>2, <1>4, <1>7, <1>8, <1>9, <1>10, ReturnStep

LEMMA FinishSteps ==
  ASSUME OrdinaryMakefiles, UpdateInv, UpdateTypes',
         GiveUp \/ NoNeedToRemake \/ (RemakeWithout /\ UNCHANGED upc)
  PROVE  UpdateInv'
  <1>1. PICK f : f = Top.f
    OBVIOUS
  <1>2. InFile("finish")
    BY DEF GiveUp, NoNeedToRemake, RemakeWithout, Ready
  <1>3. /\ f \in Files /\ update_status[f] = Unset
        /\ command_state[f] \in {"not_started", "deps_running"}
    BY <1>1, <1>2, FinishIs
  <1>4. /\ command_state \in [Files -> {"not_started", "deps_running", "running", "finished"}]
        /\ update_status \in [Files -> {Unset, 0, 2}] /\ mk \in Makefiles
    BY GroupsOf DEF StateTypes
  <1>5. Top.status \in {0, 2} /\ (~mk.keepGoing => Top.status = 0)
    BY <1>2, FileOnTop, CallIs
  <1>6. PICK rs : rs = Reset(f)
    OBVIOUS
  <1>7. /\ rs \in [Files -> {"not_started", "deps_running", "running", "finished"}]
        /\ \A x \in Files : x # f => rs[x] = command_state[x]
    BY <1>3, <1>4, <1>6, SetStateIs DEF Reset
  <1>8. CASE GiveUp
    <2>1. PICK us : us = [update_status EXCEPT ![f] = Top.status]
      OBVIOUS
    <2>2. /\ us \in [Files -> {Unset, 0, 2}] /\ us[f] = Top.status
          /\ \A x \in Files : x # f => us[x] = update_status[x]
      BY <1>3, <1>4, <1>5, <2>1
    <2>3. /\ updating' = updating \ {f} /\ Return(Top.status, FALSE)
          /\ Finished(f, command_state, us, last_mtime, disk)
          /\ UNCHANGED <<runs, jobs, deps, mk, considered, pass, goals, gi, upc>>
      BY <1>1, <1>8, <2>1 DEF GiveUp
    <2>4. Top.status # Unset
      BY <1>5 DEF Unset
    <2> QED BY <1>1, <1>2, <1>4, <1>5, <2>2, <2>3, <2>4, FinishedStep
  <1>9. CASE NoNeedToRemake
    <2>1. /\ updating' = updating \ {f} /\ Return(0, FALSE)
          /\ Finished(f, rs, update_status, last_mtime, disk)
          /\ UNCHANGED <<runs, jobs, deps, mk, considered, pass, goals, gi, upc>>
      BY <1>1, <1>6, <1>9 DEF NoNeedToRemake
    <2>2. 0 # Unset
      BY DEF Unset
    <2> QED BY <1>1, <1>2, <1>3, <1>4, <1>7, <2>1, <2>2, FinishedStep
  <1>10. CASE RemakeWithout /\ UNCHANGED upc
    <2>1. PICK norule : norule = (mk.cmds[f] = "none" /\ f \notin mk.phony \cup mk.targets)
      OBVIOUS
    <2>2. PICK status : status = IF norule THEN 2 ELSE 0
      OBVIOUS
    <2>3. PICK cs : cs = IF mk.cmds[f] = "empty" THEN set_command_state(rs, f, "running") ELSE rs
      OBVIOUS
    <2>4. PICK us : us = [update_status EXCEPT ![f] = status]
      OBVIOUS
    <2>5. /\ us \in [Files -> {Unset, 0, 2}] /\ us[f] = status
          /\ \A x \in Files : x # f => us[x] = update_status[x]
      BY <1>3, <1>4, <2>2, <2>4
    <2>6. /\ cs \in [Files -> {"not_started", "deps_running", "running", "finished"}]
          /\ \A x \in Files : x # f => cs[x] = command_state[x]
      <3>1. PICK ru : ru = set_command_state(rs, f, "running")
        OBVIOUS
      <3>2. /\ ru \in [Files -> {"not_started", "deps_running", "running", "finished"}]
            /\ \A x \in Files : x # f => ru[x] = rs[x]
        BY <1>3, <1>4, <1>7, <3>1, SetStateIs
      <3>3. cs = ru \/ cs = rs
        BY <2>3, <3>1
      <3> QED BY <1>7, <3>2, <3>3
    <2>7. upc # "dying"
      BY <1>2 DEF InFile
    <2>8. /\ updating' = updating \ {f}
          /\ ~(norule /\ ~mk.keepGoing)
          /\ Finished(f, cs, us, last_mtime, disk) /\ Return(status, FALSE)
          /\ UNCHANGED <<runs, jobs, deps, mk, considered, pass, goals, gi, upc>>
      BY <1>1, <1>6, <1>10, <2>1, <2>2, <2>3, <2>4, <2>7 DEF RemakeWithout
    <2>9. status # Unset /\ (~mk.keepGoing => status = 0)
      BY <2>2, <2>8 DEF Unset
    <2>10. us[f] = status \/ (us[f] = Unset /\ status = 0)
      BY <2>5
    <2>11. Finished(f, cs, us, last_mtime, disk) /\ Return(status, FALSE)
           /\ updating' = updating \ {f}
           /\ UNCHANGED <<runs, jobs, deps, mk, considered, pass, goals, gi, upc>>
      BY <2>8, Zenon
    <2> QED BY ONLY OrdinaryMakefiles, UpdateInv, UpdateTypes', <1>1, <1>2, <2>5, <2>6, <2>9, <2>10,
                    <2>11, FinishedStep, ZenonT(60)
  <1> QED BY <1>8, <1>9, <1>10

LEMMA RemakeWithStep ==
  ASSUME OrdinaryMakefiles, UpdateInv, UpdateTypes', RemakeWith
  PROVE  UpdateInv'
  <1>1. PICK f : f = Top.f
    OBVIOUS
  <1>2. InFile("finish") /\ ~Top.running /\ Top.status = 0
    BY DEF RemakeWith, Ready
  <1>3. /\ f \in Files /\ command_state[f] \in {"not_started", "deps_running"}
        /\ f \notin jobs /\ ~updated[f] /\ update_status[f] = Unset /\ runs[f] = 0
        /\ DepFiles(deps, f) \subseteq Visited /\ DepFiles(deps, f) \subseteq Done
    BY <1>1, <1>2, FinishIs
  <1>4. PICK c : c = Top
    OBVIOUS
  <1>5. /\ c \in Calls /\ c.kind = "file" /\ (~mk.keepGoing => c.status = 0)
        /\ FileFrameOk(c, command_state, deps, updating, Visited, Done, pass)
    BY <1>2, <1>4, FileOnTop
  <1>6. PICK fr : fr = [c EXCEPT !.phase = "job"]
    OBVIOUS
  <1>7. fr \in Calls
    BY <1>5, <1>6, PhaseIs
  <1>8. /\ fr.f = c.f /\ fr.kind = "file" /\ fr.phase = "job" /\ fr.status = c.status
        /\ fr.running = c.running
    BY <1>5, <1>6 DEF Calls
  <1>9. /\ updating' = updating \ {f} /\ command_state' = Reset(f) /\ stack' = Becomes(fr)
        /\ UNCHANGED <<update_status, updated, runs, jobs, deps, mk, considered, pass, goals, gi,
                       upc, rv>>
    BY <1>1, <1>4, <1>6 DEF RemakeWith
  <1>10. /\ command_state'[f] = "not_started"
         /\ \A x \in Files : x # f => command_state'[x] = command_state[x]
    BY <1>3, <1>9, SetStateIs, GroupsOf DEF StateTypes, Reset
  <1>11. Done \subseteq Done'
    BY <1>3, <1>9, <1>10, DoneStays DEF Done
  <1>12. StateAgrees(command_state', update_status', updated', jobs', runs', f)
    BY <1>3, <1>9, <1>10 DEF StateAgrees
  <1>13. StatesAgree' /\ JobsReady'
    <2>1. StatesAgree /\ JobsReady /\ jobs \subseteq Files
      BY GroupsOf DEF UpdateInv, SetTypes
    <2> QED BY <1>9, <1>10, <1>11, <1>12, <2>1, StatesChange
  <1>14. FileFrameOk(fr, command_state', deps, updating', Visited, Done, pass)
    <2>1. CheckedFiles(fr, deps) = DepFiles(deps, f)
      BY <1>1, <1>4, <1>8 DEF CheckedFiles, DepFiles
    <2> QED BY <1>1, <1>2, <1>3, <1>4, <1>5, <1>8, <1>10, <2>1 DEF FileFrameOk
  <1>15. /\ fr.f = Top.f /\ fr.kind = "file" /\ fr.phase # "back" /\ (~mk.keepGoing => fr.status = 0)
         /\ command_state[Top.f] # "finished"
    BY <1>1, <1>3, <1>4, <1>5, <1>8
  <1>16. \A x \in Files : x # Top.f => /\ command_state'[x] = command_state[x]
                                       /\ (x \in updating => x \in updating')
    BY <1>1, <1>9, <1>10
  <1> QED BY <1>2, <1>7, <1>9, <1>13, <1>14, <1>15, <1>16, TopMoves

(* All prerequisites of a file whose commands are started are done. *)
LEMMA StartCommandsStep ==
  ASSUME OrdinaryMakefiles, UpdateInv, UpdateTypes', StartCommands
  PROVE  UpdateInv'
  <1>1. PICK f : f = Top.f
    OBVIOUS
  <1>2. InFile("job")
    BY DEF StartCommands
  <1>3. /\ f \in Files /\ command_state[f] \in {"not_started", "deps_running"}
        /\ f \notin jobs /\ ~updated[f] /\ update_status[f] = Unset /\ runs[f] = 0
        /\ DepFiles(deps, f) \subseteq Visited /\ DepFiles(deps, f) \subseteq Done
    BY <1>1, <1>2, FinishIs
  <1>4. PICK c : c = Top
    OBVIOUS
  <1>5. /\ c \in Calls /\ c.kind = "file" /\ (~mk.keepGoing => c.status = 0)
        /\ FileFrameOk(c, command_state, deps, updating, Visited, Done, pass)
    BY <1>2, <1>4, FileOnTop
  <1>6. PICK fr : fr = [c EXCEPT !.phase = "started"]
    OBVIOUS
  <1>7. fr \in Calls
    BY <1>5, <1>6, PhaseIs
  <1>8. /\ fr.f = c.f /\ fr.kind = "file" /\ fr.phase = "started" /\ fr.status = c.status
        /\ fr.running = c.running
    BY <1>5, <1>6 DEF Calls
  <1>9. /\ jobs' = jobs \cup {f} /\ stack' = Becomes(fr)
        /\ command_state' = set_command_state(command_state, f, "running")
        /\ runs' = [runs EXCEPT ![f] = @ + 1]
        /\ UNCHANGED <<update_status, updated, updating, deps, mk, considered, pass, goals, gi,
                       upc, rv>>
    BY <1>1, <1>4, <1>6 DEF StartCommands
  <1>10. /\ command_state'[f] = "running"
         /\ \A x \in Files : x # f => command_state'[x] = command_state[x]
    BY <1>3, <1>9, SetStateIs, GroupsOf DEF StateTypes
  <1>11. Done \subseteq Done'
    BY <1>3, <1>9, <1>10, DoneStays DEF Done
  <1>12. runs'[f] = 1 /\ \A x \in Files : x # f => runs'[x] = runs[x]
    BY <1>3, <1>9, GroupsOf DEF StateTypes
  <1>13. StateAgrees(command_state', update_status', updated', jobs', runs', f)
    <2>1. f \in jobs'
      BY <1>9
    <2> QED BY <1>3, <1>9, <1>10, <1>12, <2>1 DEF StateAgrees
  <1>14. StatesAgree' /\ JobsReady'
    <2>1. StatesAgree /\ JobsReady /\ jobs' \subseteq Files
      BY <1>3, <1>9, GroupsOf DEF UpdateInv, SetTypes
    <2>2. \A x \in Files : x # f =>
            /\ command_state'[x] = command_state[x] /\ update_status'[x] = update_status[x]
            /\ updated'[x] = updated[x] /\ runs'[x] = runs[x] /\ (x \in jobs' <=> x \in jobs)
      BY <1>9, <1>10, <1>12
    <2>3. f \in jobs' => f \in jobs \/ DepFiles(deps, f) \subseteq Done'
      BY <1>3, <1>11
    <2>4. UNCHANGED deps
      BY <1>9
    <2> QED BY <1>11, <1>13, <2>1, <2>2, <2>3, <2>4, StatesChange
  <1>15. FileFrameOk(fr, command_state', deps, updating', Visited, Done, pass)
    <2>1. CheckedFiles(fr, deps) = DepFiles(deps, f)
      BY <1>1, <1>4, <1>8 DEF CheckedFiles, DepFiles
    <2> QED BY <1>1, <1>3, <1>4, <1>5, <1>8, <1>9, <1>10, <2>1 DEF FileFrameOk
  <1>16. /\ fr.f = Top.f /\ fr.kind = "file" /\ fr.phase # "back" /\ (~mk.keepGoing => fr.status = 0)
         /\ command_state[Top.f] # "finished"
    BY <1>1, <1>3, <1>4, <1>5, <1>8
  <1>17. \A x \in Files : x # Top.f => /\ command_state'[x] = command_state[x]
                                       /\ (x \in updating => x \in updating')
    BY <1>1, <1>9, <1>10
  <1> QED BY <1>2, <1>7, <1>9, <1>14, <1>15, <1>16, <1>17, TopMoves

LEMMA CommandsStartedStep ==
  ASSUME UpdateInv, UpdateTypes', CommandsStarted
  PROVE  UpdateInv'
  <1>1. PICK f : f = Top.f
    OBVIOUS
  <1>2. InFile("started")
    BY DEF CommandsStarted
  <1>3. /\ f \in Files /\ Top.phase = "started" /\ LiveOk
        /\ FileFrameOk(Top, command_state, deps, updating, Visited, Done, pass)
    BY <1>1, <1>2, FileOnTop
  <1>4. command_state[f] \in {"running", "finished"}
    BY <1>1, <1>3 DEF FileFrameOk
  <1>5. /\ stack' = Front(stack)
        /\ rv'.status = IF command_state[f] = "finished" THEN update_status[f] ELSE 0
        /\ UNCHANGED <<command_state, update_status, updated, updating, runs, jobs, deps, mk,
                       considered, pass, goals, gi, upc>>
    BY <1>1 DEF CommandsStarted, Return, fileVars
  <1>6. StatesAgree' /\ JobsReady'
    BY <1>3, <1>5, StackIs, StatesSame
  <1>7. Answered(f, command_state', update_status', rv'.status)
    BY <1>4, <1>5 DEF Answered
  <1>8. NoFailure(rv', update_status', mk.keepGoing)
    <2>1. NoFailure(rv, update_status, mk.keepGoing)
      BY <1>3, StackIs
    <2>2. rv'.status \in {0, 2}
      BY DEF UpdateTypes, CallTypes
    <2> QED BY <1>3, <1>5, <2>1, <2>2 DEF NoFailure
  <1> QED BY <1>1, <1>2, <1>4, <1>5, <1>6, <1>7, <1>8, ReturnStep

-----------------------------------------------------------------------------
(* update_file: a file that is pruned was visited, so the answer for it    *)
(* holds; a file that is considered is not on the stack yet.               *)

LEMMA SettledAnswers ==
  ASSUME UpdateInv, LiveOk, NEW f \in Files, Settled(f), f \notin OnStack(stack),
         ~pass => f \in Visited
  PROVE  /\ f \in Visited
         /\ Answered(f, command_state, update_status, SettledStatus(f))
         /\ ~mk.keepGoing => SettledStatus(f) = 0
  <1>1. /\ StateAgrees(command_state, update_status, updated, jobs, runs, f)
        /\ PassOk(stack, command_state, deps, considered, Visited)
        /\ NoFailure(rv, update_status, mk.keepGoing)
    BY StackIs DEF StatesAgree
  <1>2. /\ command_state[f] \in {"not_started", "deps_running", "running", "finished"}
        /\ update_status[f] \in {Unset, 0, 2} /\ pass \in BOOLEAN
    BY GroupsOf DEF StateTypes, SetTypes
  <1>3. f \in Visited
    <2>1. CASE considered[f] = pass
      BY <1>1, <1>2, <2>1 DEF PassOk
    <2>2. CASE updated[f] \/ command_state[f] \in {"running", "finished"}
      <3>1. command_state[f] # "not_started"
        BY <1>1, <2>2 DEF StateAgrees
      <3> QED BY <3>1 DEF Visited, VisitedFiles
    <2> QED BY <2>1, <2>2 DEF Settled
  <1>4. command_state[f] # "not_started"
    BY <1>3 DEF Visited, VisitedFiles
  <1>5. ASSUME command_state[f] = "finished", SettledStatus(f) = 0
        PROVE  update_status[f] = 0
    <2>1. update_status[f] \in {0, 2}
      BY <1>1, <1>2, <1>5 DEF StateAgrees
    <2>2. ~(update_status[f] > 0)
      BY <1>5, <2>1 DEF SettledStatus
    <2> QED BY <2>1, <2>2
  <1>6. ~mk.keepGoing => SettledStatus(f) = 0
    <2>1. ASSUME ~mk.keepGoing
          PROVE  SettledStatus(f) = 0
      <3>1. update_status[f] # 2
        BY <1>1, <2>1 DEF NoFailure
      <3>2. ~(update_status[f] > 0)
        BY <1>2, <3>1 DEF Unset
      <3> QED BY <3>2 DEF SettledStatus
    <2> QED BY <2>1
  <1> QED BY <1>3, <1>4, <1>5, <1>6 DEF Answered

LEMMA NewFile ==
  ASSUME UpdateInv, LiveOk, NEW f \in Files, ~Settled(f), f \notin OnStack(stack),
         ~pass => f \in Visited,
         NEW must \in BOOLEAN, NEW this \in Nat, NEW g, g = Frame("file", f, must, this),
         NEW V, Visited \subseteq V, NEW D, f \in V, NEW ud, f \in ud
  PROVE  /\ g \in Calls /\ g.f = f /\ g.kind = "file" /\ g.phase = "dep"
         /\ FrameOk(g, command_state, deps, ud, V, D, pass, mk.keepGoing)
  <1>1. g \in Calls
    BY FrameIs
  <1>2. g.f = f /\ g.kind = "file" /\ g.phase = "dep" /\ g.i = 1 /\ g.status = 0
    BY DEF Frame
  <1>3. command_state[f] \in {"not_started", "deps_running"}
    <2>1. command_state[f] \in {"not_started", "deps_running", "running", "finished"}
      BY GroupsOf DEF StateTypes
    <2> QED BY <2>1 DEF Settled
  <1>4. CheckedFiles(g, deps) = {}
    <2>1. deps[f] \in Seq([file : Files, order : BOOLEAN])
      BY GroupsOf DEF DepTypes
    <2>2. \A k \in DOMAIN deps[f] : ~(k < 1)
      BY <2>1
    <2> QED BY <1>2, <2>2 DEF CheckedFiles
  <1>5. ASSUME ~pass
        PROVE  DepFiles(deps, f) \subseteq V
    <2>1. f \in Visited
      BY <1>5
    <2>2. command_state[f] = "deps_running"
      BY <1>3, <2>1 DEF Visited, VisitedFiles
    <2>3. DepFiles(deps, f) \subseteq Visited
      BY <2>2, StackIs DEF PassOk
    <2> QED BY <2>3
  <1>6. FileFrameOk(g, command_state, deps, ud, V, D, pass)
    BY <1>2, <1>3, <1>4, <1>5 DEF FileFrameOk
  <1> QED BY <1>1, <1>2, <1>6 DEF FrameOk

LEMMA CheckOrdinaryStep ==
  ASSUME UpdateInv, UpdateTypes', CheckOrdinary
  PROVE  UpdateInv'
  <1>1. PICK c : c = Top
    OBVIOUS
  <1>2. PICK f : f = c.f
    OBVIOUS
  <1>3. /\ c \in Calls /\ f \in Files /\ LiveOk /\ upc = "pass" /\ stack # <<>>
        /\ c.kind = "check" /\ f \notin OnStack(stack) /\ c = Last(stack)
        /\ ~mk.keepGoing => c.status = 0
        /\ ~pass => f \in Visited
    BY <1>1, <1>2, CheckOnTop DEF CheckOrdinary, Top
  <1>4. /\ stack \in Seq(Calls) /\ StatesAgree /\ JobsReady
        /\ StackOk(stack, command_state, deps, updating, Visited, Done, pass, mk.keepGoing)
        /\ NoFailure(rv, update_status, mk.keepGoing)
        /\ PassOk(stack, command_state, deps, considered, Visited)
    BY <1>3, StackIs
  <1>5. PICK fr : fr = [c EXCEPT !.phase = "updated"]
    OBVIOUS
  <1>6. fr \in Calls
    BY <1>3, <1>5, PhaseIs
  <1>7. fr.f = f /\ fr.kind = "check" /\ fr.phase = "updated" /\ fr.status = c.status
    BY <1>2, <1>3, <1>5 DEF Calls
  <1>8. PICK st : st = Becomes(fr)
    OBVIOUS
  <1>9. st \in Seq(Calls) /\ st # <<>> /\ Last(st) = fr /\ st = Append(Front(stack), fr)
    BY <1>3, <1>6, <1>8, BecomesIs, GroupsOf DEF Becomes
  <1>10. OnStack(st) = OnStack(stack)
    BY <1>2, <1>3, <1>4, <1>6, <1>7, <1>9, OnStackBecomes
  <1>11. /\ update_file(f, st)
         /\ UNCHANGED <<command_state, update_status, updated, jobs, runs, deps, mk, pass, goals,
                        gi, upc>>
    BY <1>1, <1>2, <1>5, <1>8, Zenon DEF CheckOrdinary
  <1>12. considered' = [considered EXCEPT ![f] = pass] /\ considered \in [Files -> BOOLEAN]
    BY <1>11, GroupsOf DEF update_file, SetTypes
  <1>13. StatesAgree' /\ JobsReady' /\ Done' = Done
    BY <1>4, <1>11, StatesSame
  <1>14. ~mk.keepGoing => fr.status = 0
    BY <1>3, <1>7
  <1>15. CASE Settled(f)
    <2>1. stack' = st /\ rv' = [rv EXCEPT !.status = SettledStatus(f)] /\ UNCHANGED updating
      BY <1>11, <1>15 DEF update_file
    <2>2. /\ f \in Visited
          /\ Answered(f, command_state, update_status, SettledStatus(f))
          /\ ~mk.keepGoing => SettledStatus(f) = 0
      BY <1>3, <1>15, SettledAnswers
    <2>3. Visited' = Visited
      BY <1>10, <1>11, <2>1, Zenon DEF Visited, VisitedFiles
    <2>4. rv'.status = SettledStatus(f)
      BY <2>1, GroupsOf DEF CallTypes
    <2>5. Moves(f, command_state, deps, updating, Visited, Done,
                command_state, deps, updating, Visited, Done)
      BY DEF Moves
    <2>6. FrameOk(fr, command_state, deps, updating, Visited, Done, pass, mk.keepGoing)
      BY <1>3, <1>7, <1>14 DEF FrameOk
    <2>7. StackOk(st, command_state, deps, updating, Visited, Done, pass, mk.keepGoing)
      <3>1. /\ Moves(Last(stack).f, command_state, deps, updating, Visited, Done,
                     command_state, deps, updating, Visited, Done)
            /\ fr.f = Last(stack).f /\ fr.kind = Last(stack).kind
        BY <1>2, <1>3, <1>7, <2>5
      <3> QED BY <1>3, <1>4, <1>6, <1>9, <2>6, <3>1, StackBecomes, Zenon
    <2>8. TopAnswered(stack', command_state', update_status', deps', rv'.status)
      BY <1>7, <1>9, <1>11, <2>1, <2>2, <2>4 DEF TopAnswered
    <2>9. NoFailure(rv', update_status', mk.keepGoing)
      BY <1>4, <1>11, <2>2, <2>4 DEF NoFailure
    <2>10. \A x \in Files : x \notin Visited' => considered'[x] = considered[x]
      BY <1>12, <2>2, <2>3
    <2>11. Moves(f, command_state, deps, updating, Visited, Done,
                 command_state', deps', updating', Visited', Done')
      BY <1>11, <1>13, <2>1, <2>3, <2>5
    <2>12. StackOk(stack', command_state', deps', updating', Visited', Done', pass, mk.keepGoing)
      BY <1>11, <1>13, <2>1, <2>3, <2>7
    <2>13. OnStack(stack) \subseteq OnStack(stack') \cup {f}
      BY <1>10, <2>1
    <2>14. command_state'[f] = "deps_running" /\ f \notin OnStack(stack') =>
             DepFiles(deps', f) \subseteq Visited'
      BY <1>3, <1>4, <1>11, <2>3 DEF PassOk
    <2>15. UNCHANGED <<mk, pass, goals, gi, upc>>
      BY <1>11
    <2> QED BY <1>3, <1>13, <2>8, <2>9, <2>10, <2>11, <2>12, <2>13, <2>14, <2>15,
               InnerStepConsidered
  <1>16. CASE ~Settled(f)
    <2>1. PICK g : g = Frame("file", f, mtime(f) = Nonexistent, mtime(f))
      OBVIOUS
    <2>2. updating' = updating \cup {f} /\ stack' = Append(st, g) /\ UNCHANGED rv
      BY <1>11, <1>16, <2>1 DEF update_file
    <2>3. mtime(f) \in Nat
      BY <1>3, TimeIs, GroupsOf
    <2>4. g \in Calls /\ g.kind = "file" /\ g.f = f
      BY <1>3, <2>1, <2>3, FrameIs DEF Frame
    <2>5. OnStack(stack) \subseteq OnStack(stack') /\ f \in OnStack(stack')
      BY <1>9, <1>10, <2>2, <2>4, OnStackPushed
    <2>6. Moves(f, command_state, deps, updating, Visited, Done,
                command_state', deps', updating', Visited', Done')
      <3>1. \A x \in Files : x # f =>
              /\ command_state'[x] = command_state[x] /\ update_status'[x] = update_status[x]
              /\ deps'[x] = deps[x] /\ (x \in updating => x \in updating')
        BY <1>11, <2>2
      <3>2. OnStack(stack) \subseteq OnStack(stack') \cup {f}
        BY <2>5
      <3>3. command_state'[f] = command_state[f] /\ update_status'[f] = update_status[f]
        BY <1>11
      <3> QED BY <2>5, <3>1, <3>2, <3>3, MovesIs DEF Visited, Done
    <2>7. Visited \subseteq Visited' /\ Done \subseteq Done'
      BY <2>6, Zenon DEF Moves
    <2>8. f \in Visited'
      BY <2>5 DEF Visited, VisitedFiles
    <2>9. /\ g.phase = "dep"
          /\ FrameOk(g, command_state, deps, updating', Visited', Done', pass, mk.keepGoing)
      <3>1. PICK must \in BOOLEAN : must = (mtime(f) = Nonexistent)
        OBVIOUS
      <3>2. PICK this \in Nat : this = mtime(f)
        BY <2>3
      <3>3. g = Frame("file", f, must, this) /\ f \in updating'
        BY <2>1, <2>2, <3>1, <3>2
      <3>4. PICK V, D, ud : V = Visited' /\ D = Done' /\ ud = updating'
        OBVIOUS
      <3>5. /\ f \in Files /\ LiveOk /\ ~Settled(f) /\ f \notin OnStack(stack)
            /\ ~pass => f \in Visited
            /\ Visited \subseteq V /\ f \in V /\ f \in ud
        BY <1>3, <1>16, <2>7, <2>8, <3>3, <3>4
      <3>6. g.phase = "dep" /\ FrameOk(g, command_state, deps, ud, V, D, pass, mk.keepGoing)
        <4>1. f \in Files /\ LiveOk /\ ~Settled(f) /\ f \notin OnStack(stack)
          BY <3>5
        <4>2. ~pass => f \in Visited
          BY <3>5
        <4>3. Visited \subseteq V /\ f \in V /\ f \in ud
          BY <3>5
        <4>4. g = Frame("file", f, must, this)
          BY <3>3
        <4> QED BY ONLY UpdateInv, must \in BOOLEAN, this \in Nat, <4>1, <4>2, <4>3, <4>4, NewFile, SMT
      <3> QED BY <3>4, <3>6, Zenon
    <2>10. FrameOk(fr, command_state, deps, updating', Visited', Done', pass, mk.keepGoing)
      BY <1>7, <1>14, <2>8 DEF FrameOk
    <2>11. StackOk(st, command_state', deps', updating', Visited', Done', pass, mk.keepGoing)
      <3>1. FrameOk(fr, command_state', deps', updating', Visited', Done', pass, mk.keepGoing)
        BY <1>11, <2>10
      <3>2. /\ Moves(Last(stack).f, command_state, deps, updating, Visited, Done,
                     command_state', deps', updating', Visited', Done')
            /\ fr.f = Last(stack).f /\ fr.kind = Last(stack).kind
        BY <1>2, <1>3, <1>7, <2>6
      <3> QED BY <1>3, <1>4, <1>6, <1>9, <3>1, <3>2, StackBecomes, Zenon
    <2>12. StackOk(stack', command_state', deps', updating', Visited', Done', pass, mk.keepGoing)
      <3>1. FrameOk(g, command_state', deps', updating', Visited', Done', pass, mk.keepGoing)
        BY <1>11, <2>9
      <3>2. Nested(Last(st), g, deps')
        BY <1>7, <1>9, <2>4 DEF Nested
      <3>3. g.f \notin OnStack(st)
        BY <1>3, <1>10, <2>4
      <3> QED BY <1>9, <2>2, <2>4, <2>11, <3>1, <3>2, <3>3, StackPushed
    <2>13. TopAnswered(stack', command_state', update_status', deps', rv'.status)
      <3>1. Last(stack') = g
        BY <1>9, <2>2, <2>4, LastPushed
      <3> QED BY <2>4, <2>9, <3>1 DEF TopAnswered
    <2>14. NoFailure(rv', update_status', mk.keepGoing)
      BY <1>4, <1>11, <2>2 DEF NoFailure
    <2>15. \A x \in Files : x \notin Visited' => considered'[x] = considered[x]
      BY <1>12, <2>8
    <2>16. OnStack(stack) \subseteq OnStack(stack') \cup {f}
      BY <2>5
    <2>17. UNCHANGED <<mk, pass, goals, gi, upc>>
      BY <1>11
    <2> QED BY <1>3, <1>13, <2>5, <2>6, <2>12, <2>13, <2>14, <2>15, <2>16, <2>17,
               InnerStepConsidered
  <1> QED BY <1>15, <1>16

LEMMA OrdinaryUpdatedStep ==
  ASSUME UpdateInv, UpdateTypes', OrdinaryUpdated
  PROVE  UpdateInv'
  <1>1. PICK f : f = Top.f
    OBVIOUS
  <1>2. /\ f \in Files /\ LiveOk /\ upc = "pass" /\ stack # <<>>
        /\ Top.kind = "check" /\ Top.phase = "updated" /\ f \notin OnStack(stack)
        /\ Top = Last(stack)
    BY <1>1, CheckOnTop DEF OrdinaryUpdated, Top
  <1>3. /\ stack \in Seq(Calls) /\ StatesAgree /\ JobsReady
        /\ StackOk(stack, command_state, deps, updating, Visited, Done, pass, mk.keepGoing)
        /\ NoFailure(rv, update_status, mk.keepGoing)
        /\ PassOk(stack, command_state, deps, considered, Visited)
        /\ TopAnswered(stack, command_state, update_status, deps, rv.status)
    BY <1>2, StackIs
  <1>4. /\ updating' = updating \ {f} /\ stack' = Front(stack) /\ rv'.status = rv.status
        /\ UNCHANGED <<command_state, update_status, updated, jobs, runs, deps, mk, considered,
                       pass, goals, gi, upc>>
    BY <1>1 DEF OrdinaryUpdated, Return
  <1>5. Answered(f, command_state, update_status, rv.status)
    BY <1>1, <1>2, <1>3 DEF TopAnswered
  <1>6. OnStack(stack) \subseteq OnStack(stack')
    BY <1>2, <1>3, <1>4, OnStackPopped
  <1>7. Moves(f, command_state, deps, updating, Visited, Done,
              command_state', deps', updating', Visited', Done')
    <2>1. command_state'[f] # "not_started" /\ OnStack(stack) \subseteq OnStack(stack') \cup {f}
      BY <1>4, <1>5, <1>6 DEF Answered
    <2>2. \A x \in Files : x # f =>
            /\ command_state'[x] = command_state[x] /\ update_status'[x] = update_status[x]
            /\ deps'[x] = deps[x] /\ (x \in updating => x \in updating')
      BY <1>4
    <2>3. command_state'[f] = command_state[f] /\ update_status'[f] = update_status[f]
      BY <1>4
    <2> QED BY <2>1, <2>2, <2>3, MovesIs DEF Visited, Done
  <1>8. StackOk(stack', command_state', deps', updating', Visited', Done', pass, mk.keepGoing)
    BY <1>1, <1>2, <1>3, <1>4, <1>7, StackPopped
  <1>9. TopAnswered(stack', command_state', update_status', deps', rv'.status)
    <2>1. TopAnswered(stack', command_state, update_status, deps, rv.status)
      BY <1>1, <1>2, <1>3, <1>4, <1>5, CheckAnswers
    <2> QED BY <1>4, <2>1
  <1>10. StatesAgree' /\ JobsReady'
    BY <1>3, <1>4, StatesSame
  <1>11. NoFailure(rv', update_status', mk.keepGoing)
    BY <1>3, <1>4 DEF NoFailure
  <1>12. command_state'[f] = "deps_running" /\ f \notin OnStack(stack') =>
           DepFiles(deps', f) \subseteq Visited'
    <2>1. Visited \subseteq Visited'
      BY <1>7, Zenon DEF Moves
    <2> QED BY <1>2, <1>3, <1>4, <2>1 DEF PassOk
  <1>13. OnStack(stack) \subseteq OnStack(stack') \cup {f} /\ UNCHANGED <<mk, considered, pass, goals, gi, upc>>
    BY <1>4, <1>6
  <1> QED BY <1>2, <1>7, <1>8, <1>9, <1>10, <1>11, <1>12, <1>13, InnerStep

-----------------------------------------------------------------------------
(* Steps between the goals and between the passes: no call is under way.   *)

LEMMA EmptyStack ==
  ASSUME NEW cs, NEW us, NEW dp, NEW ud, NEW V, NEW D, NEW pa, NEW keep, NEW s
  PROVE  /\ OnStack(<<>>) = {} /\ StackOk(<<>>, cs, dp, ud, V, D, pa, keep)
         /\ TopAnswered(<<>>, cs, us, dp, s)
  <1>1. PICK st : st = <<>>
    OBVIOUS
  <1>2. Len(st) = 0
    BY <1>1
  <1>3. OnStack(st) = {} /\ StackOk(st, cs, dp, ud, V, D, pa, keep)
    BY <1>2 DEF OnStack, StackOk
  <1>4. TopAnswered(st, cs, us, dp, s)
    BY <1>1 DEF TopAnswered
  <1> QED BY <1>1, <1>3, <1>4

LEMMA IdleStep ==
  ASSUME UpdateInv, UpdateTypes', Live, stack = <<>>, upc' # "exited",
         UNCHANGED <<mk, deps, command_state, update_status, updated, considered, stack, rv,
                     jobs, runs>>,
         upc' # "dying" => GoalsOk(upc', goals', gi', pass', Visited)
  PROVE  UpdateInv'
  <1>1. LiveOk
    BY DEF UpdateInv
  <1>2. StatesAgree' /\ JobsReady' /\ Done' = Done
    BY <1>1, StackIs, StatesSame
  <1>3. Visited' = Visited
    BY Zenon DEF Visited
  <1>4. /\ NoFailure(rv, update_status, mk.keepGoing)
        /\ PassOk(stack, command_state, deps, considered, Visited)
    BY <1>1, StackIs
  <1>5. /\ NoFailure(rv', update_status', mk'.keepGoing)
        /\ PassOk(stack', command_state', deps', considered', Visited')
    BY <1>3, <1>4
  <1>6. /\ StackOk(stack', command_state', deps', updating', Visited', Done', pass', mk'.keepGoing)
        /\ TopAnswered(stack', command_state', update_status', deps', rv'.status)
    <2>1. stack' = <<>>
      OBVIOUS
    <2> QED BY <2>1, EmptyStack
  <1>7. Live' => GoalsOk(upc', goals', gi', pass', Visited')
    BY <1>3 DEF Live
  <1>8. stack' = <<>>
    OBVIOUS
  <1>9. Live' => LiveOk'
    BY <1>5, <1>6, <1>7, <1>8, Zenon DEF LiveOk
  <1> QED BY <1>2, <1>9, Zenon DEF UpdateInv

LEMMA GoalSteps ==
  ASSUME UpdateInv, UpdateTypes', BeginPass \/ GoalConsidered \/ EndPass
  PROVE  UpdateInv'
  <1>1. goals \in Seq(Files) /\ gi \in Nat \ {0} /\ pass \in BOOLEAN
    BY GroupsOf DEF GoalTypes, SetTypes
  <1>2. /\ Live /\ upc' # "exited"
        /\ UNCHANGED <<mk, deps, command_state, update_status, updated, considered, stack, rv,
                       jobs, runs>>
        /\ stack = <<>> \/ upc # "pass"
    BY DEF BeginPass, GoalConsidered, EndPass, Live, fileVars
  <1>3. LiveOk
    BY <1>2 DEF UpdateInv
  <1>4. stack = <<>> /\ GoalsOk(upc, goals, gi, pass, Visited)
    BY <1>2, <1>3 DEF LiveOk
  <1>5. PICK n \in Nat : Len(goals) = n
    BY <1>1
  <1>6. PICK V : V = Visited
    OBVIOUS
  <1>7. CASE BeginPass
    <2>1. UNCHANGED <<goals, pass>> /\ upc' = "goal" /\ gi' = 1
      BY <1>7 DEF BeginPass
    <2>2. GoalsOk("goal", goals, 1, pass, Visited)
      BY <1>4 DEF GoalsOk
    <2> QED BY <1>2, <1>4, <2>1, <2>2, IdleStep
  <1>8. CASE GoalConsidered
    <2>1. upc = "pass" /\ upc' = "goal" /\ UNCHANGED pass
      BY <1>8 DEF GoalConsidered
    <2>2. /\ gi <= n /\ \A k \in 1 .. gi : goals[k] \in V
          /\ ~pass => \A k \in 1 .. n : goals[k] \in V
      BY <1>4, <1>5, <1>6, <2>1 DEF GoalsOk
    <2>3. CASE updated[goals[gi]]
      <3>1. goals' = RemoveAt(goals, gi) /\ gi' = gi
        BY <1>8, <2>3 DEF GoalConsidered
      <3>2. gi \in DOMAIN goals
        BY <1>1, <1>5, <2>2
      <3>3. WithoutOne(goals', goals, gi, Files)
        BY <1>1, <3>1, <3>2, OneRemoved
      <3>4. PICK g : g = goals'
        OBVIOUS
      <3>5. Len(g) = n - 1 /\ \A k \in 1 .. n - 1 : g[k] = IF k < gi THEN goals[k] ELSE goals[k + 1]
        BY <1>5, <3>3, <3>4 DEF WithoutOne
      <3>6. \A k \in 1 .. gi - 1 : k <= Len(g) => g[k] \in V
        BY <1>1, <2>2, <3>5
      <3>7. ~pass => \A k \in 1 .. Len(g) : g[k] \in V
        <4>1. ASSUME ~pass, NEW k \in 1 .. Len(g)
              PROVE  g[k] \in V
          <5>1. k \in 1 .. n /\ k + 1 \in 1 .. n /\ k \in 1 .. n - 1
            BY <3>5
          <5>2. goals[k] \in V /\ goals[k + 1] \in V
            BY <2>2, <4>1, <5>1
          <5> QED BY <3>5, <5>1, <5>2
        <4> QED BY <4>1
      <3>8. GoalsOk("goal", g, gi, pass, V)
        BY <3>6, <3>7 DEF GoalsOk
      <3> QED BY <1>2, <1>4, <1>6, <2>1, <3>1, <3>4, <3>8, IdleStep
    <2>4. CASE ~updated[goals[gi]]
      <3>1. goals' = goals /\ gi' = gi + 1
        BY <1>8, <2>4 DEF GoalConsidered
      <3>2. PICK i : i = gi + 1
        OBVIOUS
      <3>3. i - 1 = gi
        BY <1>1, <3>2
      <3>4. GoalsOk("goal", goals, i, pass, V)
        BY <1>5, <2>2, <3>3 DEF GoalsOk
      <3> QED BY <1>2, <1>4, <1>6, <2>1, <3>1, <3>2, <3>4, IdleStep
    <2> QED BY <2>3, <2>4
  <1>9. CASE EndPass
    <2>1. /\ upc = "goal" /\ gi > n /\ UNCHANGED <<goals, gi>> /\ upc' \in {"dying", "wait"}
          /\ pass' = ~pass
      BY <1>5, <1>9 DEF EndPass, NextPass
    <2>2. \A k \in 1 .. n : goals[k] \in V
      <3>1. \A k \in 1 .. gi - 1 : k <= n => goals[k] \in V
        BY <1>4, <1>5, <1>6, <2>1 DEF GoalsOk
      <3> QED BY <1>1, <2>1, <3>1
    <2>3. upc' # "dying" => GoalsOk(upc', goals', gi', pass', Visited)
      BY <1>5, <1>6, <2>1, <2>2 DEF GoalsOk
    <2> QED BY <1>2, <1>4, <2>3, IdleStep
  <1> QED BY <1>7, <1>8, <1>9

LEMMA UpdateGoalStep ==
  ASSUME UpdateInv, UpdateTypes', UpdateGoal
  PROVE  UpdateInv'
  <1>1. PICK f : f = goals[gi]
    OBVIOUS
  <1>2. /\ goals \in Seq(Files) /\ gi \in Nat \ {0} /\ pass \in BOOLEAN /\ mk \in Makefiles
        /\ considered \in [Files -> BOOLEAN]
    BY GroupsOf DEF GoalTypes, SetTypes
  <1>3. /\ upc = "goal" /\ upc' = "pass" /\ gi <= Len(goals) /\ update_file(f, <<>>)
        /\ UNCHANGED <<command_state, update_status, updated, jobs, runs, deps, mk, pass, goals, gi>>
    BY <1>1 DEF UpdateGoal
  <1>4. LiveOk
    BY <1>3 DEF UpdateInv, Live
  <1>5. /\ stack = <<>> /\ GoalsOk("goal", goals, gi, pass, Visited) /\ StatesAgree /\ JobsReady
        /\ NoFailure(rv, update_status, mk.keepGoing)
        /\ PassOk(stack, command_state, deps, considered, Visited)
    BY <1>3, <1>4, StackIs DEF LiveOk
  <1>6. f \in Files
    BY <1>1, <1>2, <1>3
  <1>7. PICK n \in Nat : Len(goals) = n
    BY <1>2
  <1>8. OnStack(stack) = {} /\ f \notin OnStack(stack)
    BY <1>5, EmptyStack
  <1>9. /\ \A k \in 1 .. gi - 1 : goals[k] \in Visited
        /\ ~pass => \A k \in 1 .. n : goals[k] \in Visited
    BY <1>2, <1>3, <1>5, <1>7 DEF GoalsOk
  <1>10. ~pass => f \in Visited
    BY <1>1, <1>2, <1>3, <1>7, <1>9
  <1>11. considered' = [considered EXCEPT ![f] = pass]
    BY <1>3 DEF update_file
  <1>12. StatesAgree' /\ JobsReady' /\ Done' = Done
    BY <1>3, <1>5, StatesSame
  <1>13. ASSUME Visited \subseteq Visited', f \in Visited'
         PROVE  GoalsOk(upc', goals', gi', pass', Visited')
    <2>1. PICK V : V = Visited'
      OBVIOUS
    <2>2. /\ \A k \in 1 .. gi : goals[k] \in V
          /\ ~pass => \A k \in 1 .. n : goals[k] \in V
      BY <1>1, <1>2, <1>9, <1>13, <2>1
    <2>3. GoalsOk("pass", goals, gi, pass, V)
      BY <1>3, <1>7, <2>2 DEF GoalsOk
    <2> QED BY <1>3, <2>1, <2>3
  <1>14. ASSUME Visited \subseteq Visited', f \in Visited', OnStack(stack) \subseteq OnStack(stack')
         PROVE  PassOk(stack', command_state', deps', considered', Visited')
    <2>1. \A x \in Files : x \notin Visited' => ~considered'[x]
      BY <1>2, <1>5, <1>11, <1>14 DEF PassOk
    <2>2. ASSUME NEW x \in Files, command_state'[x] = "deps_running", x \notin OnStack(stack')
          PROVE  DepFiles(deps', x) \subseteq Visited'
      <3>1. DepFiles(deps, x) \subseteq Visited
        BY <1>3, <1>5, <1>14, <2>2 DEF PassOk
      <3> QED BY <1>3, <1>14, <3>1
    <2> QED BY <2>1, <2>2, Zenon DEF PassOk
  <1>15. CASE Settled(f)
    <2>1. stack' = <<>> /\ rv' = [rv EXCEPT !.status = SettledStatus(f)]
      BY <1>3, <1>15 DEF update_file
    <2>2. /\ f \in Visited
          /\ ~mk.keepGoing => SettledStatus(f) = 0
      BY <1>4, <1>6, <1>8, <1>10, <1>15, SettledAnswers
    <2>3. Visited' = Visited
      BY <1>3, <1>5, <2>1, Zenon DEF Visited
    <2>4. rv'.status = SettledStatus(f)
      BY <2>1, GroupsOf DEF CallTypes
    <2>5. NoFailure(rv', update_status', mk'.keepGoing)
      BY <1>3, <1>5, <2>2, <2>4 DEF NoFailure
    <2>6. /\ StackOk(stack', command_state', deps', updating', Visited', Done', pass', mk'.keepGoing)
          /\ TopAnswered(stack', command_state', update_status', deps', rv'.status)
      BY <2>1, EmptyStack
    <2>7. PassOk(stack', command_state', deps', considered', Visited')
      BY <1>5, <1>14, <2>1, <2>2, <2>3
    <2>8. GoalsOk(upc', goals', gi', pass', Visited')
      BY <1>13, <2>2, <2>3
    <2>9. LiveOk'
      BY <1>3, <2>5, <2>6, <2>7, <2>8, Zenon DEF LiveOk
    <2>10. upc' # "exited"
      BY <1>3
    <2> QED BY <1>12, <2>9, <2>10, Zenon DEF UpdateInv
  <1>16. CASE ~Settled(f)
    <2>1. mtime(f) \in Nat
      BY <1>6, TimeIs, GroupsOf
    <2>2. PICK must \in BOOLEAN : must = (mtime(f) = Nonexistent)
      OBVIOUS
    <2>3. PICK this \in Nat : this = mtime(f)
      BY <2>1
    <2>4. PICK g : g = Frame("file", f, must, this)
      OBVIOUS
    <2>5. updating' = updating \cup {f} /\ stack' = Append(<<>>, g) /\ UNCHANGED rv
      BY <1>3, <1>16, <2>2, <2>3, <2>4 DEF update_file
    <2>6. PICK st : st = stack
      OBVIOUS
    <2>7. st \in Seq(Calls) /\ st = <<>> /\ stack' = Append(st, g)
      BY <1>5, <2>5, <2>6
    <2>8. g \in Calls /\ g.kind = "file" /\ g.f = f
      BY <1>6, <2>2, <2>3, <2>4, FrameIs DEF Frame
    <2>9. f \in OnStack(stack')
      BY <2>7, <2>8, OnStackPushed
    <2>10. f \in Visited' /\ Visited \subseteq Visited'
      BY <1>3, <1>8, <2>9 DEF Visited, VisitedFiles
    <2>11. PICK V, D, ud : V = Visited' /\ D = Done' /\ ud = updating'
      OBVIOUS
    <2>12. g.phase = "dep" /\ FrameOk(g, command_state, deps, ud, V, D, pass, mk.keepGoing)
      <3>1. f \in Files /\ LiveOk /\ ~Settled(f) /\ f \notin OnStack(stack)
        BY <1>4, <1>6, <1>8, <1>16
      <3>2. ~pass => f \in Visited
        BY <1>10
      <3>3. Visited \subseteq V /\ f \in V /\ f \in ud
        BY <2>5, <2>10, <2>11
      <3> QED BY ONLY UpdateInv, must \in BOOLEAN, this \in Nat, <3>1, <3>2, <3>3, <2>4, NewFile, SMT
    <2>13. StackOk(st, command_state, deps, ud, V, D, pass, mk.keepGoing) /\ OnStack(st) = {}
      BY <2>7, EmptyStack
    <2>14. StackOk(stack', command_state, deps, ud, V, D, pass, mk.keepGoing)
      <3>1. PICK t : t = Append(st, g)
        OBVIOUS
      <3>2. st # <<>> => Nested(Last(st), g, deps)
        BY <2>7
      <3>3. g.f \notin OnStack(st)
        BY <2>13
      <3>4. StackOk(t, command_state, deps, ud, V, D, pass, mk.keepGoing)
        BY <2>7, <2>8, <2>12, <2>13, <3>1, <3>2, <3>3, StackPushed
      <3> QED BY <2>7, <3>1, <3>4
    <2>15. StackOk(stack', command_state', deps', updating', Visited', Done', pass', mk'.keepGoing)
      BY <1>3, <2>11, <2>14
    <2>16. TopAnswered(stack', command_state', update_status', deps', rv'.status)
      <3>1. Last(stack') = g
        BY <2>7, <2>8, LastPushed
      <3> QED BY <2>8, <2>12, <3>1 DEF TopAnswered
    <2>17. NoFailure(rv', update_status', mk'.keepGoing)
      BY <1>3, <1>5, <2>5
    <2>18. PassOk(stack', command_state', deps', considered', Visited')
      BY <1>8, <1>14, <2>10
    <2>19. GoalsOk(upc', goals', gi', pass', Visited')
      BY <1>13, <2>10
    <2>20. LiveOk'
      BY <1>3, <2>15, <2>16, <2>17, <2>18, <2>19, Zenon DEF LiveOk
    <2>21. upc' # "exited"
      BY <1>3
    <2> QED BY <1>12, <2>20, <2>21, Zenon DEF UpdateInv
  <1> QED BY <1>15, <1>16

-----------------------------------------------------------------------------
(* Commands end. *)

(* The call that has started the commands does not mind that they end. *)
LEMMA FrameReaped ==
  ASSUME NEW fr \in Calls, NEW j, NEW cs, NEW dp, NEW ud, NEW V, NEW D, NEW cs2, NEW V2, NEW D2,
         NEW pa, NEW keep, FrameOk(fr, cs, dp, ud, V, D, pa, keep),
         cs[j] = "running", cs2[j] = "finished", V \subseteq V2, D \subseteq D2,
         \A x \in Files : x # j => cs2[x] = cs[x]
  PROVE  FrameOk(fr, cs2, dp, ud, V2, D2, pa, keep)
  <1>1. CASE fr.f = j
    <2>1. ASSUME fr.kind = "file"
          PROVE  FileFrameOk(fr, cs2, dp, ud, V2, D2, pa)
      <3>1. FileFrameOk(fr, cs, dp, ud, V, D, pa)
        BY <2>1 DEF FrameOk
      <3>2. fr.phase = "started"
        BY <1>1, <3>1 DEF FileFrameOk
      <3>3. cs2[fr.f] = "finished"
        BY <1>1
      <3> QED BY <3>1, <3>2, <3>3 DEF FileFrameOk
    <2> QED BY <2>1 DEF FrameOk
  <1>2. CASE fr.f # j
    <2>1. fr.kind = "file" => fr.f # j
      BY <1>2
    <2>2. Moves(j, cs, dp, ud, V, D, cs2, dp, ud, V2, D2)
      BY DEF Moves
    <2> QED BY <2>1, <2>2, FrameStays
  <1> QED BY <1>1, <1>2

LEMMA ReapStep ==
  ASSUME OrdinaryMakefiles, UpdateInv, UpdateTypes', NEW j \in Files, Reap(j)
  PROVE  UpdateInv'
  <1>1. /\ UNCHANGED <<mk, deps, considered, pass, updating, stack, rv, goals, gi, runs>>
        /\ jobs' = jobs \ {j} /\ j \in jobs /\ CanReap
    BY DEF Reap
  <1>ended. PICK ok \in BOOLEAN, writes \in BOOLEAN, later \in {0, 1},
                 gone \in SUBSET ({j} \cup mk.also[j]) : Ended(j, ok, writes, later, gone)
    BY ReapIs
  <1>2. /\ Finished(j, command_state, [update_status EXCEPT ![j] = IF ok THEN 0 ELSE 2],
                    last_mtime, disk')
        /\ IF ok \/ mk.keepGoing \/ upc = "dying"
             THEN upc' = IF upc = "wait" THEN "more" ELSE upc
             ELSE upc' = "dying"
    <2>1. IF ok \/ mk.keepGoing \/ upc = "dying"
            THEN upc' = IF upc = "wait" THEN "more" ELSE upc
            ELSE upc' = "dying"
      BY <1>ended DEF Ended
    <2> QED BY <1>ended, <2>1, Zenon DEF Ended
  <1>3. PICK us : us = [update_status EXCEPT ![j] = IF ok THEN 0 ELSE 2]
    OBVIOUS
  <1>4. PICK dk : dk = disk'
    OBVIOUS
  <1>5. /\ command_state \in [Files -> {"not_started", "deps_running", "running", "finished"}]
        /\ update_status \in [Files -> {Unset, 0, 2}] /\ updated \in [Files -> BOOLEAN]
        /\ last_mtime \in Times /\ jobs \subseteq Files /\ mk \in Makefiles
    BY GroupsOf DEF StateTypes, FileTypes, SetTypes
  <1>6. dk \in [Files -> Nat]
    BY <1>4 DEF UpdateTypes, FileTypes
  <1>7. /\ us \in [Files -> {Unset, 0, 2}] /\ us[j] = (IF ok THEN 0 ELSE 2)
        /\ \A x \in Files : x # j => us[x] = update_status[x]
    BY <1>3, <1>5
  <1>8. Finished(j, command_state, us, last_mtime, dk)
    BY <1>2, <1>3, <1>4
  <1>9. /\ command_state'[j] = "finished" /\ updated'[j]
        /\ update_status'[j] = IF us[j] = Unset THEN 0 ELSE us[j]
        /\ \A x \in Files : x # j => /\ command_state'[x] = command_state[x]
                                     /\ updated'[x] = updated[x] /\ update_status'[x] = us[x]
    BY <1>5, <1>6, <1>7, <1>8, FinishedIs
  <1>10. update_status'[j] = IF ok THEN 0 ELSE 2
    BY <1>7, <1>9 DEF Unset
  <1>11. StatesAgree /\ JobsReady /\ StateAgrees(command_state, update_status, updated, jobs, runs, j)
    BY DEF UpdateInv, StatesAgree
  <1>12. command_state[j] = "running"
    BY <1>1, <1>11 DEF StateAgrees
  <1>13. StateAgrees(command_state', update_status', updated', jobs', runs', j)
    BY <1>1, <1>9, <1>10, <1>11 DEF StateAgrees, Unset
  <1>14. Done \subseteq Done'
    <2>1. \A x \in Files : x # j => /\ command_state'[x] = command_state[x]
                                    /\ update_status'[x] = update_status[x]
      BY <1>7, <1>9
    <2>2. command_state[j] # "finished"
      BY <1>12
    <2> QED BY <2>1, <2>2, DoneStays DEF Done
  <1>15. StatesAgree' /\ JobsReady'
    <2>1. \A x \in Files : x # j =>
            /\ command_state'[x] = command_state[x] /\ update_status'[x] = update_status[x]
            /\ updated'[x] = updated[x] /\ runs'[x] = runs[x] /\ (x \in jobs' <=> x \in jobs)
      BY <1>1, <1>7, <1>9
    <2>2. jobs' \subseteq Files /\ j \notin jobs' /\ UNCHANGED deps
      BY <1>1, <1>5
    <2> QED BY <1>11, <1>13, <1>14, <2>1, <2>2, StatesChange
  <1>16. upc' # "exited"
    BY <1>1, <1>2 DEF CanReap, InFile
  <1>17. ASSUME Live'
         PROVE  LiveOk'
    <2>1. /\ ok \/ mk.keepGoing
          /\ Live /\ upc' = IF upc = "wait" THEN "more" ELSE upc
      BY <1>1, <1>2, <1>17 DEF Live, CanReap, InFile
    <2>2. LiveOk
      BY <2>1 DEF UpdateInv
    <2>3. /\ stack \in Seq(Calls)
          /\ StackOk(stack, command_state, deps, updating, Visited, Done, pass, mk.keepGoing)
          /\ NoFailure(rv, update_status, mk.keepGoing)
          /\ PassOk(stack, command_state, deps, considered, Visited)
      BY <2>2, StackIs
    <2>4. Visited \subseteq Visited'
      <3>1. \A x \in Files : x # j => command_state'[x] = command_state[x]
        BY <1>9
      <3>2. OnStack(stack) \subseteq OnStack(stack') \cup {j} /\ command_state'[j] # "not_started"
        BY <1>1, <1>9
      <3> QED BY <3>1, <3>2, VisitedStays DEF Visited
    <2>5. PICK V, D : V = Visited' /\ D = Done'
      OBVIOUS
    <2>6. PICK n \in Nat : Len(stack) = n
      BY <2>3
    <2>7. ASSUME NEW k \in 1 .. n
          PROVE  FrameOk(stack[k], command_state', deps, updating, V, D, pass, mk.keepGoing)
      <3>1. stack[k] \in Calls
        BY <2>3, <2>6
      <3>2. FrameOk(stack[k], command_state, deps, updating, Visited, Done, pass, mk.keepGoing)
        BY <2>3, <2>6 DEF StackOk
      <3>3. Visited \subseteq V /\ Done \subseteq D
        BY <1>14, <2>4, <2>5
      <3>4. \A x \in Files : x # j => command_state'[x] = command_state[x]
        BY <1>9
      <3> QED BY <1>9, <1>12, <3>1, <3>2, <3>3, <3>4, FrameReaped
    <2>8. StackOk(stack, command_state', deps, updating, V, D, pass, mk.keepGoing)
      BY <2>3, <2>6, <2>7 DEF StackOk
    <2>9. StackOk(stack', command_state', deps', updating', Visited', Done', pass', mk'.keepGoing)
      BY <1>1, <2>5, <2>8
    <2>10. upc = "pass" \/ (upc # "pass" /\ upc' # "pass" /\ stack = <<>>)
      BY <2>1, <2>2 DEF LiveOk
    <2>11. TopAnswered(stack', command_state', update_status', deps', rv'.status)
      <3>1. CASE stack = <<>>
        BY <1>1, <3>1 DEF TopAnswered
      <3>2. CASE stack # <<>>
        <4>1. Last(stack).kind = "file" /\ Last(stack).phase \in {"job", "started"}
          BY <1>1, <2>1, <2>10, <3>2 DEF CanReap, InFile, Top, Live
        <4> QED BY <1>1, <4>1 DEF TopAnswered
      <3> QED BY <3>1, <3>2
    <2>12. NoFailure(rv', update_status', mk'.keepGoing)
      BY <1>1, <1>7, <1>9, <1>10, <2>1, <2>3 DEF NoFailure
    <2>13. PassOk(stack', command_state', deps', considered', Visited')
      <3>1. PICK cs : cs = command_state'
        OBVIOUS
      <3>2. cs[j] # "deps_running" /\ \A x \in Files : x # j => cs[x] = command_state[x]
        BY <1>9, <3>1
      <3>3. PassOk(stack, command_state, deps, considered, Visited) /\ Visited \subseteq V
        BY <2>3, <2>4, <2>5
      <3>4. \A x \in Files : x \notin V => ~considered[x]
        BY <3>3 DEF PassOk
      <3>5. ASSUME NEW x \in Files, cs[x] = "deps_running", x \notin OnStack(stack)
            PROVE  DepFiles(deps, x) \subseteq V
        <4>1. command_state[x] = "deps_running"
          BY <3>2, <3>5
        <4> QED BY <3>3, <3>5, <4>1 DEF PassOk
      <3>6. PassOk(stack, cs, deps, considered, V)
        BY <3>4, <3>5, Zenon DEF PassOk
      <3> QED BY <1>1, <2>5, <3>1, <3>6
    <2>14. GoalsOk(upc', goals', gi', pass', Visited')
      <3>1. GoalsOk(upc, goals, gi, pass, Visited)
        BY <2>2 DEF LiveOk
      <3>2. PICK m \in Nat : Len(goals) = m
        BY GroupsOf DEF GoalTypes
      <3>3. GoalsOk(upc, goals, gi, pass, V)
        BY <2>4, <2>5, <3>1, <3>2, GoalsStay
      <3>4. GoalsOk(upc', goals, gi, pass, V)
        BY <2>1, <3>3 DEF GoalsOk
      <3> QED BY <1>1, <2>5, <3>4
    <2>15. upc' # "pass" => stack' = <<>>
      BY <1>1, <2>1, <2>10
    <2> QED BY <2>9, <2>11, <2>12, <2>13, <2>14, <2>15, Zenon DEF LiveOk
  <1> QED BY <1>15, <1>16, <1>17, Zenon DEF UpdateInv

-----------------------------------------------------------------------------
(* make starts, ends, and starts again. *)

LEMMA FreshOk ==
  ASSUME NEW cs, cs = [f \in Files |-> "not_started"], NEW us, us = [f \in Files |-> Unset],
         NEW up, up = [f \in Files |-> FALSE], NEW cons, cons = [f \in Files |-> FALSE],
         NEW rn, rn = [f \in Files |-> 0], NEW dp, NEW g, NEW r, r.status = 0, NEW keep
  PROVE  /\ \A f \in Files : StateAgrees(cs, us, up, {}, rn, f)
         /\ PassOk(<<>>, cs, dp, cons, VisitedFiles(cs, <<>>))
         /\ GoalsOk("wait", g, 1, TRUE, VisitedFiles(cs, <<>>))
         /\ NoFailure(r, us, keep)
  <1>1. \A f \in Files : StateAgrees(cs, us, up, {}, rn, f)
    BY DEF StateAgrees
  <1>2. PassOk(<<>>, cs, dp, cons, VisitedFiles(cs, <<>>))
    BY DEF PassOk
  <1>3. GoalsOk("wait", g, 1, TRUE, VisitedFiles(cs, <<>>))
    BY DEF GoalsOk
  <1>4. NoFailure(r, us, keep)
    BY DEF NoFailure, Unset
  <1> QED BY <1>1, <1>2, <1>3, <1>4

LEMMA UpdateInvInit ==
  ASSUME OrdinaryMakefiles, UpdateInit
  PROVE  UpdateInv
  <1>1. /\ mk \in Makefiles /\ mk.goals \in Seq(Files) /\ mk.rounds \in Nat \ {0}
        /\ mk.deps \in [Files -> Seq([file : Files, order : BOOLEAN])]
    BY MakefileIs DEF UpdateInit
  <1>2. /\ deps = mk.deps
        /\ last_mtime = [f \in Files |-> IF f \in mk.phony THEN Nonexistent ELSE Unknown]
        /\ command_state = [f \in Files |-> "not_started"]
        /\ update_status = [f \in Files |-> Unset] /\ updated = [f \in Files |-> FALSE]
        /\ considered = [f \in Files |-> FALSE]
        /\ changed = [f \in Files |-> [i \in DOMAIN mk.deps[f] |-> FALSE]]
        /\ pass = TRUE /\ updating = {} /\ stack = <<>> /\ rv = [status |-> 0, must |-> FALSE]
        /\ goals = mk.goals /\ gi = 1 /\ upc = "wait" /\ jobs = {} /\ exit = Unset
        /\ runs = [f \in Files |-> 0] /\ round = 1
    BY DEF UpdateInit, Fresh
  <1>3. FileTypes
    <2>1. PICK m \in Ages : m = CHOOSE t \in Ages : \A a \in Ages : a <= t
      BY UpdateAssumption
    <2>2. now = 1 + m /\ m \in Nat
      BY <2>1, UpdateAssumption DEF UpdateInit
    <2>3. disk \in [Files -> Nat]
      BY UpdateAssumption DEF UpdateInit
    <2> QED BY <1>2, <2>2, <2>3 DEF FileTypes, Times, Nonexistent
  <1>4. StateTypes /\ SetTypes
    BY <1>2 DEF StateTypes, SetTypes
  <1>5. DepTypes
    <2>1. changed \in [Files -> Seq(BOOLEAN)] /\ \A f \in Files : Len(changed[f]) = Len(deps[f])
      BY <1>1, <1>2, FreshDeps
    <2> QED BY <1>1, <1>2, <2>1 DEF DepTypes
  <1>6. CallTypes /\ GoalTypes
    BY <1>1, <1>2 DEF CallTypes, GoalTypes
  <1>7. /\ \A f \in Files : StateAgrees(command_state, update_status, updated, {}, runs, f)
        /\ PassOk(<<>>, command_state, deps, considered, VisitedFiles(command_state, <<>>))
        /\ GoalsOk("wait", goals, 1, TRUE, VisitedFiles(command_state, <<>>))
        /\ NoFailure(rv, update_status, mk.keepGoing)
    <2>1. rv.status = 0
      BY <1>2
    <2> QED BY <1>2, <2>1, FreshOk
  <1>8. /\ StackOk(stack, command_state, deps, updating, Visited, Done, pass, mk.keepGoing)
        /\ TopAnswered(stack, command_state, update_status, deps, rv.status)
    BY <1>2, EmptyStack
  <1>9. LiveOk
    BY <1>2, <1>7, <1>8 DEF LiveOk, Visited
  <1>10. StatesAgree /\ JobsReady
    BY <1>2, <1>7 DEF StatesAgree, JobsReady
  <1>11. upc # "exited"
    BY <1>2
  <1> QED BY <1>3, <1>4, <1>5, <1>6, <1>9, <1>10, <1>11, Zenon DEF UpdateInv, UpdateTypes

LEMMA AgainStep ==
  ASSUME UpdateInv, UpdateTypes', Again
  PROVE  UpdateInv'
  <1>1. /\ deps' = mk.deps
        /\ command_state' = [f \in Files |-> "not_started"]
        /\ update_status' = [f \in Files |-> Unset] /\ updated' = [f \in Files |-> FALSE]
        /\ considered' = [f \in Files |-> FALSE]
        /\ pass' = TRUE /\ stack' = <<>> /\ rv' = [status |-> 0, must |-> FALSE]
        /\ gi' = 1 /\ upc' = "wait" /\ runs' = [f \in Files |-> 0] /\ jobs' = jobs
        /\ upc = "exited"
    BY DEF Again, Fresh
  <1>2. jobs' = {}
    BY <1>1 DEF UpdateInv
  <1>3. /\ \A f \in Files : StateAgrees(command_state', update_status', updated', {}, runs', f)
        /\ PassOk(<<>>, command_state', deps', considered', VisitedFiles(command_state', <<>>))
        /\ GoalsOk("wait", goals', 1, TRUE, VisitedFiles(command_state', <<>>))
        /\ NoFailure(rv', update_status', mk'.keepGoing)
    <2>1. rv'.status = 0
      BY <1>1
    <2> QED BY <1>1, <2>1, FreshOk
  <1>4. /\ StackOk(stack', command_state', deps', updating', Visited', Done', pass', mk'.keepGoing)
        /\ TopAnswered(stack', command_state', update_status', deps', rv'.status)
    BY <1>1, EmptyStack
  <1>5. Visited' = VisitedFiles(command_state', <<>>)
    BY <1>1, Zenon DEF Visited
  <1>6. /\ PassOk(stack', command_state', deps', considered', Visited')
        /\ GoalsOk(upc', goals', gi', pass', Visited')
    BY <1>1, <1>3, <1>5
  <1>7. LiveOk'
    BY <1>1, <1>3, <1>4, <1>6, Zenon DEF LiveOk
  <1>8. StatesAgree' /\ JobsReady'
    BY <1>2, <1>3 DEF StatesAgree, JobsReady
  <1>9. upc' # "exited"
    BY <1>1
  <1> QED BY <1>7, <1>8, <1>9, Zenon DEF UpdateInv

(* make gives up, or has removed the intermediate files, or stays.         *)
LEMMA LastSteps ==
  ASSUME UpdateInv, UpdateTypes',
         \/ RemakeWithout /\ upc' = "dying"
         \/ remove_intermediates \/ Stop \/ UNCHANGED vars
  PROVE  UpdateInv'
  <1>1. /\ UNCHANGED <<command_state, update_status, updated, jobs, runs, deps, mk>>
        /\ \/ upc' = "dying" \/ (upc' = "exited" /\ jobs = {}) \/ UNCHANGED vars
    <2>1. CASE RemakeWithout /\ upc' = "dying"
      <3>1. upc = "pass"
        BY <2>1 DEF RemakeWithout, Ready, InFile
      <3> QED BY <2>1, <3>1 DEF RemakeWithout, fileVars
    <2>2. CASE remove_intermediates
      BY <2>2 DEF remove_intermediates, fileVars
    <2>3. CASE Stop \/ UNCHANGED vars
      BY <2>3 DEF Stop, vars, fileVars
    <2> QED BY <2>1, <2>2, <2>3
  <1>2. StatesAgree /\ JobsReady
    BY DEF UpdateInv
  <1>3. StatesAgree' /\ JobsReady' /\ Done' = Done
    BY <1>1, <1>2, StatesSame
  <1>4. CASE upc' = "dying" \/ (upc' = "exited" /\ jobs = {})
    BY <1>1, <1>3, <1>4 DEF UpdateInv, Live
  <1>5. CASE UNCHANGED vars
    <2>1. /\ upc' = upc /\ jobs' = jobs /\ stack' = stack /\ command_state' = command_state
          /\ deps' = deps /\ updating' = updating /\ update_status' = update_status
          /\ pass' = pass /\ mk' = mk /\ rv' = rv /\ considered' = considered
          /\ goals' = goals /\ gi' = gi
      BY <1>5 DEF vars, fileVars
    <2>2. Visited' = Visited
      BY <2>1, Zenon DEF Visited
    <2>3. LiveOk => LiveOk'
      BY <1>3, <2>1, <2>2, Zenon DEF LiveOk
    <2>4. Live' => Live
      BY <2>1 DEF Live
    <2>5. (upc = "exited" => jobs = {}) /\ (Live => LiveOk)
      BY DEF UpdateInv
    <2> QED BY <1>3, <2>1, <2>3, <2>4, <2>5, Zenon DEF UpdateInv
  <1> QED BY <1>1, <1>4, <1>5

(* Without intermediate files check_dep always calls update_file.          *)
LEMMA NoOtherSteps ==
  ASSUME OrdinaryMakefiles, UpdateInv
  PROVE  ~(\/ IntermediateUpdated \/ CheckIntermediate \/ CheckThrough
           \/ CheckedThrough \/ CheckedIntermediate)
  <1>1. ~IntermediateUpdated
    <2>1. ASSUME InFile("interback")
          PROVE  FALSE
      <3>1. /\ Top.phase = "interback"
            /\ FileFrameOk(Top, command_state, deps, updating, Visited, Done, pass)
        BY <2>1, FileOnTop
      <3> QED BY <3>1 DEF FileFrameOk
    <2> QED BY <2>1 DEF IntermediateUpdated
  <1>2. ~CheckIntermediate
    <2>1. mk.intermediate = {}
      BY GroupsOf, Ordinary1
    <2> QED BY <2>1 DEF CheckIntermediate, Ordinary
  <1>3. ~InCheck("through") /\ ~InCheck("throughback")
    <2>1. ~InCheck("through")
      <3>1. InCheck("through") => "through" \in {"dep", "updated"}
        BY CheckOnTop
      <3> QED BY <3>1
    <2>2. ~InCheck("throughback")
      <3>1. InCheck("throughback") => "throughback" \in {"dep", "updated"}
        BY CheckOnTop
      <3> QED BY <3>1
    <2> QED BY <2>1, <2>2
  <1> QED BY <1>1, <1>2, <1>3 DEF CheckThrough, CheckedThrough, CheckedIntermediate

LEMMA UpdateInvStep ==
  ASSUME OrdinaryMakefiles, UpdateInv, [UpdateNext]_vars
  PROVE  UpdateInv'
  <1>1. UpdateTypes'
    BY UpdateTypesStep
  <1>2. CASE DropCircular \/ CheckPrerequisite \/ PrerequisiteChecked
    BY <1>1, <1>2, DropCircularStep, CheckPrerequisiteStep, PrerequisiteCheckedStep
  <1>3. CASE ToIntermediates \/ UpdateIntermediate \/ PrerequisitesDone
    BY <1>1, <1>3, LoopStep
  <1>4. CASE WaitForPrerequisites
    BY <1>1, <1>4, WaitStep
  <1>5. CASE GiveUp \/ NoNeedToRemake
    BY <1>1, <1>5, FinishSteps
  <1>6. CASE RemakeWithout
    <2>1. UNCHANGED upc \/ upc' = "dying"
      BY <1>6 DEF RemakeWithout
    <2> QED BY <1>1, <1>6, <2>1, FinishSteps, LastSteps
  <1>7. CASE RemakeWith \/ StartCommands \/ CommandsStarted
    BY <1>1, <1>7, RemakeWithStep, StartCommandsStep, CommandsStartedStep
  <1>8. CASE CheckOrdinary \/ OrdinaryUpdated
    BY <1>1, <1>8, CheckOrdinaryStep, OrdinaryUpdatedStep
  <1>9. CASE BeginPass \/ GoalConsidered \/ EndPass
    BY <1>1, <1>9, GoalSteps
  <1>10. CASE UpdateGoal
    BY <1>1, <1>10, UpdateGoalStep
  <1>11. CASE Again
    BY <1>1, <1>11, AgainStep
  <1>12. CASE remove_intermediates \/ Stop \/ UNCHANGED vars
    BY <1>1, <1>12, LastSteps
  <1>13. ASSUME NEW j \in Files, Reap(j)
         PROVE  UpdateInv'
    BY <1>1, <1>13, ReapStep
  <1> QED BY <1>2, <1>3, <1>4, <1>5, <1>6, <1>7, <1>8, <1>9, <1>10, <1>11, <1>12, <1>13,
             NoOtherSteps, Zenon DEF UpdateNext

LEMMA UpdateInvHolds ==
  ASSUME OrdinaryMakefiles
  PROVE  UpdateSpec => []UpdateInv
  <1>1. UpdateInit => UpdateInv
    BY UpdateInvInit
  <1>2. UpdateInv /\ [UpdateNext]_vars => UpdateInv'
    BY UpdateInvStep
  <1> QED BY <1>1, <1>2, PTL DEF UpdateSpec

(* CommandsOnce and the types, for makefiles without intermediate files and *)
(* shared commands: in however many passes update_file comes back to a     *)
(* target, job and all, new_job is called for it at most once.             *)
THEOREM CommandsRunOnce ==
  ASSUME OrdinaryMakefiles
  PROVE  UpdateSpec => []CommandsOnce
  <1>1. ASSUME UpdateInv
        PROVE  CommandsOnce
    <2>1. UpdateTypeOK
      BY <1>1 DEF UpdateInv, UpdateTypes, FileTypes, Times, StateTypes, SetTypes, DepTypes,
                  GoalTypes, UpdateTypeOK
    <2>2. ASSUME NEW f \in Files
          PROVE  runs[f] <= 1 /\ \A x \in mk.also[f] : x = f
      <3>1. runs[f] \in {0, 1}
        BY <1>1 DEF UpdateInv, StatesAgree, StateAgrees
      <3>2. mk.also[f] \subseteq {f}
        BY <1>1, GroupsOf, Ordinary1
      <3> QED BY <3>1, <3>2
    <2> QED BY <2>1, <2>2 DEF CommandsOnce
  <1>2. UpdateInv => CommandsOnce
    BY <1>1
  <1> QED BY <1>2, UpdateInvHolds, PTL

(* PrerequisitesReady, for the same makefiles, with any number of slots,   *)
(* cycles that are cut, order-only prerequisites, -k and -B: the commands  *)
(* that run have nothing unmade, failed or still running behind them.      *)
THEOREM PrerequisitesAreReady ==
  ASSUME OrdinaryMakefiles
  PROVE  UpdateSpec => []PrerequisitesReady
  <1>1. ASSUME UpdateInv
        PROVE  PrerequisitesReady
    <2>1. ASSUME NEW f \in jobs, NEW i \in DOMAIN deps[f], NEW d, d = deps[f][i].file
          PROVE  d \notin jobs /\ ~Busy(d) /\ update_status[d] # 2
      <3>1. d \in DepFiles(deps, f)
        BY <2>1 DEF DepFiles
      <3>2. d \in Done
        BY <1>1, <3>1 DEF UpdateInv, JobsReady
      <3>3. d \in Files /\ command_state[d] = "finished" /\ update_status[d] = 0
        BY <3>2 DEF Done, DoneFiles
      <3>4. command_state[d] = "running" <=> d \in jobs
        BY <1>1, <3>3 DEF UpdateInv, StatesAgree, StateAgrees
      <3> QED BY <3>3, <3>4 DEF Busy
    <2> QED BY <2>1 DEF PrerequisitesReady
  <1>2. UpdateInv => PrerequisitesReady
    BY <1>1
  <1> QED BY <1>2, UpdateInvHolds, PTL

-----------------------------------------------------------------------------
(***************************************************************************)
(* Times, for the same makefiles.  What make knows of the time of a file   *)
(* is what is on disk, except that a phony file never exists.  A call of   *)
(* update_file_1 knows whether its file is out of date with respect to the *)
(* prerequisites behind it, as long as none of these is being made; those  *)
(* that are done do not change any more.                                   *)
(***************************************************************************)

(* A time as make sees it, and whether a prerequisite of that time makes   *)
(* what has the time this out of date.                                     *)
SeenTime(x, dk, ph) == IF x \in ph THEN Nonexistent ELSE dk[x]
OutOfDate(d, this, dk, ph) == Newer(SeenTime(d, dk, ph), this)

PlainFiles(dp, f) == {dp[f][i].file : i \in {k \in DOMAIN dp[f] : ~dp[f][k].order}}
CheckedPlain(fr, dp) ==
  {dp[fr.f][i].file : i \in {k \in DOMAIN dp[fr.f] :
     ~dp[fr.f][k].order /\ (fr.phase \in {"dep", "back"} => k < fr.i)}}

(* must_make says whether the file is missing or a prerequisite is newer.  *)
MustTells(fr, dp, dk, ph) ==
  fr.must <=> \/ fr.this = Nonexistent
              \/ \E d \in CheckedPlain(fr, dp) : OutOfDate(d, fr.this, dk, ph)
FileTimes(fr, dp, dk, ph, am) ==
  fr.phase # "started" =>
    /\ fr.this = SeenTime(fr.f, dk, ph)
    /\ ~fr.running /\ fr.status = 0 => MustTells(fr, dp, dk, ph)
    /\ fr.phase = "job" => am \/ fr.must

(* The calls, with the files that they keep in updating: ud; gs are the    *)
(* goals.                                                                  *)
CallsOk(st, dp, dk, ph, am, ud, gs) ==
  /\ \A k \in 1 .. Len(st) : st[k].kind = "file" => FileTimes(st[k], dp, dk, ph, am)
  /\ \A k \in 1 .. Len(st) - 1 : st[k].kind = "file" =>
       st[k + 1].must = st[k].must /\ st[k + 1].this = st[k].this
  /\ \A x \in ud : \E k \in 1 .. Len(st) : st[k].f = x
  /\ st # <<>> /\ Last(st).phase \in {"job", "started"} => Last(st).f \notin ud
  /\ st # <<>> => st[1].f \in gs

(* What check_dep has answered. *)
NewerAnswered(st, dp, dk, ph, must) ==
  st # <<>> /\ Last(st).kind = "file" /\ Last(st).phase = "back" =>
    (must <=> Last(st).must \/ OutOfDate(dp[Last(st).f][Last(st).i].file, Last(st).this, dk, ph))

(* A file that is done has done prerequisites, and is not older than them. *)
UpToDate(r, f, dp, D, dk) ==
  /\ DepFiles(dp, f) \subseteq D
  /\ r.cmds[f] = "touch" /\ f \notin r.phony =>
       dk[f] # Nonexistent /\ \A d \in PlainFiles(dp, f) : dk[d] <= dk[f]

(* The commands of f were run for a reason. *)
Justified(r, f, dp, D, dk, od) ==
  /\ DepFiles(dp, f) \subseteq D
  /\ ~r.alwaysMake =>
       \/ f \in r.phony \/ od[f] = Nonexistent
       \/ \E d \in PlainFiles(dp, f) : OutOfDate(d, od[f], dk, r.phony)

TimesKnown(lm, dk, nw, ph) ==
  /\ nw >= 1 /\ \A x \in Files : dk[x] <= nw
  /\ \A x \in Files : (lm[x] = Unknown /\ x \notin ph) \/ lm[x] = SeenTime(x, dk, ph)

GlobalTimes ==
  /\ TimesKnown(last_mtime, disk, now, mk.phony)
  /\ old \in [Files -> Nat]
  /\ \A f \in Files : runs[f] = 0 => disk[f] = old[f]
  /\ \A f \in jobs : runs[f] = 1
  /\ \A f \in Done : UpToDate(mk, f, deps, Done, disk)
  /\ \A f \in Files : runs[f] = 1 => Justified(mk, f, deps, Done, disk, old)

CallTimes ==
  /\ CallsOk(stack, deps, disk, mk.phony, mk.alwaysMake, updating, ToSet(mk.goals))
  /\ NewerAnswered(stack, deps, disk, mk.phony, rv.must)

(* Only what the goals reach is visited: whatever holds the goals and the  *)
(* prerequisites of all that it holds, holds that too.                     *)
Closed(S, dp) == \A f \in S : DepFiles(dp, f) \subseteq S
MetFiles(cs, st) == {x \in Files : cs[x] # "not_started"} \cup {st[k].f : k \in 1 .. Len(st)}
Reached(M, dp, gs) == \A S \in SUBSET Files : gs \subseteq S /\ Closed(S, dp) => M \subseteq S

Met == MetFiles(command_state, stack)
GoalsLeft ==
  /\ exit # 0 /\ Reached(Met, deps, ToSet(mk.goals))
  /\ ToSet(goals) \subseteq ToSet(mk.goals)
  /\ exit = 2 \/ ToSet(mk.goals) \subseteq ToSet(goals) \cup Done
AllDone ==
  /\ ToSet(mk.goals) \subseteq Done
  /\ \A x \in Files : command_state[x] # "not_started" => x \in Done

BuildInv ==
  /\ UpdateInv /\ GlobalTimes
  /\ Live => CallTimes /\ GoalsLeft
  /\ ~Live /\ exit = 0 => AllDone

-----------------------------------------------------------------------------
(* The calls, when the one on top changes, returns or makes another one.   *)

(* t is st with fr on top, instead of what was there or above it. *)
IsReplaced(t, st, fr) ==
  /\ t \in Seq(Calls) /\ t # <<>> /\ Len(t) = Len(st) /\ t[Len(st)] = fr
  /\ \A k \in 1 .. Len(st) - 1 : t[k] = st[k]
  /\ Last(t) = fr
IsPushed(t, st, fr) ==
  /\ t \in Seq(Calls) /\ t # <<>> /\ Len(t) = Len(st) + 1 /\ t[Len(t)] = fr
  /\ \A k \in 1 .. Len(st) : t[k] = st[k]
  /\ Last(t) = fr
IsPopped(t, st) ==
  t \in Seq(Calls) /\ Len(t) = Len(st) - 1 /\ \A k \in 1 .. Len(st) - 1 : t[k] = st[k]

LEMMA CallReplaced ==
  ASSUME NEW st \in Seq(Calls), st # <<>>, NEW fr \in Calls
  PROVE  IsReplaced(Append(Front(st), fr), st, fr)
  <1>1. PICK n \in Nat : Len(st) = n + 1
    BY NonEmpty
  <1>2. PICK u : u = Front(st)
    OBVIOUS
  <1>3. u \in Seq(Calls) /\ Len(u) = n /\ \A k \in 1 .. n : u[k] = st[k]
    BY <1>1, <1>2 DEF Front
  <1>4. PICK t : t = Append(u, fr)
    OBVIOUS
  <1>5. IsReplaced(t, st, fr)
    BY ONLY <1>1, <1>3, <1>4, fr \in Calls DEF Last, IsReplaced
  <1> QED BY <1>2, <1>4, <1>5

LEMMA CallPushed ==
  ASSUME NEW st \in Seq(Calls), NEW fr \in Calls
  PROVE  IsPushed(Append(st, fr), st, fr)
  BY DEF IsPushed, Last

LEMMA CallPopped ==
  ASSUME NEW st \in Seq(Calls), st # <<>>
  PROVE  IsPopped(Front(st), st)
  <1>1. PICK n \in Nat : Len(st) = n + 1
    BY NonEmpty
  <1> QED BY <1>1 DEF Front, IsPopped

LEMMA CallsBecome ==
  ASSUME NEW st \in Seq(Calls), st # <<>>, NEW dp, NEW dk, NEW ph, NEW am, NEW ud, NEW gs,
         CallsOk(st, dp, dk, ph, am, ud, gs),
         NEW fr \in Calls, fr.f = Last(st).f, fr.kind = Last(st).kind,
         fr.kind = "file" => FileTimes(fr, dp, dk, ph, am),
         fr.kind = "check" => fr.must = Last(st).must /\ fr.this = Last(st).this,
         NEW ud2, ud2 \subseteq ud, fr.phase \in {"job", "started"} => fr.f \notin ud2,
         NEW t, t = Append(Front(st), fr),
         Len(st) > 1 => (st[Len(st) - 1].kind = "file" => fr.kind = "check")
  PROVE  CallsOk(t, dp, dk, ph, am, ud2, gs)
  <1>1. PICK n \in Nat : Len(st) = n + 1
    BY NonEmpty
  <1>0. /\ t \in Seq(Calls) /\ t # <<>> /\ Len(t) = Len(st) /\ t[Len(st)] = fr
        /\ \A k \in 1 .. Len(st) - 1 : t[k] = st[k]
        /\ Last(t) = fr
    BY CallReplaced DEF IsReplaced
  <1>2. /\ Len(t) = n + 1 /\ t[n + 1] = fr /\ \A k \in 1 .. n : t[k] = st[k]
    BY <1>0, <1>1
  <1>3. Last(st) = st[n + 1] /\ Last(t) = fr /\ t # <<>>
    BY <1>0, <1>1 DEF Last
  <1>4. ASSUME NEW k \in 1 .. n + 1, t[k].kind = "file"
        PROVE  FileTimes(t[k], dp, dk, ph, am)
    <2>1. CASE k = n + 1
      BY <1>2, <1>4, <2>1
    <2>2. CASE k # n + 1
      BY <1>1, <1>2, <1>4, <2>2 DEF CallsOk
    <2> QED BY <2>1, <2>2
  <1>5. ASSUME NEW k \in 1 .. n, t[k].kind = "file"
        PROVE  t[k + 1].must = t[k].must /\ t[k + 1].this = t[k].this
    <2>1. t[k] = st[k] /\ st[k + 1].must = st[k].must /\ st[k + 1].this = st[k].this
      BY <1>1, <1>2, <1>5 DEF CallsOk
    <2>2. CASE k = n
      <3>1. fr.kind = "check"
        BY <1>1, <1>5, <2>1, <2>2
      <3> QED BY <1>2, <1>3, <2>1, <2>2, <3>1
    <2>3. CASE k # n
      <3>1. t[k + 1] = st[k + 1]
        BY <1>2, <2>3
      <3> QED BY <2>1, <3>1
    <2> QED BY <2>2, <2>3
  <1>6. ASSUME NEW x \in ud2
        PROVE  \E k \in 1 .. n + 1 : t[k].f = x
    <2>1. PICK k \in 1 .. n + 1 : st[k].f = x
      BY <1>1, <1>6 DEF CallsOk
    <2>2. t[k].f = x
      BY <1>2, <1>3, <2>1
    <2> QED BY <2>2
  <1>7. t[1].f \in gs
    <2>1. st[1].f \in gs
      BY DEF CallsOk
    <2>2. t[1].f = st[1].f
      BY <1>2, <1>3
    <2> QED BY <2>1, <2>2
  <1> QED BY <1>2, <1>3, <1>4, <1>5, <1>6, <1>7 DEF CallsOk

LEMMA CallsReturn ==
  ASSUME NEW st \in Seq(Calls), st # <<>>, NEW dp, NEW dk, NEW ph, NEW am, NEW ud, NEW gs,
         CallsOk(st, dp, dk, ph, am, ud, gs),
         NEW ud2, \A x \in ud2 : x \in ud /\ x # Last(st).f,
         NEW t, t = Front(st), t # <<>> => Last(t).phase \in {"back", "updated"}
  PROVE  CallsOk(t, dp, dk, ph, am, ud2, gs)
  <1>1. PICK n \in Nat : Len(st) = n + 1
    BY NonEmpty
  <1>0. IsPopped(t, st)
    BY CallPopped
  <1>2. Len(t) = n /\ t \in Seq(Calls) /\ \A k \in 1 .. n : t[k] = st[k]
    BY <1>0, <1>1 DEF IsPopped
  <1>3. Last(st) = st[n + 1]
    BY <1>1 DEF Last
  <1>4. ASSUME NEW k \in 1 .. n, t[k].kind = "file"
        PROVE  FileTimes(t[k], dp, dk, ph, am)
    BY <1>1, <1>2, <1>4 DEF CallsOk
  <1>5. ASSUME NEW k \in 1 .. n - 1, t[k].kind = "file"
        PROVE  t[k + 1].must = t[k].must /\ t[k + 1].this = t[k].this
    <2>1. t[k] = st[k] /\ t[k + 1] = st[k + 1]
      BY <1>2
    <2> QED BY <1>1, <1>5, <2>1 DEF CallsOk
  <1>6. ASSUME NEW x \in ud2
        PROVE  \E k \in 1 .. n : t[k].f = x
    <2>1. PICK k \in 1 .. n + 1 : st[k].f = x
      BY <1>1, <1>6 DEF CallsOk
    <2>2. k # n + 1
      BY <1>3, <1>6, <2>1
    <2> QED BY <1>2, <2>1, <2>2
  <1>7. t # <<>> => t[1].f \in gs
    <2>1. t # <<>> => n >= 1
      BY <1>2
    <2>2. st[1].f \in gs
      BY DEF CallsOk
    <2> QED BY <1>2, <2>1, <2>2
  <1> QED BY <1>2, <1>4, <1>5, <1>6, <1>7 DEF CallsOk

LEMMA CallsCall ==
  ASSUME NEW st \in Seq(Calls), NEW dp, NEW dk, NEW ph, NEW am, NEW ud, NEW gs,
         CallsOk(st, dp, dk, ph, am, ud, gs),
         NEW g \in Calls, g.kind = "file" => FileTimes(g, dp, dk, ph, am), g.phase = "dep",
         st # <<>> => (Last(st).kind = "file" => g.must = Last(st).must /\ g.this = Last(st).this),
         st = <<>> => g.f \in gs,
         NEW ud2, ud2 \subseteq ud \cup {g.f},
         NEW t, t = Append(st, g)
  PROVE  CallsOk(t, dp, dk, ph, am, ud2, gs)
  <1>1. PICK n \in Nat : Len(st) = n
    OBVIOUS
  <1>0. /\ t \in Seq(Calls) /\ t # <<>> /\ Len(t) = Len(st) + 1 /\ t[Len(t)] = g
        /\ \A k \in 1 .. Len(st) : t[k] = st[k]
        /\ Last(t) = g
    BY CallPushed DEF IsPushed
  <1>2. /\ Len(t) = n + 1 /\ t[n + 1] = g /\ t # <<>> /\ Last(t) = g
        /\ \A k \in 1 .. n : t[k] = st[k]
    BY <1>0, <1>1
  <1>3. ASSUME NEW k \in 1 .. n + 1, t[k].kind = "file"
        PROVE  FileTimes(t[k], dp, dk, ph, am)
    <2>1. CASE k = n + 1
      BY <1>2, <1>3, <2>1
    <2>2. CASE k # n + 1
      BY <1>1, <1>2, <1>3, <2>2 DEF CallsOk
    <2> QED BY <2>1, <2>2
  <1>4. ASSUME NEW k \in 1 .. n, t[k].kind = "file"
        PROVE  t[k + 1].must = t[k].must /\ t[k + 1].this = t[k].this
    <2>1. t[k] = st[k]
      BY <1>2
    <2>2. CASE k = n
      <3>1. Last(st) = st[k] /\ st # <<>>
        BY <1>1, <2>2 DEF Last
      <3> QED BY <1>2, <1>4, <2>1, <2>2, <3>1
    <2>3. CASE k # n
      <3>1. t[k + 1] = st[k + 1] /\ k \in 1 .. n - 1
        BY <1>2, <2>3
      <3> QED BY <1>1, <1>4, <2>1, <3>1 DEF CallsOk
    <2> QED BY <2>2, <2>3
  <1>5. ASSUME NEW x \in ud2
        PROVE  \E k \in 1 .. n + 1 : t[k].f = x
    <2>1. CASE x = g.f
      BY <1>2, <2>1
    <2>2. CASE x # g.f
      <3>1. PICK k \in 1 .. n : st[k].f = x
        BY <1>1, <2>2 DEF CallsOk
      <3> QED BY <1>2, <3>1
    <2> QED BY <2>1, <2>2
  <1>6. t[1].f \in gs
    <2>1. CASE n = 0
      BY <1>1, <1>2, <2>1
    <2>2. CASE n # 0
      BY <1>1, <1>2, <2>2 DEF CallsOk
    <2> QED BY <2>1, <2>2
  <1> QED BY <1>2, <1>3, <1>4, <1>5, <1>6 DEF CallsOk

-----------------------------------------------------------------------------
(* What is known of the files as such.                                     *)

LEMMA TimeSeen ==
  ASSUME NEW dk, NEW nw, NEW ph, TimesKnown(last_mtime, disk, nw, ph), NEW f \in Files
  PROVE  mtime(f) = SeenTime(f, disk, ph)
  <1>1. (last_mtime[f] = Unknown /\ f \notin ph) \/ last_mtime[f] = SeenTime(f, disk, ph)
    BY Zenon DEF TimesKnown
  <1> QED BY <1>1 DEF mtime, SeenTime, Unknown, Nonexistent

LEMMA KnownIsKnown ==
  ASSUME NEW nw, NEW ph, TimesKnown(last_mtime, disk, nw, ph), NEW S
  PROVE  TimesKnown(Known(last_mtime, S), disk, nw, ph)
  <1>1. PICK lm : lm = Known(last_mtime, S)
    OBVIOUS
  <1>2. ASSUME NEW x \in Files
        PROVE  (lm[x] = Unknown /\ x \notin ph) \/ lm[x] = SeenTime(x, disk, ph)
    <2>1. lm[x] = IF x \in S /\ last_mtime[x] = Unknown THEN disk[x] ELSE last_mtime[x]
      BY <1>1, Zenon DEF Known
    <2>2. (last_mtime[x] = Unknown /\ x \notin ph) \/ last_mtime[x] = SeenTime(x, disk, ph)
      BY Zenon DEF TimesKnown
    <2> QED BY <2>1, <2>2 DEF SeenTime, Unknown, Nonexistent
  <1>3. TimesKnown(lm, disk, nw, ph)
    BY <1>2, Zenon DEF TimesKnown
  <1> QED BY <1>1, <1>3

LEMMA UpToDateStays ==
  ASSUME NEW r, NEW f, NEW dp, NEW D, NEW dk, UpToDate(r, f, dp, D, dk), NEW D2, D \subseteq D2,
         NEW dp2, dp2[f] = dp[f], NEW dk2, dk2[f] = dk[f], \A d \in D : dk2[d] = dk[d]
  PROVE  UpToDate(r, f, dp2, D2, dk2)
  <1>1. DepFiles(dp2, f) = DepFiles(dp, f) /\ PlainFiles(dp2, f) = PlainFiles(dp, f)
    BY DEF DepFiles, PlainFiles
  <1>2. PlainFiles(dp, f) \subseteq DepFiles(dp, f)
    BY Zenon DEF DepFiles, PlainFiles
  <1>3. DepFiles(dp, f) \subseteq D /\ DepFiles(dp, f) \subseteq D2
    BY DEF UpToDate
  <1>4. ASSUME r.cmds[f] = "touch", f \notin r.phony
        PROVE  dk2[f] # Nonexistent /\ \A d \in PlainFiles(dp2, f) : dk2[d] <= dk2[f]
    <2>1. dk[f] # Nonexistent /\ \A d \in PlainFiles(dp, f) : dk[d] <= dk[f]
      BY <1>4 DEF UpToDate
    <2> QED BY <1>1, <1>2, <1>3, <2>1
  <1> QED BY <1>1, <1>3, <1>4 DEF UpToDate

LEMMA JustifiedStays ==
  ASSUME NEW r, NEW f, NEW dp, NEW D, NEW dk, NEW od, Justified(r, f, dp, D, dk, od), NEW D2,
         D \subseteq D2, NEW dp2, dp2[f] = dp[f], NEW dk2, \A d \in D : dk2[d] = dk[d]
  PROVE  Justified(r, f, dp2, D2, dk2, od)
  <1>1. DepFiles(dp2, f) = DepFiles(dp, f) /\ PlainFiles(dp2, f) = PlainFiles(dp, f)
    BY DEF DepFiles, PlainFiles
  <1>2. PlainFiles(dp, f) \subseteq DepFiles(dp, f)
    BY Zenon DEF DepFiles, PlainFiles
  <1>3. DepFiles(dp, f) \subseteq D /\ DepFiles(dp, f) \subseteq D2
    BY DEF Justified
  <1>4. ASSUME NEW d \in PlainFiles(dp, f), OutOfDate(d, od[f], dk, r.phony)
        PROVE  OutOfDate(d, od[f], dk2, r.phony)
    <2>1. dk2[d] = dk[d]
      BY <1>2, <1>3
    <2> QED BY <1>4, <2>1, Zenon DEF OutOfDate, SeenTime
  <1> QED BY <1>1, <1>3, <1>4, Zenon DEF Justified

(* Times of files that are done stay, and so does what is said of them.    *)
LEMMA GlobalStays ==
  ASSUME GlobalTimes, UNCHANGED <<mk, old, runs>>, jobs' \subseteq jobs, Done \subseteq Done',
         Done \subseteq Files,
         \A d \in Done : disk'[d] = disk[d],
         \A f \in Files : runs[f] = 0 => disk'[f] = disk[f],
         \A f \in Files : f \in Done \/ runs[f] = 1 => deps'[f] = deps[f],
         TimesKnown(last_mtime', disk', now', mk.phony),
         \A f \in Done' : f \in Done \/ UpToDate(mk, f, deps', Done', disk')
  PROVE  GlobalTimes'
  <1>1. ASSUME NEW f \in Done'
        PROVE  UpToDate(mk, f, deps', Done', disk')
    <2>1. ASSUME f \in Done
          PROVE  UpToDate(mk, f, deps', Done', disk')
      <3>1. UpToDate(mk, f, deps, Done, disk) /\ f \in Files
        BY <2>1 DEF GlobalTimes
      <3>2. deps'[f] = deps[f] /\ disk'[f] = disk[f]
        BY <2>1, <3>1
      <3> QED BY <3>1, <3>2, UpToDateStays
    <2> QED BY <2>1
  <1>2. ASSUME NEW f \in Files, runs[f] = 1
        PROVE  Justified(mk, f, deps', Done', disk', old)
    <2>1. Justified(mk, f, deps, Done, disk, old) /\ deps'[f] = deps[f]
      BY <1>2 DEF GlobalTimes
    <2> QED BY <2>1, JustifiedStays
  <1>3. /\ \A f \in Files : runs[f] = 0 => disk'[f] = old[f]
        /\ \A f \in jobs' : runs[f] = 1
        /\ old \in [Files -> Nat]
    BY DEF GlobalTimes
  <1> QED BY <1>1, <1>2, <1>3, Zenon DEF GlobalTimes

LEMMA GlobalSame ==
  ASSUME UpdateInv, GlobalTimes, UNCHANGED <<mk, disk, now, old, runs, jobs, deps>>,
         Done' = Done, NEW S, last_mtime' \in {last_mtime, Known(last_mtime, S)}
  PROVE  GlobalTimes'
  <1>1. TimesKnown(last_mtime, disk, now, mk.phony)
    BY DEF GlobalTimes
  <1>2. TimesKnown(last_mtime', disk, now, mk.phony)
    BY <1>1, KnownIsKnown
  <1>3. Done \subseteq Files
    BY DEF Done, DoneFiles
  <1> QED BY <1>2, <1>3, GlobalStays

LEMMA DoneSame ==
  ASSUME NEW f, NEW cs, NEW us, NEW cs2,
         \A x \in Files : x # f => cs2[x] = cs[x], cs[f] # "finished", cs2[f] # "finished"
  PROVE  DoneFiles(cs2, us) = DoneFiles(cs, us)
  BY DEF DoneFiles

-----------------------------------------------------------------------------
(* What the goals reach.                                                   *)

StackFiles(st) == {st[k].f : k \in 1 .. Len(st)}

LEMMA ReachedStays ==
  ASSUME NEW M, NEW dp, NEW gs, Reached(M, dp, gs), NEW M2, M2 \subseteq M
  PROVE  Reached(M2, dp, gs)
  BY DEF Reached

LEMMA ReachedMore ==
  ASSUME NEW M, NEW dp, NEW gs, Reached(M, dp, gs), NEW f \in M, NEW d \in DepFiles(dp, f),
         NEW M2, M2 \subseteq M \cup {d}
  PROVE  Reached(M2, dp, gs)
  <1>1. ASSUME NEW S \in SUBSET Files, gs \subseteq S, Closed(S, dp)
        PROVE  M2 \subseteq S
    <2>1. M \subseteq S
      BY <1>1 DEF Reached
    <2>2. d \in S
      BY <1>1, <2>1 DEF Closed
    <2> QED BY <2>1, <2>2
  <1> QED BY <1>1 DEF Reached

LEMMA ReachedGoal ==
  ASSUME NEW M, NEW dp, NEW gs, Reached(M, dp, gs), NEW g \in gs, NEW M2, M2 \subseteq M \cup {g}
  PROVE  Reached(M2, dp, gs)
  BY DEF Reached

(* The files on the stack are reached along the calls.                     *)
LEMMA StackReached ==
  ASSUME NEW st \in Seq(Calls), st # <<>>, NEW cs, NEW dp, NEW ud, NEW V, NEW D, NEW pa, NEW keep,
         StackOk(st, cs, dp, ud, V, D, pa, keep),
         NEW S, st[1].f \in S,
         \A k \in 1 .. Len(st) - 1 :
           st[k].kind = "file" /\ st[k].f \in S => dp[st[k].f][st[k].i].file \in S
  PROVE  StackFiles(st) \subseteq S
  <1>1. PICK n \in Nat : Len(st) = n + 1
    BY NonEmpty
  <1>2. PICK T : T = {k \in 0 .. n : st[k + 1].f \in S}
    OBVIOUS
  <1>3. 0 \in T
    BY <1>2
  <1>4. ASSUME NEW k \in 0 .. n - 1, k \in T
        PROVE  k + 1 \in T
    <2>1. PICK j \in 1 .. n : j = k + 1
      BY <1>1
    <2>2. st[j].f \in S
      BY <1>2, <1>4, <2>1
    <2>3. Nested(st[j], st[j + 1], dp) /\ st[j] \in Calls
      BY <1>1, <2>1 DEF StackOk
    <2>4. st[j].kind \in {"file", "check"}
      BY <2>3, CallIs
    <2>5. CASE st[j].kind = "file"
      <3>1. st[j + 1].f = dp[st[j].f][st[j].i].file
        BY <2>3, <2>5 DEF Nested
      <3>2. dp[st[j].f][st[j].i].file \in S
        BY <1>1, <2>1, <2>2, <2>5
      <3> QED BY <1>2, <2>1, <3>1, <3>2
    <2>6. CASE st[j].kind = "check"
      <3>1. st[j + 1].f = st[j].f
        BY <2>3, <2>6 DEF Nested
      <3> QED BY <1>2, <2>1, <2>2, <3>1
    <2> QED BY <2>4, <2>5, <2>6
  <1>5. \A k \in 0 .. n : k \in T
    BY <1>3, <1>4, SetInduction
  <1>6. ASSUME NEW k \in 1 .. Len(st)
        PROVE  st[k].f \in S
    <2>1. k - 1 \in 0 .. n /\ (k - 1) + 1 = k
      BY <1>1
    <2>2. k - 1 \in T
      BY <1>5, <2>1
    <2> QED BY <1>2, <2>1, <2>2
  <1> QED BY <1>6 DEF StackFiles

LEMMA MetIs ==
  ASSUME NEW cs, NEW st
  PROVE  MetFiles(cs, st) = {x \in Files : cs[x] # "not_started"} \cup StackFiles(st)
  BY DEF MetFiles, StackFiles

LEMMA StackFilesBecome ==
  ASSUME NEW st \in Seq(Calls), st # <<>>, NEW fr \in Calls, fr.f = Last(st).f
  PROVE  StackFiles(Append(Front(st), fr)) = StackFiles(st) /\ Last(st).f \in StackFiles(st)
  <1>1. PICK t : t = Append(Front(st), fr)
    OBVIOUS
  <1>2. PICK n \in Nat : Len(st) = n + 1
    BY NonEmpty
  <1>3. IsReplaced(t, st, fr)
    BY <1>1, CallReplaced
  <1>4. Len(t) = n + 1 /\ t[n + 1] = fr /\ \A k \in 1 .. n : t[k] = st[k]
    BY <1>2, <1>3 DEF IsReplaced
  <1>5. Last(st) = st[n + 1]
    BY <1>2 DEF Last
  <1>6. \A k \in 1 .. n + 1 : t[k].f = st[k].f
    BY <1>4, <1>5
  <1> QED BY <1>1, <1>2, <1>4, <1>5, <1>6 DEF StackFiles

LEMMA StackFilesPopped ==
  ASSUME NEW st \in Seq(Calls), st # <<>>
  PROVE  StackFiles(Front(st)) \subseteq StackFiles(st) /\ Last(st).f \in StackFiles(st)
  <1>1. PICK t : t = Front(st)
    OBVIOUS
  <1>2. PICK n \in Nat : Len(st) = n + 1
    BY NonEmpty
  <1>3. IsPopped(t, st)
    BY <1>1, CallPopped
  <1>4. Len(t) = n /\ \A k \in 1 .. n : t[k] = st[k]
    BY <1>2, <1>3 DEF IsPopped
  <1>5. Last(st) = st[n + 1]
    BY <1>2 DEF Last
  <1> QED BY <1>1, <1>2, <1>4, <1>5 DEF StackFiles

LEMMA StackFilesPushed ==
  ASSUME NEW st \in Seq(Calls), NEW g \in Calls
  PROVE  StackFiles(Append(st, g)) = StackFiles(st) \cup {g.f}
  <1>1. PICK t : t = Append(st, g)
    OBVIOUS
  <1>2. IsPushed(t, st, g)
    BY <1>1, CallPushed
  <1>3. Len(t) = Len(st) + 1 /\ t[Len(st) + 1] = g /\ \A k \in 1 .. Len(st) : t[k] = st[k]
    BY <1>2 DEF IsPushed
  <1>4. Len(st) \in Nat
    OBVIOUS
  <1> QED BY <1>1, <1>3, <1>4 DEF StackFiles

-----------------------------------------------------------------------------
(* Steps of the call on top.                                               *)

LEMMA BuildParts ==
  ASSUME BuildInv
  PROVE  /\ UpdateInv /\ GlobalTimes /\ mk \in Makefiles /\ stack \in Seq(Calls)
         /\ TimesKnown(last_mtime, disk, now, mk.phony)
         /\ Done \subseteq Files
         /\ Live => CallTimes /\ GoalsLeft
  <1>1. UpdateInv /\ GlobalTimes /\ (Live => CallTimes /\ GoalsLeft)
    BY Zenon DEF BuildInv
  <1>2. mk \in Makefiles /\ stack \in Seq(Calls)
    BY <1>1, GroupsOf DEF CallTypes
  <1>3. TimesKnown(last_mtime, disk, now, mk.phony)
    BY <1>1, Zenon DEF GlobalTimes
  <1>4. Done \subseteq Files
    BY Zenon DEF Done, DoneFiles
  <1> QED BY <1>1, <1>2, <1>3, <1>4

LEMMA PassParts ==
  ASSUME BuildInv, upc = "pass", stack # <<>>
  PROVE  /\ CallTimes /\ GoalsLeft /\ Top = Last(stack)
         /\ Top \in Calls /\ Top.f \in Files
         /\ StackOk(stack, command_state, deps, updating, Visited, Done, pass, mk.keepGoing)
         /\ CallsOk(stack, deps, disk, mk.phony, mk.alwaysMake, updating, ToSet(mk.goals))
  <1>1. Live
    BY DEF Live
  <1>2. CallTimes /\ GoalsLeft /\ UpdateInv
    BY <1>1, BuildParts
  <1>3. Top \in Calls /\ Top.f \in Files /\ LiveOk
    BY <1>2, CallOnTop
  <1>4. StackOk(stack, command_state, deps, updating, Visited, Done, pass, mk.keepGoing)
    BY <1>2, <1>3, StackIs
  <1> QED BY <1>2, <1>3, <1>4, Zenon DEF CallTimes, Top

LEMMA StillLive ==
  ASSUME UpdateInv', GlobalTimes', CallTimes', GoalsLeft', Live'
  PROVE  BuildInv'
  BY Zenon DEF BuildInv

LEMMA GoalsKept ==
  ASSUME GoalsLeft, UNCHANGED <<mk, goals, exit>>, Done \subseteq Done',
         Reached(Met', deps', ToSet(mk.goals))
  PROVE  GoalsLeft'
  <1>1. exit = 2 \/ ToSet(mk.goals) \subseteq ToSet(goals) \cup Done'
    BY DEF GoalsLeft
  <1>2. exit # 0 /\ ToSet(goals) \subseteq ToSet(mk.goals)
    BY Zenon DEF GoalsLeft
  <1>3. mk' = mk /\ goals' = goals /\ exit' = exit
    OBVIOUS
  <1> QED BY <1>1, <1>2, <1>3, Zenon DEF GoalsLeft

(* A call of update_file_1 has not been made by one. *)
LEMMA BelowKind ==
  ASSUME NEW st \in Seq(Calls), st # <<>>, NEW cs, NEW dp, NEW ud, NEW V, NEW D, NEW pa,
         NEW keep, StackOk(st, cs, dp, ud, V, D, pa, keep)
  PROVE  Len(st) > 1 => (st[Len(st) - 1].kind = "file" => Last(st).kind = "check")
  <1>1. PICK n \in Nat : Len(st) = n + 1
    BY NonEmpty
  <1>2. ASSUME n > 0, st[n].kind = "file"
        PROVE  Last(st).kind = "check"
    <2>1. Nested(st[n], st[n + 1], dp)
      BY <1>1, <1>2 DEF StackOk
    <2> QED BY <1>1, <1>2, <2>1 DEF Nested, Last
  <1> QED BY <1>1, <1>2

LEMMA MetBecomes ==
  ASSUME NEW st \in Seq(Calls), st # <<>>, NEW fr \in Calls, fr.f = Last(st).f,
         NEW cs, NEW cs2, \A x \in Files : x # fr.f => cs2[x] = cs[x],
         NEW t, t = Append(Front(st), fr)
  PROVE  MetFiles(cs2, t) \subseteq MetFiles(cs, st)
  <1>1. StackFiles(t) = StackFiles(st) /\ fr.f \in StackFiles(st)
    BY StackFilesBecome
  <1>2. MetFiles(cs2, t) = {x \in Files : cs2[x] # "not_started"} \cup StackFiles(t)
    BY MetIs
  <1>3. MetFiles(cs, st) = {x \in Files : cs[x] # "not_started"} \cup StackFiles(st)
    BY MetIs
  <1> QED BY <1>1, <1>2, <1>3

LEMMA MetReturns ==
  ASSUME NEW st \in Seq(Calls), st # <<>>,
         NEW cs, NEW cs2, \A x \in Files : x # Last(st).f => cs2[x] = cs[x],
         NEW t, t = Front(st)
  PROVE  MetFiles(cs2, t) \subseteq MetFiles(cs, st)
  <1>1. StackFiles(t) \subseteq StackFiles(st) /\ Last(st).f \in StackFiles(st)
    BY StackFilesPopped
  <1>2. MetFiles(cs2, t) = {x \in Files : cs2[x] # "not_started"} \cup StackFiles(t)
    BY MetIs
  <1>3. MetFiles(cs, st) = {x \in Files : cs[x] # "not_started"} \cup StackFiles(st)
    BY MetIs
  <1> QED BY <1>1, <1>2, <1>3

(* The call of update_file_1 on top goes on.                               *)
LEMMA TopTimes ==
  ASSUME BuildInv, UpdateInv', NEW p, InFile(p), NEW fr \in Calls, fr.f = Top.f,
         fr.kind = "file", fr.phase # "back", stack' = Becomes(fr),
         FileTimes(fr, deps, disk, mk.phony, mk.alwaysMake),
         updating' \subseteq updating, fr.phase \in {"job", "started"} => fr.f \notin updating',
         \A x \in Files : x # Top.f => command_state'[x] = command_state[x],
         GlobalTimes', Done \subseteq Done',
         UNCHANGED <<mk, disk, deps, goals, exit, upc>>
  PROVE  BuildInv'
  <1>1. upc = "pass" /\ stack # <<>> /\ Top.kind = "file"
    BY DEF InFile
  <1>2. /\ CallTimes /\ GoalsLeft /\ Top = Last(stack)
        /\ StackOk(stack, command_state, deps, updating, Visited, Done, pass, mk.keepGoing)
        /\ CallsOk(stack, deps, disk, mk.phony, mk.alwaysMake, updating, ToSet(mk.goals))
    BY <1>1, PassParts
  <1>3. stack \in Seq(Calls) /\ UpdateInv
    BY BuildParts
  <1>4. stack' = Append(Front(stack), fr)
    BY DEF Becomes
  <1>5. Len(stack) > 1 => (stack[Len(stack) - 1].kind = "file" => fr.kind = "check")
    <2>1. Len(stack) > 1 => (stack[Len(stack) - 1].kind = "file" => Last(stack).kind = "check")
      BY <1>1, <1>2, <1>3, BelowKind, Zenon
    <2> QED BY <1>1, <1>2, <2>1
  <1>6. fr.f = Last(stack).f /\ fr.kind = Last(stack).kind
    BY <1>1, <1>2
  <1>7. CallsOk(stack', deps, disk, mk.phony, mk.alwaysMake, updating', ToSet(mk.goals))
    BY <1>1, <1>2, <1>3, <1>4, <1>5, <1>6, CallsBecome
  <1>8. Last(stack') = fr
    BY <1>1, <1>3, BecomesIs, GroupsOf
  <1>9. NewerAnswered(stack', deps, disk, mk.phony, rv'.must)
    BY <1>8 DEF NewerAnswered
  <1>10. CallTimes'
    BY <1>7, <1>9, Zenon DEF CallTimes
  <1>11. Met' \subseteq Met
    BY <1>1, <1>3, <1>4, <1>6, MetBecomes DEF Met
  <1>12. Reached(Met', deps', ToSet(mk.goals))
    <2>1. Reached(Met, deps, ToSet(mk.goals))
      BY <1>2, Zenon DEF GoalsLeft
    <2>2. Reached(Met', deps, ToSet(mk.goals))
      BY <1>11, <2>1, ReachedStays
    <2> QED BY <2>2
  <1>13. GoalsLeft'
    BY <1>2, <1>12, GoalsKept
  <1>14. Live'
    BY <1>1 DEF Live
  <1> QED BY <1>10, <1>13, <1>14, StillLive

(* The call on top returns.                                                *)
LEMMA ReturnTimes ==
  ASSUME BuildInv, UpdateInv', upc = "pass", stack # <<>>, stack' = Front(stack),
         \A x \in updating' : x \in updating /\ x # Top.f,
         \A x \in Files : x # Top.f => command_state'[x] = command_state[x],
         GlobalTimes', Done \subseteq Done', UNCHANGED <<mk, disk, deps, goals, exit, upc>>,
         Top.kind = "file" \/ NewerAnswered(stack', deps, disk, mk.phony, rv'.must)
  PROVE  BuildInv'
  <1>1. /\ CallTimes /\ GoalsLeft /\ Top = Last(stack) /\ Top \in Calls
        /\ StackOk(stack, command_state, deps, updating, Visited, Done, pass, mk.keepGoing)
        /\ CallsOk(stack, deps, disk, mk.phony, mk.alwaysMake, updating, ToSet(mk.goals))
    BY PassParts
  <1>2. stack \in Seq(Calls) /\ UpdateInv
    BY BuildParts
  <1>3. ASSUME stack' # <<>>
        PROVE  /\ Last(stack').phase \in {"back", "updated"}
               /\ Top.kind = "file" => Last(stack').kind = "check"
    <2>1. Last(stack') \in Calls /\ Nested(Last(stack'), Last(stack), deps)
      BY <1>1, <1>2, <1>3, CallBelow
    <2>2. Last(stack').kind \in {"file", "check"}
      BY <2>1, CallIs
    <2> QED BY <1>1, <2>1, <2>2 DEF Nested
  <1>4. CallsOk(stack', deps, disk, mk.phony, mk.alwaysMake, updating', ToSet(mk.goals))
    BY <1>1, <1>2, <1>3, CallsReturn
  <1>5. NewerAnswered(stack', deps, disk, mk.phony, rv'.must)
    BY <1>3 DEF NewerAnswered
  <1>6. CallTimes'
    BY <1>4, <1>5, Zenon DEF CallTimes
  <1>7. Met' \subseteq Met
    BY <1>1, <1>2, MetReturns DEF Met
  <1>8. Reached(Met', deps', ToSet(mk.goals))
    <2>1. Reached(Met, deps, ToSet(mk.goals))
      BY <1>1, Zenon DEF GoalsLeft
    <2>2. Reached(Met', deps, ToSet(mk.goals))
      BY <1>7, <2>1, ReachedStays
    <2> QED BY <2>2
  <1>9. GoalsLeft'
    BY <1>1, <1>8, GoalsKept
  <1>10. Live'
    BY DEF Live
  <1> QED BY <1>6, <1>9, <1>10, StillLive

(* What the call of update_file_1 on top knows of times.                   *)
LEMMA TopTime ==
  ASSUME BuildInv, NEW p, InFile(p), NEW c, c = Top
  PROVE  /\ c \in Calls /\ c.f \in Files /\ c.kind = "file" /\ c.phase = p
         /\ FileTimes(c, deps, disk, mk.phony, mk.alwaysMake)
         /\ p = "back" =>
              (rv.must <=> c.must \/ OutOfDate(deps[c.f][c.i].file, c.this, disk, mk.phony))
         /\ p \in {"job", "started"} => c.f \notin updating
  <1>1. upc = "pass" /\ stack # <<>> /\ Top.kind = "file" /\ Top.phase = p
    BY DEF InFile
  <1>2. /\ CallTimes /\ Top = Last(stack) /\ c \in Calls /\ c.f \in Files
        /\ CallsOk(stack, deps, disk, mk.phony, mk.alwaysMake, updating, ToSet(mk.goals))
    BY <1>1, PassParts
  <1>3. PICK n \in Nat : Len(stack) = n + 1
    BY <1>1, BuildParts, NonEmpty
  <1>4. c = stack[n + 1] /\ n + 1 \in 1 .. Len(stack)
    BY <1>2, <1>3 DEF Last
  <1>5. FileTimes(c, deps, disk, mk.phony, mk.alwaysMake)
    BY <1>1, <1>2, <1>4 DEF CallsOk
  <1>6. p = "back" =>
          (rv.must <=> c.must \/ OutOfDate(deps[c.f][c.i].file, c.this, disk, mk.phony))
    <2>1. NewerAnswered(stack, deps, disk, mk.phony, rv.must)
      BY <1>2, Zenon DEF CallTimes
    <2> QED BY <1>1, <1>2, <2>1, Zenon DEF NewerAnswered
  <1>7. p \in {"job", "started"} => c.f \notin updating
    BY <1>1, <1>2 DEF CallsOk
  <1> QED BY <1>1, <1>2, <1>5, <1>6, <1>7

LEMMA LoopTimes ==
  ASSUME OrdinaryMakefiles, BuildInv, UpdateInv',
         ToIntermediates \/ UpdateIntermediate \/ PrerequisitesDone
  PROVE  BuildInv'
  <1>1. PICK p \in {"dep", "inter"} : InFile(p)
    BY Zenon DEF ToIntermediates, UpdateIntermediate, PrerequisitesDone
  <1>2. PICK c : c = Top
    OBVIOUS
  <1>3. /\ c \in Calls /\ c.f \in Files /\ c.kind = "file" /\ c.phase = p
        /\ FileTimes(c, deps, disk, mk.phony, mk.alwaysMake)
    BY <1>1, <1>2, TopTime
  <1>4. UpdateInv /\ GlobalTimes
    BY BuildParts
  <1>5. PICK fr \in Calls : /\ stack' = Becomes(fr) /\ fr.f = c.f /\ fr.kind = c.kind
                            /\ fr.phase \in {"inter", "finish"} /\ SameAnswer(fr, c)
    BY <1>2, <1>3, <1>4, LoopFrame
  <1>6. p = "dep" => PastEnd(c)
    BY <1>1, <1>2 DEF ToIntermediates, UpdateIntermediate, PrerequisitesDone, InFile
  <1>7. CheckedPlain(fr, deps) = CheckedPlain(c, deps)
    <2>1. ASSUME NEW k \in DOMAIN deps[c.f]
          PROVE  c.phase \in {"dep", "back"} => k < c.i
      <3>1. deps[c.f] \in Seq([file : Files, order : BOOLEAN]) /\ c.i \in Nat \ {0}
        BY <1>3, <1>4, GroupsOf, CallIs DEF DepTypes
      <3> QED BY <1>3, <1>6, <3>1 DEF PastEnd
    <2> QED BY <1>5, <2>1 DEF CheckedPlain
  <1>8. FileTimes(fr, deps, disk, mk.phony, mk.alwaysMake)
    <2>1. MustTells(c, deps, disk, mk.phony) => MustTells(fr, deps, disk, mk.phony)
      BY <1>5, <1>7, Zenon DEF MustTells, SameAnswer
    <2>2. c.phase # "started" /\ fr.phase # "job"
      BY <1>3, <1>5
    <2> QED BY <1>3, <1>5, <2>1, <2>2, Zenon DEF FileTimes, SameAnswer
  <1>9. UNCHANGED <<command_state, update_status, jobs, runs, deps, mk, goals, upc, updating,
                    disk, now, old, exit, last_mtime>>
    <2>1. CASE ToIntermediates \/ PrerequisitesDone
      BY <2>1 DEF ToIntermediates, PrerequisitesDone, fileVars
    <2>2. CASE UpdateIntermediate
      <3>1. mk.intermediate = {}
        BY <1>4, GroupsOf, Ordinary1
      <3> QED BY <2>2, <3>1 DEF UpdateIntermediate
    <2> QED BY <2>1, <2>2
  <1>10. Done' = Done
    BY <1>9, Zenon DEF Done
  <1>11. GlobalTimes'
    BY <1>4, <1>9, <1>10, GlobalSame
  <1>12. /\ fr.f = Top.f /\ fr.kind = "file" /\ fr.phase # "back"
         /\ fr.phase \notin {"job", "started"}
    BY <1>2, <1>3, <1>5
  <1> QED BY <1>1, <1>5, <1>8, <1>9, <1>10, <1>11, <1>12, TopTimes

LEMMA PrerequisiteCheckedTimes ==
  ASSUME BuildInv, UpdateInv', PrerequisiteChecked
  PROVE  BuildInv'
  <1>1. InFile("back") /\ UpdateInv /\ GlobalTimes
    BY BuildParts DEF PrerequisiteChecked
  <1>2. PICK c : c = Top
    OBVIOUS
  <1>3. /\ c \in Calls /\ c.f \in Files /\ c.kind = "file" /\ c.phase = "back"
        /\ FileTimes(c, deps, disk, mk.phony, mk.alwaysMake)
        /\ rv.must <=> c.must \/ OutOfDate(deps[c.f][c.i].file, c.this, disk, mk.phony)
    BY <1>1, <1>2, TopTime
  <1>4. PICK d : d = Dep(c)
    OBVIOUS
  <1>5. c.i \in DOMAIN deps[c.f] /\ d = deps[c.f][c.i]
    BY <1>1, <1>2, <1>4, CheckedFrame
  <1>6. PICK fr \in Calls :
          /\ stack' = Becomes(fr) /\ fr.f = c.f /\ fr.kind = "file" /\ fr.phase = "dep"
          /\ fr.i = c.i + 1 /\ fr.status = Worse(c.status, rv.status)
          /\ fr.running = StillRunning(c) /\ fr.this = c.this
          /\ fr.must = IF d.order THEN c.must ELSE rv.must
    BY <1>1, <1>2, <1>4, CheckedFrame
  <1>7. \A k \in DOMAIN deps[c.f] : k < c.i + 1 <=> k < c.i \/ k = c.i
    <2>1. deps[c.f] \in Seq([file : Files, order : BOOLEAN]) /\ c.i \in Nat \ {0}
      BY <1>1, <1>3, GroupsOf, CallIs DEF DepTypes
    <2> QED BY <2>1
  <1>8. CheckedPlain(fr, deps) = CheckedPlain(c, deps) \cup (IF d.order THEN {} ELSE {d.file})
    <2>1. CheckedPlain(c, deps) = {deps[c.f][i].file : i \in {k \in DOMAIN deps[c.f] :
                                     ~deps[c.f][k].order /\ k < c.i}}
      BY <1>3 DEF CheckedPlain
    <2>2. CheckedPlain(fr, deps) = {deps[c.f][i].file : i \in {k \in DOMAIN deps[c.f] :
                                      ~deps[c.f][k].order /\ (k < c.i \/ k = c.i)}}
      BY <1>6, <1>7 DEF CheckedPlain
    <2> QED BY <1>5, <2>1, <2>2
  <1>9. ASSUME ~fr.running, fr.status = 0
        PROVE  MustTells(fr, deps, disk, mk.phony)
    <2>1. ~c.running /\ c.status = 0
      <3>1. ~c.running
        BY <1>6, <1>9, Zenon DEF StillRunning
      <3>2. c.status = 0
        BY <1>6, <1>9 DEF Worse
      <3> QED BY <3>1, <3>2
    <2>2. MustTells(c, deps, disk, mk.phony)
      BY <1>3, <2>1 DEF FileTimes
    <2>3. CASE d.order
      <3>1. fr.must = c.must /\ CheckedPlain(fr, deps) = CheckedPlain(c, deps)
        BY <1>6, <1>8, <2>3
      <3> QED BY <1>6, <2>2, <3>1, Zenon DEF MustTells
    <2>4. CASE ~d.order
      <3>1. fr.must = rv.must /\ CheckedPlain(fr, deps) = CheckedPlain(c, deps) \cup {d.file}
        BY <1>6, <1>8, <2>4
      <3>2. rv.must <=> c.must \/ OutOfDate(d.file, c.this, disk, mk.phony)
        BY <1>3, <1>5
      <3>3. c.must <=> \/ c.this = Nonexistent
                       \/ \E x \in CheckedPlain(c, deps) : OutOfDate(x, c.this, disk, mk.phony)
        BY <2>2, Zenon DEF MustTells
      <3>4. fr.must <=> \/ c.this = Nonexistent
                        \/ \E x \in CheckedPlain(fr, deps) : OutOfDate(x, c.this, disk, mk.phony)
        BY ONLY <3>1, <3>2, <3>3, Zenon
      <3> QED BY <1>6, <3>4, Zenon DEF MustTells
    <2> QED BY <2>3, <2>4
  <1>10. FileTimes(fr, deps, disk, mk.phony, mk.alwaysMake)
    <2>1. fr.this = SeenTime(fr.f, disk, mk.phony)
      BY <1>3, <1>6 DEF FileTimes
    <2> QED BY <1>6, <1>9, <2>1 DEF FileTimes
  <1>11. /\ UNCHANGED <<command_state, update_status, jobs, runs, deps, mk, goals, upc, updating,
                        disk, now, old, exit>>
         /\ last_mtime' = Known(last_mtime, {d.file})
    BY <1>2, <1>4, Zenon DEF PrerequisiteChecked
  <1>12. Done' = Done
    BY <1>11, Zenon DEF Done
  <1>13. GlobalTimes'
    BY <1>1, <1>11, <1>12, GlobalSame
  <1>14. /\ fr.f = Top.f /\ fr.phase # "back" /\ fr.phase \notin {"job", "started"}
         /\ updating' \subseteq updating /\ Done \subseteq Done'
         /\ UNCHANGED <<mk, disk, deps, goals, exit, upc, command_state>>
    BY <1>2, <1>6, <1>11, <1>12
  <1> QED BY <1>1, <1>6, <1>10, <1>13, <1>14, TopTimes

-----------------------------------------------------------------------------
(* A file whose prerequisites have been considered.                        *)

(* What must_make tells when there is nothing to wait for: a prerequisite  *)
(* that is missing has set it already.                                     *)
LEMMA ReadyTime ==
  ASSUME OrdinaryMakefiles, BuildInv, NEW p \in {"finish", "job"}, InFile(p),
         NEW c, c = Top, ~c.running, c.status = 0
  PROVE  /\ c.this = SeenTime(c.f, disk, mk.phony)
         /\ c.must <=> \/ c.this = Nonexistent
                       \/ \E d \in PlainFiles(deps, c.f) : OutOfDate(d, c.this, disk, mk.phony)
         /\ PlainFiles(deps, c.f) \subseteq DepFiles(deps, c.f)
         /\ DepFiles(deps, c.f) \subseteq Done
         /\ MustMake(c) => mk.alwaysMake \/ c.must
         /\ ~MustMake(c) /\ mk.cmds[c.f] = "touch" => ~c.must
         /\ p = "job" => mk.alwaysMake \/ c.must
  <1>1. /\ c \in Calls /\ c.f \in Files /\ c.phase = p
        /\ FileTimes(c, deps, disk, mk.phony, mk.alwaysMake)
    BY TopTime
  <1>2. c.this = SeenTime(c.f, disk, mk.phony) /\ (p = "job" => mk.alwaysMake \/ c.must)
    BY <1>1 DEF FileTimes
  <1>3. CheckedPlain(c, deps) = PlainFiles(deps, c.f)
    BY <1>1 DEF CheckedPlain, PlainFiles
  <1>4. c.must <=> \/ c.this = Nonexistent
                   \/ \E d \in PlainFiles(deps, c.f) : OutOfDate(d, c.this, disk, mk.phony)
    <2>1. MustTells(c, deps, disk, mk.phony)
      BY <1>1 DEF FileTimes
    <2> QED BY <1>3, <2>1, Zenon DEF MustTells
  <1>5. PlainFiles(deps, c.f) \subseteq DepFiles(deps, c.f)
    BY Zenon DEF DepFiles, PlainFiles
  <1>6. DepFiles(deps, c.f) \subseteq Done /\ UpdateInv
    BY BuildParts, FinishIs
  <1>7. TimesKnown(last_mtime, disk, now, mk.phony) /\ Done \subseteq Files
    BY BuildParts
  <1>8. ASSUME NEW i \in DOMAIN deps[c.f], ~deps[c.f][i].order,
               mtime(deps[c.f][i].file) = Nonexistent
        PROVE  c.must
    <2>1. PICK d : d = deps[c.f][i].file
      OBVIOUS
    <2>2. d \in PlainFiles(deps, c.f)
      BY <1>8, <2>1 DEF PlainFiles
    <2>3. d \in Files
      BY <1>5, <1>6, <1>7, <2>2
    <2>4. SeenTime(d, disk, mk.phony) = Nonexistent
      BY <1>7, <1>8, <2>1, <2>3, TimeSeen
    <2>5. OutOfDate(d, c.this, disk, mk.phony)
      BY <2>4, Zenon DEF OutOfDate, Newer
    <2> QED BY <1>4, <2>2, <2>5
  <1>9. MustMake(c) => mk.alwaysMake \/ c.must
    BY <1>8, Zenon DEF MustMake
  <1>10. ~MustMake(c) /\ mk.cmds[c.f] = "touch" => ~c.must
    <2>1. mk.cmds[c.f] = "touch" => HasCommands(c.f)
      BY DEF HasCommands
    <2> QED BY <2>1, Zenon DEF MustMake
  <1> QED BY <1>2, <1>4, <1>5, <1>6, <1>9, <1>10

LEMMA RemakeWithTimes ==
  ASSUME OrdinaryMakefiles, BuildInv, UpdateInv', RemakeWith
  PROVE  BuildInv'
  <1>1. /\ InFile("finish") /\ ~Top.running /\ Top.status = 0 /\ MustMake(Top)
        /\ UpdateInv /\ GlobalTimes
    BY BuildParts DEF RemakeWith, Ready
  <1>2. PICK c : c = Top
    OBVIOUS
  <1>3. /\ c \in Calls /\ c.f \in Files /\ c.kind = "file" /\ c.phase = "finish"
        /\ FileTimes(c, deps, disk, mk.phony, mk.alwaysMake)
    BY <1>1, <1>2, TopTime
  <1>4. mk.alwaysMake \/ c.must
    BY <1>1, <1>2, ReadyTime
  <1>5. PICK fr : fr = [c EXCEPT !.phase = "job"]
    OBVIOUS
  <1>6. fr \in Calls /\ fr.f = c.f /\ fr.kind = "file" /\ fr.phase = "job" /\ SameAnswer(fr, c)
    <2>1. fr \in Calls
      BY <1>3, <1>5, PhaseIs
    <2> QED BY <1>3, <1>5, <2>1 DEF Calls, SameAnswer
  <1>7. FileTimes(fr, deps, disk, mk.phony, mk.alwaysMake)
    <2>1. CheckedPlain(fr, deps) = CheckedPlain(c, deps)
      BY <1>3, <1>6 DEF CheckedPlain
    <2>2. MustTells(c, deps, disk, mk.phony) => MustTells(fr, deps, disk, mk.phony)
      BY <1>6, <2>1, Zenon DEF MustTells, SameAnswer
    <2> QED BY <1>3, <1>4, <1>6, <2>2 DEF FileTimes, SameAnswer
  <1>8. /\ updating' = updating \ {c.f} /\ command_state' = Reset(c.f) /\ stack' = Becomes(fr)
        /\ UNCHANGED <<update_status, runs, jobs, deps, mk, goals, upc, disk, now, old, exit,
                       last_mtime>>
    BY <1>2, <1>5 DEF RemakeWith
  <1>9. command_state[c.f] \in {"not_started", "deps_running"}
    BY <1>1, <1>2, FinishIs
  <1>10. /\ command_state'[c.f] = "not_started"
         /\ \A x \in Files : x # c.f => command_state'[x] = command_state[x]
    BY <1>1, <1>3, <1>8, <1>9, SetStateIs, GroupsOf DEF StateTypes, Reset
  <1>11. Done' = Done
    BY <1>8, <1>9, <1>10, DoneSame DEF Done
  <1>12. GlobalTimes'
    BY <1>1, <1>8, <1>11, GlobalSame
  <1>13. /\ fr.f = Top.f /\ fr.phase # "back" /\ fr.f \notin updating'
         /\ updating' \subseteq updating /\ Done \subseteq Done'
         /\ \A x \in Files : x # Top.f => command_state'[x] = command_state[x]
    BY <1>2, <1>6, <1>8, <1>10, <1>11
  <1> QED BY <1>1, <1>6, <1>7, <1>8, <1>12, <1>13, TopTimes

(* The commands are started for a reason, and nothing has changed since    *)
(* make was started.                                                       *)
LEMMA StartCommandsTimes ==
  ASSUME OrdinaryMakefiles, BuildInv, UpdateInv', StartCommands
  PROVE  BuildInv'
  <1>1. InFile("job") /\ UpdateInv /\ GlobalTimes
    BY BuildParts DEF StartCommands
  <1>2. PICK c : c = Top
    OBVIOUS
  <1>3. PICK f : f = c.f
    OBVIOUS
  <1>4. /\ c \in Calls /\ f \in Files /\ c.kind = "file" /\ c.phase = "job" /\ f \notin updating
    BY <1>1, <1>2, <1>3, TopTime
  <1>5. /\ command_state[f] \in {"not_started", "deps_running"} /\ runs[f] = 0
        /\ ~c.running /\ c.status = 0
    BY <1>1, <1>2, <1>3, FinishIs
  <1>6. /\ c.this = SeenTime(f, disk, mk.phony)
        /\ c.must <=> \/ c.this = Nonexistent
                      \/ \E d \in PlainFiles(deps, f) : OutOfDate(d, c.this, disk, mk.phony)
        /\ DepFiles(deps, f) \subseteq Done
        /\ mk.alwaysMake \/ c.must
    BY <1>1, <1>2, <1>3, <1>5, ReadyTime
  <1>7. PICK fr : fr = [c EXCEPT !.phase = "started"]
    OBVIOUS
  <1>8. fr \in Calls /\ fr.f = f /\ fr.kind = "file" /\ fr.phase = "started"
    <2>1. fr \in Calls
      BY <1>4, <1>7, PhaseIs
    <2> QED BY <1>3, <1>4, <1>7, <2>1 DEF Calls
  <1>9. /\ jobs' = jobs \cup {f} /\ stack' = Becomes(fr)
        /\ command_state' = set_command_state(command_state, f, "running")
        /\ runs' = [runs EXCEPT ![f] = @ + 1]
        /\ UNCHANGED <<update_status, updating, deps, mk, goals, upc, disk, now, old, exit,
                       last_mtime>>
    BY <1>2, <1>3, <1>7 DEF StartCommands
  <1>10. /\ command_state'[f] = "running"
         /\ \A x \in Files : x # f => command_state'[x] = command_state[x]
    BY <1>1, <1>4, <1>9, SetStateIs, GroupsOf DEF StateTypes
  <1>11. Done' = Done
    BY <1>5, <1>9, <1>10, DoneSame DEF Done
  <1>12. runs'[f] = 1 /\ \A x \in Files : x # f => runs'[x] = runs[x]
    BY <1>1, <1>4, <1>5, <1>9, GroupsOf DEF StateTypes
  <1>13. Justified(mk, f, deps, Done, disk, old)
    <2>1. disk[f] = old[f]
      BY <1>1, <1>4, <1>5 DEF GlobalTimes
    <2>2. ASSUME ~mk.alwaysMake, f \notin mk.phony, old[f] # Nonexistent
          PROVE  \E d \in PlainFiles(deps, f) : OutOfDate(d, old[f], disk, mk.phony)
      <3>1. c.this = old[f]
        BY <1>6, <2>1, <2>2, Zenon DEF SeenTime
      <3> QED BY <1>6, <2>2, <3>1
    <2> QED BY <1>6, <2>2, Zenon DEF Justified
  <1>14. GlobalTimes'
    <2>1. \A x \in Files : runs'[x] = 1 => Justified(mk, x, deps, Done, disk, old)
      BY <1>1, <1>12, <1>13 DEF GlobalTimes
    <2>2. \A x \in Files : runs'[x] = 0 => disk[x] = old[x]
      BY <1>1, <1>12 DEF GlobalTimes
    <2>3. \A x \in jobs' : runs'[x] = 1
      <3>1. jobs \subseteq Files
        BY <1>1, GroupsOf DEF SetTypes
      <3> QED BY <1>1, <1>9, <1>12, <3>1 DEF GlobalTimes
    <2>4. \A x \in Done : UpToDate(mk, x, deps, Done, disk)
      BY <1>1, Zenon DEF GlobalTimes
    <2>5. TimesKnown(last_mtime, disk, now, mk.phony) /\ old \in [Files -> Nat]
      BY <1>1, Zenon DEF GlobalTimes
    <2>6. UNCHANGED <<last_mtime, disk, now, mk, old, deps>>
      BY <1>9
    <2> QED BY <1>11, <2>1, <2>2, <2>3, <2>4, <2>5, <2>6 DEF GlobalTimes
  <1>15. FileTimes(fr, deps, disk, mk.phony, mk.alwaysMake)
    BY <1>8 DEF FileTimes
  <1>16. /\ fr.f = Top.f /\ fr.phase # "back" /\ fr.f \notin updating'
         /\ updating' \subseteq updating /\ Done \subseteq Done'
         /\ \A x \in Files : x # Top.f => command_state'[x] = command_state[x]
    BY <1>2, <1>3, <1>4, <1>8, <1>9, <1>10, <1>11
  <1> QED BY <1>1, <1>8, <1>9, <1>14, <1>15, <1>16, TopTimes

-----------------------------------------------------------------------------
(* A file is finished, or waits.                                           *)

KnownTime(t, x, dk, ph) == (t = Unknown /\ x \notin ph) \/ t = SeenTime(x, dk, ph)

(* The time of a file that has commands is asked for again.                *)
LEMMA FinishedTime ==
  ASSUME OrdinaryMakefiles, mk \in Makefiles, NEW f \in Files, NEW cs, NEW us, NEW last, NEW dk,
         Finished(f, cs, us, last, dk), NEW nw, nw >= 1, \A x \in Files : dk[x] <= nw,
         \A x \in Files : x # f => KnownTime(last[x], x, dk, mk.phony),
         (cs[f] = "running" /\ f \notin mk.phony) \/ KnownTime(last[f], f, dk, mk.phony)
  PROVE  TimesKnown(last_mtime', dk, nw, mk.phony)
  <1>1. PICK with : with = IF cs[f] = "running" /\ us[f] # Unset THEN mk.also[f] ELSE {}
    OBVIOUS
  <1>2. with \subseteq {f}
    BY <1>1, Ordinary1
  <1>3. PICK lm : lm = last_mtime'
    OBVIOUS
  <1>4. lm = [x \in Files |->
             IF x = f /\ AskAgain(f, cs[f] = "running") THEN Unknown
             ELSE IF x \in with /\ x \notin mk.phony THEN dk[x] ELSE last[x]]
    BY <1>1, <1>3, Zenon DEF Finished
  <1>5. ASSUME NEW x \in Files
        PROVE  KnownTime(lm[x], x, dk, mk.phony)
    <2>1. CASE x # f
      <3>1. lm[x] = last[x]
        BY <1>2, <1>4, <2>1
      <3> QED BY <2>1, <3>1
    <2>2. CASE x = f
      <3>1. CASE cs[f] = "running" /\ f \notin mk.phony
        <4>1. lm[f] = Unknown
          BY <1>4, <3>1 DEF AskAgain
        <4> QED BY <2>2, <3>1, <4>1 DEF KnownTime
      <3>2. CASE ~(cs[f] = "running" /\ f \notin mk.phony)
        <4>1. ~AskAgain(f, cs[f] = "running") /\ KnownTime(last[f], f, dk, mk.phony)
          BY <3>2 DEF AskAgain
        <4>2. ~(f \in with /\ f \notin mk.phony)
          BY <1>1, <3>2
        <4>3. lm[f] = last[f]
          BY <1>4, <4>1, <4>2
        <4> QED BY <2>2, <4>1, <4>3
      <3> QED BY <3>1, <3>2
    <2> QED BY <2>1, <2>2
  <1> QED BY <1>3, <1>5, Zenon DEF TimesKnown, KnownTime

LEMMA FinishedTimes ==
  ASSUME OrdinaryMakefiles, BuildInv, UpdateInv', InFile("finish"), NEW f, f = Top.f,
         NEW cs \in [Files -> {"not_started", "deps_running", "running", "finished"}],
         \A x \in Files : x # f => cs[x] = command_state[x],
         NEW us \in [Files -> {Unset, 0, 2}],
         \A x \in Files : x # f => us[x] = update_status[x],
         Finished(f, cs, us, last_mtime, disk), NEW s, Return(s, FALSE),
         us[f] = 2 \/ UpToDate(mk, f, deps, Done, disk),
         updating' = updating \ {f},
         UNCHANGED <<runs, jobs, deps, mk, goals, upc, disk, now, old, exit>>
  PROVE  BuildInv'
  <1>1. UpdateInv /\ GlobalTimes /\ mk \in Makefiles /\ Done \subseteq Files
    BY BuildParts
  <1>2. f \in Files /\ command_state[f] \in {"not_started", "deps_running"}
    BY <1>1, FinishIs
  <1>3. /\ command_state'[f] = "finished"
        /\ update_status'[f] = IF us[f] = Unset THEN 0 ELSE us[f]
        /\ \A x \in Files : x # f => /\ command_state'[x] = cs[x] /\ update_status'[x] = us[x]
    <2>1. updated \in [Files -> BOOLEAN] /\ last_mtime \in Times /\ disk \in [Files -> Nat]
      BY <1>1, GroupsOf DEF StateTypes, FileTypes
    <2>2. /\ cs \in [Files -> {"not_started", "deps_running", "running", "finished"}]
          /\ us \in [Files -> {Unset, 0, 2}] /\ Finished(f, cs, us, last_mtime, disk)
      OBVIOUS
    <2> QED BY ONLY OrdinaryMakefiles, <1>1, <1>2, <2>1, <2>2, FinishedIs
  <1>4. \A x \in Files : x # f => /\ command_state'[x] = command_state[x]
                                  /\ update_status'[x] = update_status[x]
    BY <1>3
  <1>5. Done \subseteq Done'
    <2>1. command_state[f] # "finished"
      BY <1>2
    <2>2. DoneFiles(command_state, update_status) \subseteq DoneFiles(command_state', update_status')
      BY ONLY <1>4, <2>1, DoneStays
    <2> QED BY <2>2 DEF Done
  <1>6. TimesKnown(last_mtime', disk, now, mk.phony)
    <2>1. TimesKnown(last_mtime, disk, now, mk.phony)
      BY BuildParts
    <2>2. now >= 1 /\ \A x \in Files : disk[x] <= now
      BY <2>1, Zenon DEF TimesKnown
    <2>3. \A x \in Files : KnownTime(last_mtime[x], x, disk, mk.phony)
      BY <2>1, Zenon DEF TimesKnown, KnownTime
    <2> QED BY <1>1, <1>2, <2>2, <2>3, FinishedTime
  <1>7. ASSUME NEW x \in Done'
        PROVE  x \in Done \/ UpToDate(mk, x, deps, Done', disk)
    <2>1. x \in Files /\ command_state'[x] = "finished" /\ update_status'[x] = 0
      BY <1>7, Zenon DEF Done, DoneFiles
    <2>2. CASE x = f
      <3>1. us[f] # 2
        BY <1>3, <2>1, <2>2 DEF Unset
      <3>2. UpToDate(mk, f, deps, Done, disk)
        BY <3>1
      <3> QED BY <1>5, <2>2, <3>2, UpToDateStays
    <2>3. CASE x # f
      BY <1>4, <2>1, <2>3 DEF Done, DoneFiles
    <2> QED BY <2>2, <2>3
  <1>8. GlobalTimes'
    <2>1. UNCHANGED <<mk, old, runs, disk, deps>> /\ jobs' \subseteq jobs /\ now' = now
      OBVIOUS
    <2> QED BY <1>1, <1>5, <1>6, <1>7, <2>1, GlobalStays
  <1>9. /\ upc = "pass" /\ stack # <<>> /\ Top.kind = "file" /\ stack' = Front(stack)
        /\ \A x \in updating' : x \in updating /\ x # Top.f
        /\ \A x \in Files : x # Top.f => command_state'[x] = command_state[x]
    BY <1>4 DEF InFile, Return
  <1>10. UNCHANGED <<mk, disk, deps, goals, exit, upc>>
    OBVIOUS
  <1> QED BY <1>5, <1>8, <1>9, <1>10, ReturnTimes

LEMMA WaitTimes ==
  ASSUME OrdinaryMakefiles, BuildInv, UpdateInv', WaitForPrerequisites
  PROVE  BuildInv'
  <1>1. InFile("finish") /\ UpdateInv /\ GlobalTimes
    BY BuildParts DEF WaitForPrerequisites
  <1>2. PICK f : f = Top.f
    OBVIOUS
  <1>3. f \in Files /\ command_state[f] \in {"not_started", "deps_running"}
    BY <1>1, <1>2, FinishIs
  <1>4. /\ updating' = updating \ {f} /\ stack' = Front(stack)
        /\ command_state' = set_command_state(command_state, f, "deps_running")
        /\ UNCHANGED <<update_status, runs, jobs, deps, mk, goals, upc, disk, now, old, exit,
                       last_mtime>>
    BY <1>2 DEF WaitForPrerequisites, Return
  <1>5. /\ command_state'[f] = "deps_running"
        /\ \A x \in Files : x # f => command_state'[x] = command_state[x]
    BY <1>1, <1>3, <1>4, SetStateIs, GroupsOf DEF StateTypes
  <1>6. Done' = Done
    BY <1>3, <1>4, <1>5, DoneSame DEF Done
  <1>7. GlobalTimes'
    BY <1>1, <1>4, <1>6, GlobalSame
  <1>8. /\ upc = "pass" /\ stack # <<>> /\ Top.kind = "file"
        /\ \A x \in updating' : x \in updating /\ x # Top.f
        /\ \A x \in Files : x # Top.f => command_state'[x] = command_state[x]
    BY <1>1, <1>2, <1>4, <1>5 DEF InFile
  <1> QED BY <1>4, <1>6, <1>7, <1>8, ReturnTimes

LEMMA CommandsStartedTimes ==
  ASSUME BuildInv, UpdateInv', CommandsStarted
  PROVE  BuildInv'
  <1>1. InFile("started") /\ UpdateInv /\ GlobalTimes
    BY BuildParts DEF CommandsStarted
  <1>2. Top.f \notin updating
    BY <1>1, TopTime
  <1>3. /\ stack' = Front(stack)
        /\ UNCHANGED <<command_state, update_status, updating, runs, jobs, deps, mk, goals, upc,
                       disk, now, old, exit, last_mtime>>
    BY DEF CommandsStarted, Return, fileVars
  <1>4. Done' = Done
    BY <1>3, Zenon DEF Done
  <1>5. GlobalTimes'
    BY <1>1, <1>3, <1>4, GlobalSame
  <1>6. /\ upc = "pass" /\ stack # <<>> /\ Top.kind = "file"
        /\ \A x \in updating' : x \in updating /\ x # Top.f
        /\ \A x \in Files : x # Top.f => command_state'[x] = command_state[x]
    BY <1>1, <1>2, <1>3 DEF InFile
  <1> QED BY <1>3, <1>4, <1>5, <1>6, ReturnTimes

(* make dies: what it has done is looked at only when it reports success.  *)
LEMMA Dies ==
  ASSUME UpdateInv', GlobalTimes', upc' \in {"dying", "exited"}, exit' = 0 => AllDone'
  PROVE  BuildInv'
  <1>1. ~Live'
    BY DEF Live
  <1> QED BY <1>1, Zenon DEF BuildInv

(* Nothing is remade that must be: what has commands that write it was not *)
(* missing, and no prerequisite is newer.                                  *)
LEMMA FinishTimes ==
  ASSUME OrdinaryMakefiles, BuildInv, UpdateInv', GiveUp \/ NoNeedToRemake \/ RemakeWithout
  PROVE  BuildInv'
  <1>1. PICK f : f = Top.f
    OBVIOUS
  <1>2. InFile("finish") /\ UpdateInv /\ GlobalTimes
    BY BuildParts DEF GiveUp, NoNeedToRemake, RemakeWithout, Ready
  <1>3. /\ f \in Files /\ update_status[f] = Unset
        /\ command_state[f] \in {"not_started", "deps_running"}
    BY <1>1, <1>2, FinishIs
  <1>4. /\ command_state \in [Files -> {"not_started", "deps_running", "running", "finished"}]
        /\ update_status \in [Files -> {Unset, 0, 2}] /\ mk \in Makefiles
        /\ disk \in [Files -> Nat]
    BY <1>2, GroupsOf DEF StateTypes, FileTypes
  <1>5. Top.status \in {0, 2}
    BY <1>2, FileOnTop, CallIs
  <1>6. PICK rs : rs = Reset(f)
    OBVIOUS
  <1>7. /\ rs \in [Files -> {"not_started", "deps_running", "running", "finished"}]
        /\ \A x \in Files : x # f => rs[x] = command_state[x]
    BY <1>3, <1>4, <1>6, SetStateIs DEF Reset
  <1>8. CASE GiveUp
    <2>1. PICK us : us = [update_status EXCEPT ![f] = Top.status]
      OBVIOUS
    <2>2. /\ us \in [Files -> {Unset, 0, 2}] /\ us[f] = 2
          /\ \A x \in Files : x # f => us[x] = update_status[x]
      BY <1>3, <1>4, <1>5, <1>8, <2>1 DEF GiveUp
    <2>3. /\ updating' = updating \ {f} /\ Return(Top.status, FALSE)
          /\ Finished(f, command_state, us, last_mtime, disk)
          /\ UNCHANGED <<runs, jobs, deps, mk, goals, upc, disk, now, old, exit>>
      BY <1>1, <1>8, <2>1 DEF GiveUp
    <2> QED BY <1>1, <1>2, <1>4, <2>2, <2>3, FinishedTimes
  <1>9. CASE NoNeedToRemake
    <2>1. /\ updating' = updating \ {f} /\ Return(0, FALSE)
          /\ Finished(f, rs, update_status, last_mtime, disk)
          /\ UNCHANGED <<runs, jobs, deps, mk, goals, upc, disk, now, old, exit>>
      BY <1>1, <1>6, <1>9 DEF NoNeedToRemake
    <2>2. PICK c : c = Top
      OBVIOUS
    <2>3. ~c.running /\ c.status = 0 /\ ~MustMake(c)
      BY <1>9, <2>2 DEF NoNeedToRemake, Ready
    <2>4. /\ c.this = SeenTime(f, disk, mk.phony)
          /\ c.must <=> \/ c.this = Nonexistent
                        \/ \E d \in PlainFiles(deps, f) : OutOfDate(d, c.this, disk, mk.phony)
          /\ PlainFiles(deps, f) \subseteq DepFiles(deps, f)
          /\ DepFiles(deps, f) \subseteq Done
          /\ mk.cmds[f] = "touch" => ~c.must
      BY <1>1, <1>2, <2>2, <2>3, ReadyTime
    <2>5. ASSUME mk.cmds[f] = "touch", f \notin mk.phony
          PROVE  disk[f] # Nonexistent /\ \A d \in PlainFiles(deps, f) : disk[d] <= disk[f]
      <3>1. c.this = disk[f]
        BY <2>4, <2>5 DEF SeenTime
      <3>2. disk[f] # Nonexistent
        BY <2>4, <2>5, <3>1
      <3>3. ASSUME NEW d \in PlainFiles(deps, f)
            PROVE  disk[d] <= disk[f]
        <4>1. ~Newer(SeenTime(d, disk, mk.phony), disk[f])
          BY <2>4, <2>5, <3>1 DEF OutOfDate
        <4>2. SeenTime(d, disk, mk.phony) = disk[d]
          BY <4>1, Zenon DEF SeenTime, Newer
        <4>3. ~(disk[d] > disk[f])
          BY <4>1, <4>2, Zenon DEF Newer
        <4>4. d \in Files
          BY <2>4, BuildParts
        <4> QED BY <1>3, <1>4, <4>3, <4>4
      <3> QED BY <3>2, <3>3
    <2>6. UpToDate(mk, f, deps, Done, disk)
      BY <2>4, <2>5, Zenon DEF UpToDate
    <2> QED BY <1>1, <1>2, <1>4, <1>7, <2>1, <2>6, FinishedTimes
  <1>10. CASE RemakeWithout
    <2>1. PICK norule : norule = (mk.cmds[f] = "none" /\ f \notin mk.phony \cup mk.targets)
      OBVIOUS
    <2>2. PICK status : status = IF norule THEN 2 ELSE 0
      OBVIOUS
    <2>3. PICK cs : cs = IF mk.cmds[f] = "empty" THEN set_command_state(rs, f, "running") ELSE rs
      OBVIOUS
    <2>4. PICK us : us = [update_status EXCEPT ![f] = status]
      OBVIOUS
    <2>5. CASE norule /\ ~mk.keepGoing
      <3>1. /\ upc' = "dying" /\ exit' = 2
            /\ UNCHANGED <<command_state, update_status, last_mtime, runs, jobs, deps, mk, disk,
                           now, old>>
        BY <1>1, <1>10, <2>1, <2>5 DEF RemakeWithout, fileVars
      <3>2. Done' = Done
        BY <3>1, Zenon DEF Done
      <3>3. GlobalTimes'
        BY <1>2, <3>1, <3>2, GlobalSame
      <3> QED BY <3>1, <3>3, Dies
    <2>6. CASE ~(norule /\ ~mk.keepGoing)
      <3>1. /\ us \in [Files -> {Unset, 0, 2}] /\ us[f] = status
            /\ \A x \in Files : x # f => us[x] = update_status[x]
        BY <1>3, <1>4, <2>2, <2>4
      <3>2. /\ cs \in [Files -> {"not_started", "deps_running", "running", "finished"}]
            /\ \A x \in Files : x # f => cs[x] = command_state[x]
        <4>1. PICK ru : ru = set_command_state(rs, f, "running")
          OBVIOUS
        <4>2. /\ ru \in [Files -> {"not_started", "deps_running", "running", "finished"}]
              /\ \A x \in Files : x # f => ru[x] = rs[x]
          BY <1>3, <1>4, <1>7, <4>1, SetStateIs
        <4>3. cs = ru \/ cs = rs
          BY <2>3, <4>1
        <4> QED BY <1>7, <4>2, <4>3
      <3>3. /\ updating' = updating \ {f}
            /\ Finished(f, cs, us, last_mtime, disk) /\ Return(status, FALSE)
            /\ UNCHANGED <<runs, jobs, deps, mk, goals, upc, disk, now, old, exit>>
        BY <1>1, <1>6, <1>10, <2>1, <2>2, <2>3, <2>4, <2>6 DEF RemakeWithout
      <3>4. UpToDate(mk, f, deps, Done, disk)
        <4>1. mk.cmds[f] # "touch" /\ ~Top.running /\ Top.status = 0
          BY <1>1, <1>10 DEF RemakeWithout, Ready
        <4>2. DepFiles(deps, f) \subseteq Done
          BY <1>1, <1>2, <4>1, ReadyTime
        <4> QED BY <4>1, <4>2 DEF UpToDate
      <3> QED BY ONLY OrdinaryMakefiles, BuildInv, UpdateInv', <1>1, <1>2, <3>1, <3>2, <3>3, <3>4,
                      FinishedTimes, ZenonT(60)
    <2> QED BY <2>5, <2>6
  <1> QED BY <1>8, <1>9, <1>10

-----------------------------------------------------------------------------
(* The call on top makes another one.                                      *)

LEMMA CallTimesStep ==
  ASSUME BuildInv, UpdateInv', upc = "pass", stack # <<>>,
         NEW fr \in Calls, fr.f = Top.f, fr.kind = Top.kind, fr.must = Top.must,
         fr.this = Top.this, fr.phase \in {"back", "updated"},
         fr.kind = "file" => FileTimes(fr, deps, disk, mk.phony, mk.alwaysMake),
         NEW g \in Calls, g.phase = "dep", g.f = fr.f \/ g.f \in DepFiles(deps, fr.f),
         g.kind = "file" => FileTimes(g, deps, disk, mk.phony, mk.alwaysMake),
         fr.kind = "file" => g.must = fr.must /\ g.this = fr.this,
         stack' = Append(Becomes(fr), g), updating' = updating \cup {g.f},
         GlobalTimes', Done \subseteq Done',
         UNCHANGED <<mk, disk, deps, goals, exit, upc, command_state>>
  PROVE  BuildInv'
  <1>1. /\ CallTimes /\ GoalsLeft /\ Top = Last(stack)
        /\ StackOk(stack, command_state, deps, updating, Visited, Done, pass, mk.keepGoing)
        /\ CallsOk(stack, deps, disk, mk.phony, mk.alwaysMake, updating, ToSet(mk.goals))
    BY PassParts
  <1>2. stack \in Seq(Calls) /\ UpdateInv
    BY BuildParts
  <1>3. PICK st : st = Becomes(fr)
    OBVIOUS
  <1>4. st = Append(Front(stack), fr)
    BY <1>3 DEF Becomes
  <1>5. st \in Seq(Calls) /\ st # <<>> /\ Last(st) = fr
    BY <1>2, <1>3, BecomesIs, GroupsOf
  <1>6. CallsOk(st, deps, disk, mk.phony, mk.alwaysMake, updating, ToSet(mk.goals))
    <2>1. Len(stack) > 1 => (stack[Len(stack) - 1].kind = "file" => fr.kind = "check")
      <3>1. Len(stack) > 1 => (stack[Len(stack) - 1].kind = "file" => Last(stack).kind = "check")
        BY <1>1, <1>2, BelowKind, Zenon
      <3> QED BY <1>1, <3>1
    <2>2. /\ fr.f = Last(stack).f /\ fr.kind = Last(stack).kind
          /\ fr.must = Last(stack).must /\ fr.this = Last(stack).this
          /\ fr.phase \notin {"job", "started"}
      BY <1>1
    <2> QED BY <1>1, <1>2, <1>4, <2>1, <2>2, CallsBecome
  <1>7. stack' = Append(st, g)
    BY <1>3
  <1>8. CallsOk(stack', deps, disk, mk.phony, mk.alwaysMake, updating', ToSet(mk.goals))
    <2>1. updating' \subseteq updating \cup {g.f}
      OBVIOUS
    <2>2. Last(st).kind = "file" => g.must = Last(st).must /\ g.this = Last(st).this
      BY <1>5
    <2> QED BY <1>5, <1>6, <1>7, <2>1, <2>2, CallsCall
  <1>9. NewerAnswered(stack', deps, disk, mk.phony, rv'.must)
    <2>1. Last(stack') = g
      BY <1>5, <1>7, LastPushed
    <2> QED BY <2>1 DEF NewerAnswered
  <1>10. CallTimes'
    BY <1>8, <1>9, Zenon DEF CallTimes
  <1>11. fr.f \in Met /\ Met' = Met \cup {g.f}
    <2>1. StackFiles(st) = StackFiles(stack) /\ fr.f \in StackFiles(stack)
      BY <1>1, <1>2, <1>4, StackFilesBecome
    <2>2. StackFiles(stack') = StackFiles(stack) \cup {g.f}
      BY <1>5, <1>7, <2>1, StackFilesPushed
    <2>3. Met = {x \in Files : command_state[x] # "not_started"} \cup StackFiles(stack)
      BY MetIs DEF Met
    <2>4. Met' = {x \in Files : command_state'[x] # "not_started"} \cup StackFiles(stack')
      BY MetIs DEF Met
    <2> QED BY <2>1, <2>2, <2>3, <2>4
  <1>12. Reached(Met', deps', ToSet(mk.goals))
    <2>1. Reached(Met, deps, ToSet(mk.goals))
      BY <1>1, Zenon DEF GoalsLeft
    <2>2. CASE g.f = fr.f
      <3>1. Met' \subseteq Met
        BY <1>11, <2>2
      <3>2. Reached(Met', deps, ToSet(mk.goals))
        BY <2>1, <3>1, ReachedStays
      <3> QED BY <3>2
    <2>3. CASE g.f \in DepFiles(deps, fr.f)
      <3>1. Met' \subseteq Met \cup {g.f}
        BY <1>11
      <3>2. Reached(Met', deps, ToSet(mk.goals))
        BY <1>11, <2>1, <2>3, <3>1, ReachedMore
      <3> QED BY <3>2
    <2> QED BY <2>2, <2>3
  <1>13. GoalsLeft'
    BY <1>1, <1>12, GoalsKept
  <1>14. Live'
    BY DEF Live
  <1> QED BY <1>10, <1>13, <1>14, StillLive

LEMMA CheckPrerequisiteTimes ==
  ASSUME BuildInv, UpdateInv', CheckPrerequisite
  PROVE  BuildInv'
  <1>1. InFile("dep") /\ UpdateInv /\ GlobalTimes
    BY BuildParts DEF CheckPrerequisite
  <1>2. PICK c : c = Top
    OBVIOUS
  <1>3. /\ c \in Calls /\ c.f \in Files /\ c.kind = "file" /\ c.phase = "dep"
        /\ FileTimes(c, deps, disk, mk.phony, mk.alwaysMake)
    BY <1>1, <1>2, TopTime
  <1>4. PICK d : d = Dep(c).file
    OBVIOUS
  <1>5. d \in Files /\ c.i \in DOMAIN deps[c.f] /\ d = deps[c.f][c.i].file
    <2>1. ~PastEnd(c)
      BY <1>2 DEF CheckPrerequisite
    <2> QED BY <1>1, <1>3, <1>4, <2>1, DepIs, GroupsOf
  <1>6. PICK back : back = [c EXCEPT !.phase = "back", !.before = mtime(d)]
    OBVIOUS
  <1>7. PICK g : g = Frame("check", d, c.must, c.this)
    OBVIOUS
  <1>8. /\ updating' = updating \cup {d} /\ stack' = Append(Becomes(back), g)
        /\ last_mtime' = Known(last_mtime, {d})
        /\ UNCHANGED <<command_state, update_status, jobs, runs, deps, mk, goals, upc, disk, now,
                       old, exit>>
    BY <1>2, <1>4, <1>6, <1>7 DEF CheckPrerequisite
  <1>9. back \in Calls /\ g \in Calls
    <2>1. mtime(d) \in Nat
      BY <1>1, <1>5, TimeIs, GroupsOf
    <2>2. back \in Calls
      BY <1>3, <1>6, <2>1 DEF Calls
    <2> QED BY <1>3, <1>5, <1>7, <2>2, CallIs, FrameIs
  <1>10. /\ back.f = c.f /\ back.kind = "file" /\ back.phase = "back" /\ back.i = c.i
         /\ SameAnswer(back, c)
    BY <1>3, <1>6 DEF Calls, SameAnswer
  <1>11. g.f = d /\ g.kind = "check" /\ g.phase = "dep" /\ g.must = c.must /\ g.this = c.this
    BY <1>7 DEF Frame
  <1>12. FileTimes(back, deps, disk, mk.phony, mk.alwaysMake)
    <2>1. CheckedPlain(back, deps) = CheckedPlain(c, deps)
      BY <1>3, <1>10 DEF CheckedPlain
    <2>2. MustTells(c, deps, disk, mk.phony) => MustTells(back, deps, disk, mk.phony)
      BY <1>10, <2>1, Zenon DEF MustTells, SameAnswer
    <2> QED BY <1>3, <1>10, <2>2 DEF FileTimes, SameAnswer
  <1>13. d \in DepFiles(deps, c.f)
    BY <1>5 DEF DepFiles
  <1>14. Done' = Done
    BY <1>8, Zenon DEF Done
  <1>15. GlobalTimes'
    BY <1>1, <1>8, <1>14, GlobalSame
  <1>16. /\ upc = "pass" /\ stack # <<>> /\ back.f = Top.f /\ back.kind = Top.kind
         /\ back.must = Top.must /\ back.this = Top.this /\ back.phase \in {"back", "updated"}
         /\ g.f \in DepFiles(deps, back.f) /\ g.kind # "file"
         /\ g.must = back.must /\ g.this = back.this /\ updating' = updating \cup {g.f}
         /\ Done \subseteq Done'
    BY <1>1, <1>2, <1>3, <1>8, <1>10, <1>11, <1>13, <1>14 DEF InFile, SameAnswer
  <1> QED BY <1>8, <1>9, <1>11, <1>12, <1>15, <1>16, CallTimesStep

(* The call of update_file_1 that begins. *)
LEMMA NewTimes ==
  ASSUME BuildInv, NEW f \in Files,
         NEW g, g = Frame("file", f, mtime(f) = Nonexistent, mtime(f))
  PROVE  /\ g \in Calls /\ g.f = f /\ g.kind = "file" /\ g.phase = "dep"
         /\ FileTimes(g, deps, disk, mk.phony, mk.alwaysMake)
  <1>1. UpdateInv /\ TimesKnown(last_mtime, disk, now, mk.phony)
    BY BuildParts
  <1>2. PICK t \in Nat : t = mtime(f)
    BY <1>1, TimeIs, GroupsOf
  <1>3. PICK m \in BOOLEAN : m = (t = Nonexistent)
    OBVIOUS
  <1>4. g = Frame("file", f, m, t)
    BY <1>2, <1>3
  <1>5. /\ g.f = f /\ g.kind = "file" /\ g.phase = "dep" /\ g.i = 1 /\ g.must = m /\ g.this = t
    BY <1>4 DEF Frame
  <1>6. g \in Calls
    BY <1>4, FrameIs
  <1>7. t = SeenTime(f, disk, mk.phony)
    BY <1>1, <1>2, TimeSeen
  <1>8. CheckedPlain(g, deps) = {}
    <2>1. deps[f] \in Seq([file : Files, order : BOOLEAN])
      BY <1>1, GroupsOf DEF DepTypes
    <2>2. \A k \in DOMAIN deps[f] : ~(k < 1)
      BY <2>1
    <2> QED BY <1>5, <2>2 DEF CheckedPlain
  <1>9. MustTells(g, deps, disk, mk.phony)
    BY <1>3, <1>5, <1>8 DEF MustTells
  <1> QED BY <1>5, <1>6, <1>7, <1>9 DEF FileTimes

LEMMA CheckOrdinaryTimes ==
  ASSUME BuildInv, UpdateInv', CheckOrdinary
  PROVE  BuildInv'
  <1>1. /\ upc = "pass" /\ stack # <<>> /\ Top.kind = "check" /\ UpdateInv /\ GlobalTimes
    BY BuildParts DEF CheckOrdinary, InCheck
  <1>2. PICK c : c = Top
    OBVIOUS
  <1>3. PICK f : f = c.f
    OBVIOUS
  <1>4. /\ CallTimes /\ GoalsLeft /\ c = Last(stack) /\ c \in Calls /\ f \in Files
        /\ CallsOk(stack, deps, disk, mk.phony, mk.alwaysMake, updating, ToSet(mk.goals))
    BY <1>1, <1>2, <1>3, PassParts
  <1>5. PICK fr : fr = [c EXCEPT !.phase = "updated"]
    OBVIOUS
  <1>6. /\ fr \in Calls /\ fr.f = f /\ fr.kind = "check" /\ fr.phase = "updated"
        /\ fr.must = c.must /\ fr.this = c.this
    <2>1. fr \in Calls
      BY <1>4, <1>5, PhaseIs
    <2> QED BY <1>1, <1>2, <1>3, <1>4, <1>5, <2>1 DEF Calls
  <1>7. /\ update_file(f, Becomes(fr))
        /\ UNCHANGED <<command_state, update_status, jobs, runs, deps, mk, goals, upc, disk, now,
                       old, exit>>
    BY <1>2, <1>3, <1>5, Zenon DEF CheckOrdinary
  <1>8. Done' = Done
    BY <1>7, Zenon DEF Done
  <1>9. CASE Settled(f)
    <2>1. stack' = Becomes(fr) /\ UNCHANGED <<updating, last_mtime>>
      BY <1>7, <1>9 DEF update_file
    <2>2. stack \in Seq(Calls)
      BY BuildParts
    <2>3. stack' = Append(Front(stack), fr)
      BY <2>1 DEF Becomes
    <2>4. CallsOk(stack', deps, disk, mk.phony, mk.alwaysMake, updating', ToSet(mk.goals))
      <3>1. /\ fr.f = Last(stack).f /\ fr.kind = Last(stack).kind
            /\ fr.must = Last(stack).must /\ fr.this = Last(stack).this
            /\ fr.phase \notin {"job", "started"} /\ fr.kind # "file" /\ updating' \subseteq updating
        BY <1>1, <1>2, <1>3, <1>4, <1>6, <2>1
      <3> QED BY <1>1, <1>4, <1>6, <2>2, <2>3, <3>1, CallsBecome
    <2>5. NewerAnswered(stack', deps, disk, mk.phony, rv'.must)
      <3>1. Last(stack') = fr
        BY <1>1, <1>6, <2>1, BecomesIs, GroupsOf
      <3> QED BY <1>6, <3>1 DEF NewerAnswered
    <2>6. CallTimes'
      BY <1>7, <2>4, <2>5, Zenon DEF CallTimes
    <2>7. Met' \subseteq Met
      <3>1. \A x \in Files : x # fr.f => command_state'[x] = command_state[x]
        BY <1>7
      <3>2. fr.f = Last(stack).f
        BY <1>3, <1>4, <1>6
      <3> QED BY <1>1, <1>6, <2>2, <2>3, <3>1, <3>2, MetBecomes DEF Met
    <2>8. Reached(Met', deps', ToSet(mk.goals))
      <3>1. Reached(Met, deps, ToSet(mk.goals))
        BY <1>4, Zenon DEF GoalsLeft
      <3>2. Reached(Met', deps, ToSet(mk.goals))
        BY <2>7, <3>1, ReachedStays
      <3> QED BY <1>7, <3>2
    <2>9. GoalsLeft'
      BY <1>4, <1>7, <1>8, <2>8, GoalsKept
    <2>10. GlobalTimes'
      BY <1>1, <1>7, <1>8, <2>1, GlobalSame
    <2>11. Live'
      BY <1>1, <1>7 DEF Live
    <2> QED BY <2>6, <2>9, <2>10, <2>11, StillLive
  <1>10. CASE ~Settled(f)
    <2>1. PICK g : g = Frame("file", f, mtime(f) = Nonexistent, mtime(f))
      OBVIOUS
    <2>2. /\ updating' = updating \cup {f} /\ stack' = Append(Becomes(fr), g)
          /\ last_mtime' = Known(last_mtime, {f})
      BY <1>7, <1>10, <2>1 DEF update_file
    <2>3. /\ g \in Calls /\ g.f = f /\ g.kind = "file" /\ g.phase = "dep"
          /\ FileTimes(g, deps, disk, mk.phony, mk.alwaysMake)
      BY <1>4, <2>1, NewTimes
    <2>4. GlobalTimes'
      BY <1>1, <1>7, <1>8, <2>2, GlobalSame
    <2>5. /\ fr.f = Top.f /\ fr.kind = Top.kind /\ fr.must = Top.must /\ fr.this = Top.this
          /\ fr.phase \in {"back", "updated"} /\ g.f = fr.f /\ fr.kind # "file"
          /\ updating' = updating \cup {g.f} /\ Done \subseteq Done'
      BY <1>1, <1>2, <1>3, <1>6, <1>8, <2>2, <2>3
    <2> QED BY <1>1, <1>6, <1>7, <2>2, <2>3, <2>4, <2>5, CallTimesStep
  <1> QED BY <1>9, <1>10

(* check_dep answers whether the prerequisite is newer now.                *)
LEMMA OrdinaryUpdatedTimes ==
  ASSUME BuildInv, UpdateInv', OrdinaryUpdated
  PROVE  BuildInv'
  <1>1. upc = "pass" /\ stack # <<>> /\ Top.kind = "check" /\ UpdateInv /\ GlobalTimes
    BY BuildParts DEF OrdinaryUpdated, InCheck
  <1>2. PICK c : c = Top
    OBVIOUS
  <1>3. PICK f : f = c.f
    OBVIOUS
  <1>4. /\ c = Last(stack) /\ f \in Files
        /\ StackOk(stack, command_state, deps, updating, Visited, Done, pass, mk.keepGoing)
        /\ CallsOk(stack, deps, disk, mk.phony, mk.alwaysMake, updating, ToSet(mk.goals))
    BY <1>1, <1>2, <1>3, PassParts
  <1>5. stack \in Seq(Calls) /\ TimesKnown(last_mtime, disk, now, mk.phony)
    BY BuildParts
  <1>6. /\ updating' = updating \ {f} /\ stack' = Front(stack)
        /\ rv'.must = (c.must \/ Newer(mtime(f), c.this))
        /\ last_mtime' = Known(last_mtime, {f})
        /\ UNCHANGED <<command_state, update_status, jobs, runs, deps, mk, goals, upc, disk, now,
                       old, exit>>
    BY <1>2, <1>3 DEF OrdinaryUpdated, Return
  <1>7. ASSUME stack' # <<>>
        PROVE  /\ Last(stack').kind = "file" => f = deps[Last(stack').f][Last(stack').i].file
               /\ Last(stack').kind = "file" => c.must = Last(stack').must /\ c.this = Last(stack').this
    <2>1. Last(stack') \in Calls /\ Nested(Last(stack'), Last(stack), deps)
      BY <1>1, <1>4, <1>5, <1>6, <1>7, CallBelow
    <2>2. PICK n \in Nat : Len(stack) = n + 1
      BY <1>1, <1>5, NonEmpty
    <2>3. PICK t : t = stack'
      OBVIOUS
    <2>4. IsPopped(t, stack)
      BY <1>1, <1>5, <1>6, <2>3, CallPopped
    <2>5. Len(t) = n /\ n # 0 /\ t[n] = stack[n]
      <3>1. t \in Seq(Calls) /\ Len(t) = n /\ \A k \in 1 .. n : t[k] = stack[k]
        BY <2>2, <2>4 DEF IsPopped
      <3>2. n # 0
        BY <1>7, <2>3, <3>1
      <3> QED BY <3>1, <3>2
    <2>6. Last(t) = stack[n] /\ c = stack[n + 1] /\ n \in 1 .. Len(stack) - 1
      BY <1>4, <2>2, <2>5 DEF Last
    <2>7. stack[n].kind = "file" => c.must = stack[n].must /\ c.this = stack[n].this
      BY <1>4, <2>6 DEF CallsOk
    <2> QED BY <1>3, <1>4, <2>1, <2>3, <2>6, <2>7 DEF Nested
  <1>8. NewerAnswered(stack', deps, disk, mk.phony, rv'.must)
    <2>1. mtime(f) = SeenTime(f, disk, mk.phony)
      BY <1>4, <1>5, TimeSeen
    <2>2. rv'.must <=> c.must \/ OutOfDate(f, c.this, disk, mk.phony)
      BY <1>6, <2>1 DEF OutOfDate
    <2> QED BY <1>7, <2>2 DEF NewerAnswered
  <1>9. Done' = Done
    BY <1>6, Zenon DEF Done
  <1>10. GlobalTimes'
    BY <1>1, <1>6, <1>9, GlobalSame
  <1>11. /\ \A x \in updating' : x \in updating /\ x # Top.f
         /\ \A x \in Files : x # Top.f => command_state'[x] = command_state[x]
         /\ Done \subseteq Done'
    BY <1>2, <1>3, <1>6, <1>9
  <1> QED BY <1>1, <1>6, <1>8, <1>10, <1>11, ReturnTimes

-----------------------------------------------------------------------------
(* A prerequisite is dropped: it is on the stack, so that it is needed     *)
(* without it as well.                                                     *)

DepKept(dp, dp2, f, i) ==
  /\ DepFiles(dp, f) \subseteq DepFiles(dp2, f) \cup {dp[f][i].file}
  /\ \A k \in DOMAIN dp[f] : k < i => k \in DOMAIN dp2[f] /\ dp2[f][k] = dp[f][k]

LEMMA DropKeeps ==
  ASSUME NEW dp \in [Files -> Seq([file : Files, order : BOOLEAN])], NEW f \in Files,
         NEW i \in DOMAIN dp[f], NEW dp2, dp2 = [dp EXCEPT ![f] = RemoveAt(@, i)]
  PROVE  DepKept(dp, dp2, f, i)
  <1>1. PICK a : a = dp[f]
    OBVIOUS
  <1>2. PICK b : b = RemoveAt(a, i)
    OBVIOUS
  <1>3. dp2[f] = b
    BY <1>1, <1>2
  <1>4. a \in Seq([file : Files, order : BOOLEAN]) /\ i \in DOMAIN a
    BY <1>1
  <1>5. /\ b \in Seq([file : Files, order : BOOLEAN]) /\ Len(b) = Len(a) - 1
        /\ \A k \in 1 .. Len(a) - 1 : b[k] = IF k < i THEN a[k] ELSE a[k + 1]
    <2>1. WithoutOne(b, a, i, [file : Files, order : BOOLEAN])
      BY <1>2, <1>4, OneRemoved, Zenon
    <2> QED BY <2>1, Zenon DEF WithoutOne
  <1>6. PICK n \in Nat : Len(a) = n + 1
    <2>1. a # <<>>
      BY <1>4
    <2> QED BY <1>4, <2>1, NonEmpty
  <1>7. DOMAIN a = 1 .. n + 1 /\ DOMAIN b = 1 .. n /\ i \in 1 .. n + 1
    BY <1>4, <1>5, <1>6
  <1>8. ASSUME NEW k \in 1 .. n + 1, k < i
        PROVE  k \in DOMAIN b /\ b[k] = a[k]
    BY <1>5, <1>6, <1>7, <1>8
  <1>9. ASSUME NEW k \in 1 .. n + 1, k # i
        PROVE  \E m \in DOMAIN b : b[m] = a[k]
    <2>1. CASE k < i
      BY <1>8, <2>1
    <2>2. CASE ~(k < i)
      <3>1. k - 1 \in 1 .. n /\ ~(k - 1 < i) /\ (k - 1) + 1 = k
        BY <1>7, <1>9, <2>2
      <3>2. b[k - 1] = a[k]
        BY <1>5, <1>6, <3>1
      <3> QED BY <1>7, <3>1, <3>2
    <2> QED BY <2>1, <2>2
  <1>10. ASSUME NEW x \in DepFiles(dp, f)
         PROVE  x \in DepFiles(dp2, f) \cup {dp[f][i].file}
    <2>1. PICK k \in DOMAIN a : x = a[k].file
      BY <1>1 DEF DepFiles
    <2>2. CASE k = i
      BY <1>1, <2>1, <2>2
    <2>3. CASE k # i
      <3>1. PICK m \in DOMAIN b : b[m] = a[k]
        BY <1>7, <1>9, <2>3
      <3> QED BY <1>3, <2>1, <3>1 DEF DepFiles
    <2> QED BY <2>2, <2>3
  <1>11. \A k \in DOMAIN dp[f] : k < i => k \in DOMAIN dp2[f] /\ dp2[f][k] = dp[f][k]
    BY <1>1, <1>3, <1>7, <1>8
  <1>12. DepFiles(dp, f) \subseteq DepFiles(dp2, f) \cup {dp[f][i].file}
    BY <1>10
  <1> QED BY ONLY <1>11, <1>12, Zenon DEF DepKept

LEMMA CallsDropped ==
  ASSUME NEW st \in Seq(Calls), st # <<>>, NEW cs, NEW dp, NEW ud, NEW V, NEW D, NEW pa,
         NEW keep, StackOk(st, cs, dp, ud, V, D, pa, keep),
         NEW dk, NEW ph, NEW am, NEW ud2, NEW gs, CallsOk(st, dp, dk, ph, am, ud2, gs),
         NEW dp2, Last(st).kind = "file", Last(st).phase # "job",
         \A x \in Files : x # Last(st).f => dp2[x] = dp[x],
         CheckedPlain(Last(st), dp2) = CheckedPlain(Last(st), dp)
  PROVE  CallsOk(st, dp2, dk, ph, am, ud2, gs)
  <1>1. PICK n \in Nat : Len(st) = n + 1
    BY NonEmpty
  <1>2. Last(st) = st[n + 1]
    BY <1>1 DEF Last
  <1>3. ASSUME NEW k \in 1 .. n + 1, st[k].kind = "file"
        PROVE  FileTimes(st[k], dp2, dk, ph, am)
    <2>1. FileTimes(st[k], dp, dk, ph, am)
      BY <1>1, <1>3 DEF CallsOk
    <2>2. CheckedPlain(st[k], dp2) = CheckedPlain(st[k], dp)
      <3>1. CASE k = n + 1
        BY <1>2, <3>1
      <3>2. CASE k # n + 1
        <4>1. st[k].f # st[n + 1].f
          BY <1>1, <1>3, <3>2 DEF StackOk
        <4>2. st[k] \in Calls
          BY <1>1
        <4>3. dp2[st[k].f] = dp[st[k].f]
          BY <1>2, <4>1, <4>2, CallIs
        <4> QED BY <4>3 DEF CheckedPlain
      <3> QED BY <3>1, <3>2
    <2>3. MustTells(st[k], dp, dk, ph) => MustTells(st[k], dp2, dk, ph)
      BY <2>2, Zenon DEF MustTells
    <2> QED BY <2>1, <2>3, Zenon DEF FileTimes
  <1> QED BY <1>1, <1>3 DEF CallsOk

LEMMA DropCircularTimes ==
  ASSUME BuildInv, UpdateInv', DropCircular
  PROVE  BuildInv'
  <1>1. /\ InFile("dep") /\ upc = "pass" /\ stack # <<>> /\ UpdateInv /\ GlobalTimes
        /\ stack \in Seq(Calls) /\ Done \subseteq Files /\ mk \in Makefiles
    BY BuildParts DEF DropCircular, InFile
  <1>2. PICK c : c = Top
    OBVIOUS
  <1>3. PICK f : f = c.f
    OBVIOUS
  <1>4. /\ CallTimes /\ GoalsLeft /\ c = Last(stack) /\ c \in Calls /\ f \in Files
        /\ c.kind = "file" /\ c.phase = "dep"
        /\ StackOk(stack, command_state, deps, updating, Visited, Done, pass, mk.keepGoing)
        /\ CallsOk(stack, deps, disk, mk.phony, mk.alwaysMake, updating, ToSet(mk.goals))
    BY <1>1, <1>2, <1>3, PassParts DEF InFile
  <1>5. PICK i : i = c.i
    OBVIOUS
  <1>6. PICK d : d = deps[f][i].file
    OBVIOUS
  <1>7. i \in DOMAIN deps[f] /\ d \in updating /\ deps' = [deps EXCEPT ![f] = RemoveAt(@, i)]
    <2>1. ~PastEnd(c) /\ Circular(Dep(c).file) /\ Drop(f, i)
      BY <1>2, <1>3, <1>5 DEF DropCircular
    <2>2. i \in DOMAIN deps[f] /\ Dep(c) = deps[f][i]
      BY <1>1, <1>3, <1>4, <1>5, <2>1, DepIs, GroupsOf
    <2> QED BY <1>6, <2>1, <2>2 DEF Circular, Drop
  <1>8. UNCHANGED <<command_state, update_status, jobs, runs, mk, goals, upc, updating, stack, rv,
                    disk, now, old, exit, last_mtime>>
    BY DEF DropCircular, fileVars
  <1>9. deps \in [Files -> Seq([file : Files, order : BOOLEAN])]
    BY <1>1, GroupsOf DEF DepTypes
  <1>10. /\ \A x \in Files : x # f => deps'[x] = deps[x]
         /\ \A k \in DOMAIN deps'[f] : k < i => k \in DOMAIN deps[f] /\ deps'[f][k] = deps[f][k]
    <2>1. PICK dp2 : dp2 = deps'
      OBVIOUS
    <2>2. DepDropped(deps, dp2, f, i)
      BY <1>4, <1>7, <1>9, <2>1, DropsDep, Zenon
    <2>3. /\ \A x \in Files : x # f => dp2[x] = deps[x]
          /\ \A k \in DOMAIN dp2[f] : k < i => k \in DOMAIN deps[f] /\ dp2[f][k] = deps[f][k]
      BY <2>2, Zenon DEF DepDropped
    <2> QED BY <2>1, <2>3
  <1>11. /\ DepFiles(deps, f) \subseteq DepFiles(deps', f) \cup {d}
         /\ \A k \in DOMAIN deps[f] : k < i => k \in DOMAIN deps'[f] /\ deps'[f][k] = deps[f][k]
    <2>1. PICK dp2 : dp2 = deps'
      OBVIOUS
    <2>2. dp2 = [deps EXCEPT ![f] = RemoveAt(@, i)]
      BY <1>7, <2>1
    <2>3. DepKept(deps, dp2, f, i)
      BY <1>4, <1>7, <1>9, <2>2, DropKeeps, Zenon
    <2>4. /\ DepFiles(deps, f) \subseteq DepFiles(dp2, f) \cup {deps[f][i].file}
          /\ \A k \in DOMAIN deps[f] : k < i => k \in DOMAIN dp2[f] /\ dp2[f][k] = deps[f][k]
      BY <2>3, Zenon DEF DepKept
    <2> QED BY <1>6, <2>1, <2>4
  <1>12. Done' = Done
    BY <1>8, Zenon DEF Done
  <1>13. f \notin Done /\ runs[f] # 1
    <2>1. command_state[f] \in {"not_started", "deps_running"}
      BY <1>1, <1>2, <1>3, FileOnTop DEF FileFrameOk
    <2>2. StateAgrees(command_state, update_status, updated, jobs, runs, f)
      BY <1>1, <1>4 DEF UpdateInv, StatesAgree
    <2> QED BY <2>1, <2>2 DEF Done, DoneFiles, StateAgrees
  <1>14. GlobalTimes'
    <2>1. TimesKnown(last_mtime', disk', now', mk.phony)
      BY <1>8, BuildParts
    <2>2. \A x \in Files : x \in Done \/ runs[x] = 1 => deps'[x] = deps[x]
      BY <1>10, <1>13
    <2>3. \A x \in Done' : x \in Done \/ UpToDate(mk, x, deps', Done', disk')
      BY <1>12
    <2>4. /\ UNCHANGED <<mk, old, runs>> /\ jobs' \subseteq jobs /\ Done \subseteq Done'
          /\ \A x \in Done : disk'[x] = disk[x]
          /\ \A x \in Files : runs[x] = 0 => disk'[x] = disk[x]
      BY <1>8, <1>12
    <2> QED BY <1>1, <2>1, <2>2, <2>3, <2>4, GlobalStays
  <1>15. CallTimes'
    <2>1. CheckedPlain(c, deps') = CheckedPlain(c, deps)
      <3>1. CheckedPlain(c, deps) = {deps[f][k].file : k \in {j \in DOMAIN deps[f] :
                                       ~deps[f][j].order /\ j < i}}
        BY <1>3, <1>4, <1>5 DEF CheckedPlain
      <3>2. CheckedPlain(c, deps') = {deps'[f][k].file : k \in {j \in DOMAIN deps'[f] :
                                        ~deps'[f][j].order /\ j < i}}
        BY <1>3, <1>4, <1>5 DEF CheckedPlain
      <3> QED BY <1>10, <1>11, <3>1, <3>2
    <2>2. Last(stack).kind = "file" /\ Last(stack).phase # "job" /\ Last(stack).f = f
      BY <1>3, <1>4
    <2>3. CallsOk(stack, deps', disk, mk.phony, mk.alwaysMake, updating, ToSet(mk.goals))
      BY <1>1, <1>4, <1>10, <2>1, <2>2, CallsDropped
    <2>4. NewerAnswered(stack, deps', disk, mk.phony, rv.must)
      BY <1>4 DEF NewerAnswered
    <2> QED BY <1>8, <2>3, <2>4, Zenon DEF CallTimes
  <1>16. Reached(Met, deps', ToSet(mk.goals))
    <2>1. SUFFICES ASSUME NEW S \in SUBSET Files, ToSet(mk.goals) \subseteq S, Closed(S, deps')
                   PROVE  Met \subseteq S
      BY DEF Reached
    <2>2. StackFiles(stack) \subseteq S
      <3>1. stack[1].f \in S
        BY <1>1, <1>4, <2>1 DEF CallsOk
      <3>2. ASSUME NEW k \in 1 .. Len(stack) - 1, stack[k].kind = "file", stack[k].f \in S
            PROVE  deps[stack[k].f][stack[k].i].file \in S
        <4>1. PICK n \in Nat : Len(stack) = n + 1
          BY <1>1, NonEmpty
        <4>2. k \in 1 .. n /\ c = stack[n + 1]
          BY <1>4, <4>1 DEF Last
        <4>3. stack[k] \in Calls /\ stack[k].f # f
          BY <1>1, <1>3, <1>4, <3>2, <4>1, <4>2 DEF StackOk
        <4>4. Nested(stack[k], stack[k + 1], deps)
          BY <1>4, <4>1, <4>2 DEF StackOk
        <4>5. FrameOk(stack[k], command_state, deps, updating, Visited, Done, pass, mk.keepGoing)
          BY <1>4, <4>1, <4>2 DEF StackOk
        <4>6. stack[k].i \in DOMAIN deps[stack[k].f]
          BY <3>2, <4>4, <4>5 DEF Nested, FrameOk, FileFrameOk
        <4>7. deps'[stack[k].f] = deps[stack[k].f]
          BY <1>10, <4>3, CallIs
        <4>8. DepFiles(deps', stack[k].f) \subseteq S
          BY <2>1, <3>2 DEF Closed
        <4> QED BY <4>6, <4>7, <4>8 DEF DepFiles
      <3> QED BY <1>1, <1>4, <3>1, <3>2, StackReached
    <2>3. d \in S
      <3>1. PICK k \in 1 .. Len(stack) : stack[k].f = d
        BY <1>4, <1>7 DEF CallsOk
      <3> QED BY <2>2, <3>1 DEF StackFiles
    <2>4. Closed(S, deps)
      <3>1. ASSUME NEW x \in S
            PROVE  DepFiles(deps, x) \subseteq S
        <4>1. DepFiles(deps', x) \subseteq S
          BY <2>1 DEF Closed
        <4>2. CASE x = f
          BY <1>11, <2>3, <4>1, <4>2
        <4>3. CASE x # f
          BY <1>10, <4>1, <4>3 DEF DepFiles
        <4> QED BY <4>2, <4>3
      <3> QED BY <3>1 DEF Closed
    <2>5. Reached(Met, deps, ToSet(mk.goals))
      BY <1>4, Zenon DEF GoalsLeft
    <2> QED BY <2>1, <2>4, <2>5 DEF Reached
  <1>17. Met' = Met
    BY <1>8, Zenon DEF Met
  <1>18. GoalsLeft'
    BY <1>4, <1>8, <1>12, <1>16, <1>17, GoalsKept
  <1>19. Live'
    BY <1>1, <1>8 DEF Live
  <1> QED BY <1>14, <1>15, <1>18, <1>19, StillLive

-----------------------------------------------------------------------------
(* The goals.                                                              *)

LEMMA NoCalls ==
  ASSUME NEW dp, NEW dk, NEW ph, NEW am, NEW ud, NEW gs, NEW must
  PROVE  /\ CallsOk(<<>>, dp, dk, ph, am, ud, gs) <=> ud \subseteq {}
         /\ NewerAnswered(<<>>, dp, dk, ph, must)
  <1>1. PICK st : st = <<>>
    OBVIOUS
  <1>2. Len(st) = 0
    BY <1>1
  <1>3. CallsOk(st, dp, dk, ph, am, ud, gs) <=> ud \subseteq {}
    BY <1>1, <1>2 DEF CallsOk
  <1>4. NewerAnswered(st, dp, dk, ph, must)
    BY <1>1 DEF NewerAnswered
  <1> QED BY <1>1, <1>3, <1>4

(* Between two passes. *)
LEMMA IdleParts ==
  ASSUME BuildInv, Live, upc # "pass" \/ stack = <<>>
  PROVE  /\ stack = <<>> /\ updating \subseteq {} /\ GoalsLeft /\ CallTimes
         /\ Met = {x \in Files : command_state[x] # "not_started"}
         /\ mk.goals \in Seq(Files) /\ goals \in Seq(Files) /\ gi \in Nat \ {0}
  <1>1. UpdateInv /\ CallTimes /\ GoalsLeft
    BY BuildParts
  <1>2. stack = <<>>
    BY <1>1 DEF UpdateInv, LiveOk
  <1>3. CallsOk(stack, deps, disk, mk.phony, mk.alwaysMake, updating, ToSet(mk.goals))
    BY <1>1, Zenon DEF CallTimes
  <1>4. updating \subseteq {}
    BY <1>2, <1>3, NoCalls
  <1>5. StackFiles(stack) = {}
    <2>1. PICK st : st = stack
      OBVIOUS
    <2>2. Len(st) = 0
      BY <1>2, <2>1
    <2> QED BY <2>1, <2>2 DEF StackFiles
  <1>6. Met = {x \in Files : command_state[x] # "not_started"}
    BY <1>5, MetIs DEF Met
  <1>7. mk.goals \in Seq(Files) /\ goals \in Seq(Files) /\ gi \in Nat \ {0}
    BY <1>1, GroupsOf, UpdateAssumption DEF GoalTypes
  <1> QED BY <1>1, <1>2, <1>4, <1>6, <1>7

LEMMA UpdateGoalTimes ==
  ASSUME BuildInv, UpdateInv', UpdateGoal
  PROVE  BuildInv'
  <1>1. PICK f : f = goals[gi]
    OBVIOUS
  <1>2. /\ upc = "goal" /\ upc' = "pass" /\ gi <= Len(goals) /\ update_file(f, <<>>)
        /\ UNCHANGED <<command_state, update_status, jobs, runs, deps, mk, goals, disk, now, old,
                       exit>>
    BY <1>1 DEF UpdateGoal
  <1>3. Live /\ Live'
    BY <1>2 DEF Live
  <1>4. /\ stack = <<>> /\ updating \subseteq {} /\ GoalsLeft /\ CallTimes
        /\ goals \in Seq(Files) /\ gi \in Nat \ {0}
    BY <1>2, <1>3, IdleParts
  <1>5. UpdateInv /\ GlobalTimes /\ mk \in Makefiles /\ stack \in Seq(Calls)
    BY BuildParts
  <1>6. f \in Files /\ f \in ToSet(mk.goals)
    <2>1. f \in ToSet(goals) /\ f \in Files
      BY <1>1, <1>2, <1>4 DEF ToSet
    <2> QED BY <1>4, <2>1 DEF GoalsLeft
  <1>7. Done' = Done
    BY <1>2, Zenon DEF Done
  <1>8. Reached(Met, deps, ToSet(mk.goals))
    BY <1>4, Zenon DEF GoalsLeft
  <1>9. CASE Settled(f)
    <2>1. stack' = stack /\ UNCHANGED <<updating, last_mtime>>
      BY <1>2, <1>4, <1>9 DEF update_file
    <2>2. CallTimes'
      <3>1. CallsOk(stack', deps', disk', mk'.phony, mk'.alwaysMake, updating', ToSet(mk'.goals))
        BY <1>4, <2>1, NoCalls
      <3>2. NewerAnswered(stack', deps', disk', mk'.phony, rv'.must)
        BY <1>4, <2>1, NoCalls
      <3> QED BY <3>1, <3>2, Zenon DEF CallTimes
    <2>3. Met' = Met
      BY <1>2, <2>1, Zenon DEF Met
    <2>4. Reached(Met', deps', ToSet(mk.goals))
      BY <1>2, <1>8, <2>3
    <2>5. GoalsLeft'
      BY <1>2, <1>4, <1>7, <2>4, GoalsKept
    <2>6. GlobalTimes'
      BY <1>2, <1>5, <1>7, <2>1, GlobalSame
    <2> QED BY <1>3, <2>2, <2>5, <2>6, StillLive
  <1>10. CASE ~Settled(f)
    <2>1. PICK g : g = Frame("file", f, mtime(f) = Nonexistent, mtime(f))
      OBVIOUS
    <2>2. /\ updating' = updating \cup {f} /\ stack' = Append(<<>>, g)
          /\ last_mtime' = Known(last_mtime, {f})
      BY <1>2, <1>10, <2>1 DEF update_file
    <2>3. /\ g \in Calls /\ g.f = f /\ g.kind = "file" /\ g.phase = "dep"
          /\ FileTimes(g, deps, disk, mk.phony, mk.alwaysMake)
      BY <1>6, <2>1, NewTimes
    <2>4. stack' = Append(stack, g)
      BY <1>4, <2>2
    <2>5. CallTimes'
      <3>1. CallsOk(stack, deps, disk, mk.phony, mk.alwaysMake, updating, ToSet(mk.goals))
        BY <1>4, Zenon DEF CallTimes
      <3>2. updating' \subseteq updating \cup {g.f} /\ g.f \in ToSet(mk.goals)
        BY <1>6, <2>2, <2>3
      <3>3. CallsOk(stack', deps, disk, mk.phony, mk.alwaysMake, updating', ToSet(mk.goals))
        BY <1>4, <1>5, <2>3, <2>4, <3>1, <3>2, CallsCall
      <3>4. Last(stack') = g
        BY <1>5, <2>3, <2>4, LastPushed
      <3>5. NewerAnswered(stack', deps, disk, mk.phony, rv'.must)
        BY <2>3, <3>4 DEF NewerAnswered
      <3> QED BY <1>2, <3>3, <3>5, Zenon DEF CallTimes
    <2>6. Met' \subseteq Met \cup {f}
      <3>1. StackFiles(stack') = StackFiles(stack) \cup {f}
        BY <1>5, <2>3, <2>4, StackFilesPushed
      <3>2. Met = {x \in Files : command_state[x] # "not_started"} \cup StackFiles(stack)
        BY MetIs DEF Met
      <3>3. Met' = {x \in Files : command_state'[x] # "not_started"} \cup StackFiles(stack')
        BY MetIs DEF Met
      <3> QED BY <1>2, <3>1, <3>2, <3>3
    <2>7. Reached(Met', deps', ToSet(mk.goals))
      <3>1. Reached(Met', deps, ToSet(mk.goals))
        BY <1>6, <1>8, <2>6, ReachedGoal
      <3> QED BY <1>2, <3>1
    <2>8. GoalsLeft'
      BY <1>2, <1>4, <1>7, <2>7, GoalsKept
    <2>9. GlobalTimes'
      BY <1>2, <1>5, <1>7, <2>2, GlobalSame
    <2> QED BY <1>3, <2>5, <2>8, <2>9, StillLive
  <1> QED BY <1>9, <1>10

LEMMA IdleTimes ==
  ASSUME BuildInv, Live, upc # "pass" \/ stack = <<>>,
         UNCHANGED <<mk, disk, now, deps, last_mtime, command_state, update_status, updating,
                     stack, rv, jobs, runs, old>>
  PROVE  GlobalTimes' /\ CallTimes' /\ Done' = Done /\ Met' = Met
  <1>1. UpdateInv /\ GlobalTimes /\ CallTimes
    BY BuildParts
  <1>2. Done' = Done /\ Met' = Met
    BY Zenon DEF Done, Met
  <1>3. GlobalTimes'
    BY <1>1, <1>2, GlobalSame
  <1>4. CallTimes'
    BY <1>1, Zenon DEF CallTimes
  <1> QED BY <1>2, <1>3, <1>4

(* A goal that is finished is done, or the exit status says that it is not. *)
LEMMA GoalConsideredTimes ==
  ASSUME BuildInv, UpdateInv', GoalConsidered
  PROVE  BuildInv'
  <1>1. /\ upc = "pass" /\ stack = <<>> /\ upc' = "goal"
        /\ UNCHANGED <<mk, disk, now, deps, last_mtime, command_state, update_status, updating,
                       stack, rv, jobs, runs, old>>
    BY DEF GoalConsidered, fileVars
  <1>2. Live /\ Live'
    BY <1>1 DEF Live
  <1>3. GlobalTimes' /\ CallTimes' /\ Done' = Done /\ Met' = Met
    BY <1>1, <1>2, IdleTimes
  <1>4. GoalsLeft /\ goals \in Seq(Files) /\ gi \in Nat \ {0} /\ UpdateInv
    BY <1>1, <1>2, IdleParts, BuildParts
  <1>5. gi \in DOMAIN goals
    <2>1. GoalsOk(upc, goals, gi, pass, Visited)
      BY <1>2, <1>4 DEF UpdateInv, LiveOk
    <2> QED BY <1>1, <1>4, <2>1 DEF GoalsOk
  <1>6. PICK f : f = goals[gi]
    OBVIOUS
  <1>7. f \in Files /\ StateAgrees(command_state, update_status, updated, jobs, runs, f)
    BY <1>4, <1>5, <1>6 DEF UpdateInv, StatesAgree
  <1>8. CASE updated[f]
    <2>1. goals' = RemoveAt(goals, gi) /\ exit' = IF update_status[f] # 0 THEN 2 ELSE exit
      BY <1>6, <1>8 DEF GoalConsidered
    <2>2. PICK g : g = goals'
      OBVIOUS
    <2>3. WithoutOne(g, goals, gi, Files)
      BY <1>4, <1>5, <2>1, <2>2, OneRemoved
    <2>4. PICK n \in Nat : Len(goals) = n + 1
      <3>1. goals # <<>>
        BY <1>4, <1>5
      <3> QED BY <1>4, <3>1, NonEmpty
    <2>5. /\ g \in Seq(Files) /\ Len(g) = n
          /\ \A k \in 1 .. n : g[k] = IF k < gi THEN goals[k] ELSE goals[k + 1]
      BY <2>3, <2>4 DEF WithoutOne
    <2>6. gi \in 1 .. n + 1
      BY <1>4, <1>5, <2>4
    <2>7. ToSet(g) \subseteq ToSet(goals)
      <3>1. ASSUME NEW k \in 1 .. n
            PROVE  \E m \in 1 .. n + 1 : g[k] = goals[m]
        <4>1. k \in 1 .. n + 1 /\ k + 1 \in 1 .. n + 1
          OBVIOUS
        <4> QED BY <2>5, <4>1
      <3>2. DOMAIN g = 1 .. n /\ DOMAIN goals = 1 .. n + 1
        BY <1>4, <2>4, <2>5
      <3> QED BY ONLY <3>1, <3>2, Zenon DEF ToSet
    <2>8. ToSet(goals) \subseteq ToSet(g) \cup {f}
      <3>1. ASSUME NEW k \in 1 .. n + 1, k # gi
            PROVE  \E m \in 1 .. n : g[m] = goals[k]
        <4>1. CASE k < gi
          <5>1. k \in 1 .. n
            BY <2>6, <4>1
          <5> QED BY <2>5, <4>1, <5>1
        <4>2. CASE ~(k < gi)
          <5>1. k - 1 \in 1 .. n /\ ~(k - 1 < gi) /\ (k - 1) + 1 = k
            BY <2>6, <3>1, <4>2
          <5>2. g[k - 1] = goals[k]
            BY <2>5, <5>1
          <5> QED BY <5>1, <5>2
        <4> QED BY <4>1, <4>2
      <3>2. DOMAIN g = 1 .. n /\ DOMAIN goals = 1 .. n + 1
        BY <1>4, <2>4, <2>5
      <3>3. \A k \in DOMAIN goals : goals[k] = f \/ \E m \in DOMAIN g : g[m] = goals[k]
        BY <1>6, <3>1, <3>2
      <3> QED BY ONLY <3>3, Zenon DEF ToSet
    <2>9. exit' = 2 \/ (exit' = exit /\ f \in Done)
      <3>1. command_state[f] = "finished"
        BY <1>7, <1>8 DEF StateAgrees
      <3> QED BY <1>7, <2>1, <3>1 DEF Done, DoneFiles
    <2>10. /\ exit # 0 /\ ToSet(goals) \subseteq ToSet(mk.goals)
           /\ Reached(Met, deps, ToSet(mk.goals))
           /\ exit = 2 \/ ToSet(mk.goals) \subseteq ToSet(goals) \cup Done
      BY <1>4, Zenon DEF GoalsLeft
    <2>11. exit' # 0 /\ (exit' = 2 \/ ToSet(mk.goals) \subseteq ToSet(g) \cup Done)
      BY <2>8, <2>9, <2>10
    <2>12. ToSet(g) \subseteq ToSet(mk.goals)
      BY <2>7, <2>10
    <2>13. GoalsLeft'
      BY <1>1, <1>3, <2>2, <2>10, <2>11, <2>12, Zenon DEF GoalsLeft
    <2> QED BY <1>2, <1>3, <2>13, StillLive
  <1>9. CASE ~updated[f]
    <2>1. goals' = goals /\ exit' = exit
      BY <1>6, <1>9 DEF GoalConsidered
    <2>2. Reached(Met', deps', ToSet(mk.goals))
      BY <1>1, <1>3, <1>4, Zenon DEF GoalsLeft
    <2>3. GoalsLeft'
      BY <1>1, <1>3, <1>4, <2>1, <2>2, GoalsKept
    <2> QED BY <1>2, <1>3, <2>3, StillLive
  <1> QED BY <1>8, <1>9

(* When no goal is left, what was met along the way is done: it is reached *)
(* from the goals, and what is done has done prerequisites.                *)
LEMMA PassTimes ==
  ASSUME BuildInv, UpdateInv', BeginPass \/ EndPass
  PROVE  BuildInv'
  <1>1. /\ upc # "pass" /\ Live
        /\ UNCHANGED <<mk, disk, now, deps, last_mtime, command_state, update_status, updating,
                       stack, rv, jobs, runs, old, goals>>
    BY DEF BeginPass, EndPass, fileVars, Live
  <1>2. GlobalTimes' /\ CallTimes' /\ Done' = Done /\ Met' = Met
    BY <1>1, IdleTimes
  <1>3. /\ GoalsLeft /\ Met = {x \in Files : command_state[x] # "not_started"} /\ GlobalTimes
        /\ Done \subseteq Files
    BY <1>1, IdleParts, BuildParts
  <1>4. CASE UNCHANGED exit /\ upc' \notin {"dying", "exited"}
    <2>1. Reached(Met', deps', ToSet(mk.goals))
      BY <1>1, <1>2, <1>3, Zenon DEF GoalsLeft
    <2>2. GoalsLeft'
      BY <1>1, <1>2, <1>3, <1>4, <2>1, GoalsKept
    <2>3. Live'
      BY <1>4 DEF Live
    <2> QED BY <1>2, <2>2, <2>3, StillLive
  <1>5. CASE EndPass /\ goals = <<>>
    <2>1. upc' = "dying" /\ exit' = IF exit = Unset THEN 0 ELSE exit
      BY <1>5 DEF EndPass
    <2>2. ASSUME exit' = 0
          PROVE  AllDone'
      <3>1. exit # 0 /\ exit # 2
        BY <1>3, <2>1, <2>2 DEF GoalsLeft, Unset
      <3>2. ToSet(goals) = {}
        BY <1>5 DEF ToSet
      <3>3. ToSet(mk.goals) \subseteq Done
        BY <1>3, <3>1, <3>2 DEF GoalsLeft
      <3>4. Closed(Done, deps)
        BY <1>3, Zenon DEF Closed, GlobalTimes, UpToDate
      <3>5. Met \subseteq Done
        <4>1. Reached(Met, deps, ToSet(mk.goals))
          BY <1>3, Zenon DEF GoalsLeft
        <4> QED BY <1>3, <3>3, <3>4, <4>1, Zenon DEF Reached
      <3>6. \A x \in Files : command_state[x] # "not_started" => x \in Done
        BY <1>3, <3>5
      <3> QED BY <1>1, <1>2, <3>3, <3>6, Zenon DEF AllDone
    <2> QED BY <1>2, <2>1, <2>2, Dies
  <1>6. CASE BeginPass
    BY <1>4, <1>6 DEF BeginPass
  <1>7. CASE EndPass /\ goals # <<>>
    BY <1>4, <1>7 DEF EndPass
  <1> QED BY <1>5, <1>6, <1>7

-----------------------------------------------------------------------------
(* make starts, ends, and starts again.                                    *)

(* Nothing is known of the times, and nothing was visited. *)
LEMMA FreshTimes ==
  ASSUME NEW dk \in [Files -> Nat], NEW nw, nw >= 1, \A x \in Files : dk[x] <= nw,
         NEW ph, NEW lm, lm = [f \in Files |-> IF f \in ph THEN Nonexistent ELSE Unknown],
         NEW cs, cs = [f \in Files |-> "not_started"], NEW us, NEW dp, NEW gs
  PROVE  /\ TimesKnown(lm, dk, nw, ph) /\ DoneFiles(cs, us) = {}
         /\ Reached(MetFiles(cs, <<>>), dp, gs)
  <1>1. TimesKnown(lm, dk, nw, ph)
    BY DEF TimesKnown, SeenTime
  <1>2. DoneFiles(cs, us) = {}
    BY DEF DoneFiles
  <1>3. MetFiles(cs, <<>>) = {}
    <2>1. PICK st : st = <<>>
      OBVIOUS
    <2>2. Len(st) = 0
      BY <2>1
    <2> QED BY <2>1, <2>2 DEF MetFiles
  <1> QED BY <1>1, <1>2, <1>3 DEF Reached

LEMMA BuildInvInit ==
  ASSUME OrdinaryMakefiles, UpdateInit
  PROVE  BuildInv
  <1>1. UpdateInv
    BY UpdateInvInit
  <1>2. /\ last_mtime = [f \in Files |-> IF f \in mk.phony THEN Nonexistent ELSE Unknown]
        /\ command_state = [f \in Files |-> "not_started"]
        /\ updating = {} /\ stack = <<>> /\ goals = mk.goals /\ upc = "wait" /\ jobs = {}
        /\ exit = Unset /\ runs = [f \in Files |-> 0] /\ old = disk
    BY DEF UpdateInit, Fresh
  <1>3. PICK m \in Ages : m = (CHOOSE t \in Ages : \A a \in Ages : a <= t) /\ \A a \in Ages : a <= m
    BY UpdateAssumption
  <1>4. /\ disk \in [Files -> Nat] /\ now >= 1 /\ \A x \in Files : disk[x] <= now
    <2>1. now = 1 + m /\ m \in Nat /\ disk \in [Files -> Ages]
      BY <1>3, UpdateAssumption DEF UpdateInit
    <2>2. ASSUME NEW x \in Files
          PROVE  disk[x] \in Nat /\ disk[x] <= m
      BY <1>3, <2>1, UpdateAssumption
    <2> QED BY <2>1, <2>2, UpdateAssumption
  <1>5. /\ TimesKnown(last_mtime, disk, now, mk.phony) /\ Done = {}
        /\ Reached(Met, deps, ToSet(mk.goals))
    BY <1>2, <1>4, FreshTimes DEF Done, Met
  <1>6. GlobalTimes
    BY <1>2, <1>4, <1>5 DEF GlobalTimes
  <1>7. CallTimes
    BY <1>2, NoCalls DEF CallTimes
  <1>8. GoalsLeft
    BY <1>2, <1>5 DEF GoalsLeft, Unset
  <1>9. Live
    BY <1>2 DEF Live
  <1> QED BY <1>1, <1>6, <1>7, <1>8, <1>9, Zenon DEF BuildInv

LEMMA AgainTimes ==
  ASSUME BuildInv, UpdateInv', Again
  PROVE  BuildInv'
  <1>1. /\ last_mtime' = [f \in Files |-> IF f \in mk.phony THEN Nonexistent ELSE Unknown]
        /\ command_state' = [f \in Files |-> "not_started"]
        /\ updating' = {} /\ stack' = <<>> /\ goals' = mk.goals /\ upc = "exited" /\ upc' = "wait"
        /\ exit' = Unset /\ runs' = [f \in Files |-> 0] /\ old' = disk
        /\ UNCHANGED <<mk, disk, now, jobs>>
    BY DEF Again, Fresh
  <1>2. UpdateInv /\ TimesKnown(last_mtime, disk, now, mk.phony)
    BY BuildParts
  <1>3. disk \in [Files -> Nat] /\ jobs = {}
    BY <1>1, <1>2, GroupsOf DEF FileTypes, UpdateInv
  <1>4. now >= 1 /\ \A x \in Files : disk[x] <= now
    BY <1>2, Zenon DEF TimesKnown
  <1>5. /\ TimesKnown(last_mtime', disk, now, mk.phony) /\ Done' = {}
        /\ Reached(Met', deps', ToSet(mk.goals))
    <2>1. /\ Done' = DoneFiles(command_state', update_status')
          /\ Met' = MetFiles(command_state', <<>>)
      BY <1>1, Zenon DEF Done, Met
    <2> QED BY <1>1, <1>3, <1>4, <2>1, FreshTimes
  <1>6. GlobalTimes'
    BY <1>1, <1>3, <1>5 DEF GlobalTimes
  <1>7. CallTimes'
    <2>1. /\ CallsOk(stack', deps', disk', mk'.phony, mk'.alwaysMake, updating', ToSet(mk'.goals))
          /\ NewerAnswered(stack', deps', disk', mk'.phony, rv'.must)
      BY <1>1, NoCalls
    <2> QED BY <2>1, Zenon DEF CallTimes
  <1>8. GoalsLeft'
    BY <1>1, <1>5 DEF GoalsLeft, Unset
  <1>9. Live'
    BY <1>1 DEF Live
  <1> QED BY <1>6, <1>7, <1>8, <1>9, StillLive

LEMMA LastTimes ==
  ASSUME OrdinaryMakefiles, BuildInv, UpdateInv', remove_intermediates \/ Stop \/ UNCHANGED vars
  PROVE  BuildInv'
  <1>1. UpdateInv /\ GlobalTimes /\ mk \in Makefiles /\ disk \in [Files -> Nat]
    BY BuildParts, GroupsOf DEF FileTypes
  <1>2. CASE remove_intermediates
    <2>1. Removed = {}
      BY <1>1, Ordinary1 DEF Removed, Passing
    <2>2. disk' = disk
      BY <1>1, <1>2, <2>1 DEF remove_intermediates
    <2>3. /\ UNCHANGED <<mk, now, old, runs, jobs, deps, command_state, update_status, last_mtime,
                         exit>>
          /\ upc = "dying" /\ upc' = "exited"
      BY <1>2 DEF remove_intermediates, fileVars
    <2>4. Done' = Done
      BY <2>3, Zenon DEF Done
    <2>5. GlobalTimes'
      BY <1>1, <2>2, <2>3, <2>4, GlobalSame
    <2>6. exit = 0 => AllDone
      BY <2>3 DEF BuildInv, Live
    <2>7. exit' = 0 => AllDone'
      BY <2>3, <2>4, <2>6, Zenon DEF AllDone
    <2> QED BY <2>3, <2>5, <2>7, Dies
  <1>3. CASE Stop \/ UNCHANGED vars
    <2>1. /\ UNCHANGED <<mk, disk, now, old, runs, jobs, deps, command_state, update_status,
                         last_mtime, exit, stack, goals, rv, updating, upc>>
      BY <1>3 DEF Stop, vars, fileVars
    <2>2. Done' = Done /\ Met' = Met
      BY <2>1, Zenon DEF Done, Met
    <2>3. GlobalTimes'
      BY <1>1, <2>1, <2>2, GlobalSame
    <2>4. CallTimes => CallTimes'
      BY <2>1, Zenon DEF CallTimes
    <2>5. GoalsLeft => GoalsLeft'
      BY <2>1, <2>2, Zenon DEF GoalsLeft
    <2>6. AllDone => AllDone'
      BY <2>1, <2>2, Zenon DEF AllDone
    <2>7. (Live' <=> Live) /\ exit' = exit
      BY <2>1 DEF Live
    <2>8. (Live => CallTimes /\ GoalsLeft) /\ (~Live /\ exit = 0 => AllDone)
      BY Zenon DEF BuildInv
    <2> QED BY <2>3, <2>4, <2>5, <2>6, <2>7, <2>8, Zenon DEF BuildInv
  <1> QED BY <1>2, <1>3

-----------------------------------------------------------------------------
(* Commands end: the only time that changes is that of a file that no call *)
(* has behind it yet.                                                      *)

LEMMA FrameTimesReaped ==
  ASSUME NEW fr \in Calls, NEW cs, NEW dp, NEW ud, NEW V, NEW D, D \subseteq Files, NEW pa,
         FileFrameOk(fr, cs, dp, ud, V, D, pa), NEW dk, NEW ph, NEW am,
         FileTimes(fr, dp, dk, ph, am), NEW j, cs[j] = "running", j \notin D,
         NEW dk2, \A x \in Files : x # j => dk2[x] = dk[x]
  PROVE  FileTimes(fr, dp, dk2, ph, am)
  <1>1. SUFFICES ASSUME fr.phase # "started"
                 PROVE  FileTimes(fr, dp, dk2, ph, am)
    BY DEF FileTimes
  <1>2. /\ fr.this = SeenTime(fr.f, dk, ph) /\ (fr.phase = "job" => am \/ fr.must)
        /\ ~fr.running /\ fr.status = 0 => MustTells(fr, dp, dk, ph)
    BY <1>1, Zenon DEF FileTimes
  <1>3. fr.f \in Files /\ fr.f # j
    BY <1>1, CallIs DEF FileFrameOk
  <1>4. SeenTime(fr.f, dk2, ph) = SeenTime(fr.f, dk, ph)
    BY <1>3, Zenon DEF SeenTime
  <1>5. ASSUME ~fr.running, fr.status = 0
        PROVE  MustTells(fr, dp, dk2, ph)
    <2>1. CheckedFiles(fr, dp) \subseteq D
      BY <1>5, Zenon DEF FileFrameOk
    <2>2. CheckedPlain(fr, dp) \subseteq CheckedFiles(fr, dp)
      BY Zenon DEF CheckedPlain, CheckedFiles
    <2>3. ASSUME NEW d \in CheckedPlain(fr, dp)
          PROVE  OutOfDate(d, fr.this, dk2, ph) <=> OutOfDate(d, fr.this, dk, ph)
      <3>1. dk2[d] = dk[d]
        BY <2>1, <2>2
      <3> QED BY <3>1, Zenon DEF OutOfDate, SeenTime
    <2> QED BY <1>2, <1>5, <2>3, Zenon DEF MustTells
  <1> QED BY <1>2, <1>4, <1>5, Zenon DEF FileTimes

LEMMA CallsReaped ==
  ASSUME NEW st \in Seq(Calls), NEW cs, NEW dp, NEW ud, NEW V, NEW D, D \subseteq Files, NEW pa,
         NEW keep, StackOk(st, cs, dp, ud, V, D, pa, keep),
         NEW dk, NEW ph, NEW am, NEW gs, CallsOk(st, dp, dk, ph, am, ud, gs),
         NEW j, cs[j] = "running", j \notin D,
         NEW dk2, \A x \in Files : x # j => dk2[x] = dk[x]
  PROVE  CallsOk(st, dp, dk2, ph, am, ud, gs)
  <1>1. PICK n \in Nat : n = Len(st)
    OBVIOUS
  <1>2. ASSUME NEW k \in 1 .. n, st[k].kind = "file"
        PROVE  FileTimes(st[k], dp, dk2, ph, am)
    <2>1. st[k] \in Calls
      BY <1>1
    <2>2. FrameOk(st[k], cs, dp, ud, V, D, pa, keep) /\ FileTimes(st[k], dp, dk, ph, am)
      BY <1>1, <1>2, Zenon DEF StackOk, CallsOk
    <2>3. FileFrameOk(st[k], cs, dp, ud, V, D, pa)
      BY <1>2, <2>2, Zenon DEF FrameOk
    <2> QED BY <2>1, <2>2, <2>3, FrameTimesReaped
  <1>3. /\ \A k \in 1 .. n - 1 : st[k].kind = "file" =>
             st[k + 1].must = st[k].must /\ st[k + 1].this = st[k].this
        /\ \A x \in ud : \E k \in 1 .. n : st[k].f = x
        /\ st # <<>> /\ Last(st).phase \in {"job", "started"} => Last(st).f \notin ud
        /\ st # <<>> => st[1].f \in gs
    BY <1>1, Zenon DEF CallsOk
  <1> QED BY <1>1, <1>2, <1>3, Zenon DEF CallsOk

(* What the commands write. *)
LEMMA ReapedTimes ==
  ASSUME OrdinaryMakefiles, mk \in Makefiles, FileTypes, NEW j \in Files, Reap(j)
  PROVE  \E ok \in BOOLEAN :
           /\ Finished(j, command_state, [update_status EXCEPT ![j] = IF ok THEN 0 ELSE 2],
                       last_mtime, disk')
           /\ now' \in Nat /\ now <= now'
           /\ \A x \in Files : x # j => disk'[x] = disk[x]
           /\ disk'[j] \in {now', disk[j], Nonexistent}
           /\ ok /\ mk.cmds[j] = "touch" => disk'[j] = now'
           /\ IF ok \/ mk.keepGoing \/ upc = "dying"
                THEN exit' = exit /\ upc' = IF upc = "wait" THEN "more" ELSE upc
                ELSE exit' = 2 /\ upc' = "dying"
  <1>ended. PICK ok \in BOOLEAN, writes \in BOOLEAN, later \in {0, 1},
                 gone \in SUBSET ({j} \cup mk.also[j]) : Ended(j, ok, writes, later, gone)
    BY ReapIs
  <1>1. /\ ok => writes = (mk.cmds[j] = "touch") /\ gone = {}
        /\ now' = now + later
        /\ disk' = [f \in Files |-> IF f \in gone THEN Nonexistent
                                    ELSE IF writes /\ (f = j \/ f \in mk.also[j])
                                         THEN now + later ELSE disk[f]]
        /\ Finished(j, command_state, [update_status EXCEPT ![j] = IF ok THEN 0 ELSE 2],
                    last_mtime, disk')
        /\ IF ok \/ mk.keepGoing \/ upc = "dying"
             THEN UNCHANGED exit /\ upc' = IF upc = "wait" THEN "more" ELSE upc
             ELSE exit' = 2 /\ upc' = "dying"
    BY <1>ended, Zenon DEF Ended
  <1>2. PICK dk : dk = disk'
    OBVIOUS
  <1>3. dk = [f \in Files |-> IF f \in gone THEN Nonexistent
                             ELSE IF writes /\ (f = j \/ f \in mk.also[j]) THEN now' ELSE disk[f]]
    BY <1>1, <1>2
  <1>4. mk.also[j] \subseteq {j}
    BY Ordinary1
  <1>5. /\ \A x \in Files : x # j => dk[x] = disk[x]
        /\ dk[j] = IF j \in gone THEN Nonexistent ELSE IF writes THEN now' ELSE disk[j]
    BY <1>3, <1>4
  <1>6. now' \in Nat /\ now <= now'
    BY <1>1 DEF FileTypes
  <1>7. dk[j] \in {now', disk[j], Nonexistent} /\ (ok /\ mk.cmds[j] = "touch" => dk[j] = now')
    BY <1>1, <1>5
  <1>8. ok \in BOOLEAN
    BY <1>1
  <1> QED BY <1>1, <1>2, <1>5, <1>6, <1>7, <1>8

LEMMA ReapTimes ==
  ASSUME OrdinaryMakefiles, BuildInv, UpdateInv', NEW j \in Files, Reap(j)
  PROVE  BuildInv'
  <1>1. /\ UpdateInv /\ GlobalTimes /\ mk \in Makefiles /\ stack \in Seq(Calls)
        /\ Done \subseteq Files /\ TimesKnown(last_mtime, disk, now, mk.phony)
    BY BuildParts
  <1>2. PICK ok \in BOOLEAN :
          /\ Finished(j, command_state, [update_status EXCEPT ![j] = IF ok THEN 0 ELSE 2],
                      last_mtime, disk')
          /\ now' \in Nat /\ now <= now'
          /\ \A x \in Files : x # j => disk'[x] = disk[x]
          /\ disk'[j] \in {now', disk[j], Nonexistent}
          /\ ok /\ mk.cmds[j] = "touch" => disk'[j] = now'
          /\ IF ok \/ mk.keepGoing \/ upc = "dying"
               THEN exit' = exit /\ upc' = IF upc = "wait" THEN "more" ELSE upc
               ELSE exit' = 2 /\ upc' = "dying"
    <2>1. FileTypes
      BY <1>1, GroupsOf
    <2> QED BY <1>1, <2>1, ReapedTimes
  <1>3. /\ UNCHANGED <<mk, deps, updating, stack, rv, goals, runs, old>>
        /\ jobs' = jobs \ {j} /\ j \in jobs /\ CanReap
    BY DEF Reap
  <1>4. /\ command_state \in [Files -> {"not_started", "deps_running", "running", "finished"}]
        /\ update_status \in [Files -> {Unset, 0, 2}] /\ updated \in [Files -> BOOLEAN]
        /\ last_mtime \in Times /\ disk \in [Files -> Nat] /\ now \in Nat
    BY <1>1, GroupsOf DEF StateTypes, FileTypes
  <1>5. PICK us : us = [update_status EXCEPT ![j] = IF ok THEN 0 ELSE 2]
    OBVIOUS
  <1>6. PICK dk : dk = disk'
    OBVIOUS
  <1>7. /\ us \in [Files -> {Unset, 0, 2}] /\ us[j] = (IF ok THEN 0 ELSE 2)
        /\ \A x \in Files : x # j => us[x] = update_status[x]
    BY <1>4, <1>5
  <1>8. dk \in [Files -> Nat] /\ Finished(j, command_state, us, last_mtime, dk)
    BY <1>2, <1>5, <1>6, GroupsOf DEF UpdateInv, UpdateTypes, FileTypes
  <1>9. /\ command_state'[j] = "finished"
        /\ update_status'[j] = IF us[j] = Unset THEN 0 ELSE us[j]
        /\ \A x \in Files : x # j => /\ command_state'[x] = command_state[x]
                                     /\ update_status'[x] = us[x]
    <2>1. updated \in [Files -> BOOLEAN] /\ last_mtime \in Times /\ mk \in Makefiles
      BY <1>1, <1>4
    <2>2. command_state \in [Files -> {"not_started", "deps_running", "running", "finished"}]
      BY <1>4
    <2>3. us \in [Files -> {Unset, 0, 2}]
      BY <1>7
    <2> QED BY ONLY OrdinaryMakefiles, j \in Files, <1>8, <2>1, <2>2, <2>3, FinishedIs
  <1>10. command_state[j] = "running" /\ runs[j] = 1
    <2>1. StateAgrees(command_state, update_status, updated, jobs, runs, j)
      BY <1>1 DEF UpdateInv, StatesAgree
    <2> QED BY <1>1, <1>3, <2>1 DEF StateAgrees, GlobalTimes
  <1>11. j \notin Done /\ DepFiles(deps, j) \subseteq Done
    BY <1>1, <1>3, <1>10 DEF Done, DoneFiles, UpdateInv, JobsReady
  <1>12. Done \subseteq Done'
    <2>1. \A x \in Files : x # j => /\ command_state'[x] = command_state[x]
                                    /\ update_status'[x] = update_status[x]
      BY <1>7, <1>9
    <2>2. command_state[j] # "finished"
      BY <1>10
    <2> QED BY <2>1, <2>2, DoneStays DEF Done
  <1>13. now' >= 1 /\ \A x \in Files : dk[x] <= now'
    <2>1. now >= 1 /\ \A x \in Files : disk[x] <= now
      BY <1>1, Zenon DEF TimesKnown
    <2>2. ASSUME NEW x \in Files
          PROVE  dk[x] <= now'
      <3>1. dk[x] = disk[x] \/ dk[x] = now' \/ dk[x] = Nonexistent
        BY <1>2, <1>6
      <3>2. disk[x] \in Nat /\ disk[x] <= now
        BY <1>4, <2>1
      <3> QED BY <1>2, <1>4, <3>1, <3>2 DEF Nonexistent
    <2> QED BY <1>2, <1>4, <2>1, <2>2
  <1>14. TimesKnown(last_mtime', disk', now', mk.phony)
    <2>1. ASSUME NEW x \in Files
          PROVE  KnownTime(last_mtime[x], x, disk, mk.phony)
      BY <1>1, Zenon DEF TimesKnown, KnownTime
    <2>2. ASSUME NEW x \in Files, x # j
          PROVE  KnownTime(last_mtime[x], x, dk, mk.phony)
      <3>1. SeenTime(x, dk, mk.phony) = SeenTime(x, disk, mk.phony)
        BY <1>2, <1>6, <2>2, Zenon DEF SeenTime
      <3> QED BY <2>1, <3>1, Zenon DEF KnownTime
    <2>3. (command_state[j] = "running" /\ j \notin mk.phony) \/ KnownTime(last_mtime[j], j, dk, mk.phony)
      <3>1. CASE j \in mk.phony
        <4>1. SeenTime(j, dk, mk.phony) = SeenTime(j, disk, mk.phony)
          BY <3>1, Zenon DEF SeenTime
        <4> QED BY <2>1, <4>1, Zenon DEF KnownTime
      <3> QED BY <1>10, <3>1
    <2>4. PICK nw : nw = now'
      OBVIOUS
    <2>5. TimesKnown(last_mtime', dk, nw, mk.phony)
      BY <1>1, <1>8, <1>13, <2>2, <2>3, <2>4, FinishedTime
    <2> QED BY <1>6, <2>4, <2>5
  <1>15. ASSUME NEW x \in Done'
         PROVE  x \in Done \/ UpToDate(mk, x, deps', Done', disk')
    <2>1. x \in Files /\ command_state'[x] = "finished" /\ update_status'[x] = 0
      BY <1>15, Zenon DEF Done, DoneFiles
    <2>2. CASE x = j
      <3>1. ok
        BY <1>7, <1>9, <2>1, <2>2 DEF Unset
      <3>2. DepFiles(deps', j) \subseteq Done'
        BY <1>3, <1>11, <1>12
      <3>3. ASSUME mk.cmds[j] = "touch"
            PROVE  disk'[j] # Nonexistent /\ \A d \in PlainFiles(deps', j) : disk'[d] <= disk'[j]
        <4>1. disk'[j] = now'
          BY <1>2, <3>1, <3>3
        <4>2. PlainFiles(deps', j) \subseteq Files
          <5>1. PlainFiles(deps, j) \subseteq DepFiles(deps, j)
            BY Zenon DEF PlainFiles, DepFiles
          <5> QED BY <1>1, <1>3, <1>11, <5>1
        <4> QED BY <1>2, <1>6, <1>13, <4>1, <4>2 DEF Nonexistent
      <3>4. UpToDate(mk, j, deps', Done', disk')
        BY <3>2, <3>3, Zenon DEF UpToDate
      <3> QED BY <2>2, <3>4
    <2>3. CASE x # j
      BY <1>7, <1>9, <2>1, <2>3 DEF Done, DoneFiles
    <2> QED BY <2>2, <2>3
  <1>16. GlobalTimes'
    <2>1. UNCHANGED <<mk, old, runs>> /\ jobs' \subseteq jobs
      BY <1>3
    <2>2. \A x \in Done : disk'[x] = disk[x]
      BY <1>1, <1>2, <1>11
    <2>3. \A x \in Files : runs[x] = 0 => disk'[x] = disk[x]
      BY <1>2, <1>10
    <2>4. \A x \in Files : x \in Done \/ runs[x] = 1 => deps'[x] = deps[x]
      BY <1>3
    <2> QED BY <1>1, <1>12, <1>14, <1>15, <2>1, <2>2, <2>3, <2>4, GlobalStays
  <1>17. CASE ~Live'
    <2>1. upc' \in {"dying", "exited"}
      BY <1>17 DEF Live
    <2>2. exit' # 0
      <3>1. CASE exit' = 2
        BY <3>1
      <3>2. CASE exit' = exit /\ upc' = IF upc = "wait" THEN "more" ELSE upc
        <4>1. ~Live
          BY <2>1, <3>2 DEF Live
        <4>2. exit = 0 => AllDone
          BY <4>1, Zenon DEF BuildInv
        <4>3. ~AllDone
          BY <1>10, <1>11 DEF AllDone
        <4> QED BY <3>2, <4>2, <4>3
      <3> QED BY <1>2, <3>1, <3>2
    <2> QED BY <1>16, <2>1, <2>2, Dies
  <1>18. CASE Live'
    <2>1. Live /\ exit' = exit
      BY <1>2, <1>3, <1>18 DEF Live, CanReap, InFile
    <2>2. CallTimes /\ GoalsLeft /\ LiveOk
      BY <1>1, <2>1, BuildParts DEF UpdateInv
    <2>3. StackOk(stack, command_state, deps, updating, Visited, Done, pass, mk.keepGoing)
      BY <1>1, <2>2, StackIs
    <2>4. CallsOk(stack, deps, disk, mk.phony, mk.alwaysMake, updating, ToSet(mk.goals))
      BY <2>2, Zenon DEF CallTimes
    <2>5. CallsOk(stack, deps, dk, mk.phony, mk.alwaysMake, updating, ToSet(mk.goals))
      <3>1. \A x \in Files : x # j => dk[x] = disk[x]
        BY <1>2, <1>6
      <3> QED BY <1>1, <1>10, <1>11, <2>3, <2>4, <3>1, CallsReaped
    <2>6. NewerAnswered(stack, deps, dk, mk.phony, rv.must)
      <3>1. stack # <<>> => Last(stack).phase # "back"
        <4>1. ASSUME stack # <<>>
              PROVE  Last(stack).phase \in {"job", "started"}
          <5>1. upc = "pass"
            BY <2>2, <4>1 DEF LiveOk
          <5> QED BY <1>3, <5>1 DEF CanReap, InFile, Top
        <4> QED BY <4>1
      <3> QED BY <3>1 DEF NewerAnswered
    <2>7. CallTimes'
      BY <1>3, <1>6, <2>5, <2>6, Zenon DEF CallTimes
    <2>8. Met' \subseteq Met
      <3>1. Met = {x \in Files : command_state[x] # "not_started"} \cup StackFiles(stack)
        BY MetIs DEF Met
      <3>2. Met' = {x \in Files : command_state'[x] # "not_started"} \cup StackFiles(stack')
        BY MetIs DEF Met
      <3> QED BY <1>3, <1>9, <1>10, <3>1, <3>2
    <2>9. Reached(Met', deps', ToSet(mk.goals))
      <3>1. Reached(Met, deps, ToSet(mk.goals))
        BY <2>2, Zenon DEF GoalsLeft
      <3>2. Reached(Met', deps, ToSet(mk.goals))
        BY <2>8, <3>1, ReachedStays
      <3> QED BY <1>3, <3>2
    <2>10. GoalsLeft'
      BY <1>3, <1>12, <2>1, <2>2, <2>9, GoalsKept
    <2> QED BY <1>16, <1>18, <2>7, <2>10, StillLive
  <1> QED BY <1>17, <1>18

-----------------------------------------------------------------------------
(***************************************************************************)
(* The results.                                                            *)
(***************************************************************************)

LEMMA BuildInvStep ==
  ASSUME OrdinaryMakefiles, BuildInv, [UpdateNext]_vars
  PROVE  BuildInv'
  <1>1. UpdateInv /\ UpdateInv'
    BY UpdateInvStep, BuildParts
  <1>2. CASE DropCircular \/ CheckPrerequisite \/ PrerequisiteChecked
    BY <1>1, <1>2, DropCircularTimes, CheckPrerequisiteTimes, PrerequisiteCheckedTimes
  <1>3. CASE ToIntermediates \/ UpdateIntermediate \/ PrerequisitesDone
    BY <1>1, <1>3, LoopTimes
  <1>4. CASE WaitForPrerequisites
    BY <1>1, <1>4, WaitTimes
  <1>5. CASE GiveUp \/ NoNeedToRemake \/ RemakeWithout
    BY <1>1, <1>5, FinishTimes
  <1>6. CASE RemakeWith \/ StartCommands \/ CommandsStarted
    BY <1>1, <1>6, RemakeWithTimes, StartCommandsTimes, CommandsStartedTimes
  <1>7. CASE CheckOrdinary \/ OrdinaryUpdated
    BY <1>1, <1>7, CheckOrdinaryTimes, OrdinaryUpdatedTimes
  <1>8. CASE BeginPass \/ EndPass
    BY <1>1, <1>8, PassTimes
  <1>9. CASE GoalConsidered
    BY <1>1, <1>9, GoalConsideredTimes
  <1>10. CASE UpdateGoal
    BY <1>1, <1>10, UpdateGoalTimes
  <1>11. CASE Again
    BY <1>1, <1>11, AgainTimes
  <1>12. CASE remove_intermediates \/ Stop \/ UNCHANGED vars
    BY <1>1, <1>12, LastTimes
  <1>13. ASSUME NEW j \in Files, Reap(j)
         PROVE  BuildInv'
    BY <1>1, <1>13, ReapTimes
  <1> QED BY <1>1, <1>2, <1>3, <1>4, <1>5, <1>6, <1>7, <1>8, <1>9, <1>10, <1>11, <1>12, <1>13,
             NoOtherSteps, Zenon DEF UpdateNext

LEMMA BuildInvHolds ==
  ASSUME OrdinaryMakefiles
  PROVE  UpdateSpec => []BuildInv
  <1>1. UpdateInit => BuildInv
    BY BuildInvInit
  <1>2. BuildInv /\ [UpdateNext]_vars => BuildInv'
    BY BuildInvStep
  <1> QED BY <1>1, <1>2, PTL DEF UpdateSpec

(* Without intermediate files nothing is behind the prerequisites. *)
Through(S) == S \cup UNION {Plain(d) : d \in S \cap mk.intermediate}

LEMMA BehindIs ==
  ASSUME IsFiniteSet(Files), mk.intermediate = {}, NEW f
  PROVE  Behind(f) = PlainFiles(deps, f)
  <1> DEFINE reach[n \in 0 .. Cardinality(Files)] ==
               IF n = 0 THEN Plain(f) ELSE Through(reach[n - 1])
  <1>1. Behind(f) = reach[Cardinality(Files)]
    BY Zenon DEF Behind, Through
  <1>2. reach = CHOOSE r : r = [n \in 0 .. Cardinality(Files) |->
                  IF n = 0 THEN Plain(f) ELSE Through(r[n - 1])]
    BY Zenon DEF reach
  <1> HIDE DEF reach
  <1>3. PICK N \in Nat : N = Cardinality(Files)
    BY FS_CardinalityType
  <1>4. PICK P : P = Plain(f)
    OBVIOUS
  <1>5. ASSUME NEW S
        PROVE  Through(S) = S
    BY DEF Through
  <1>6. PICK c : c = [n \in 0 .. N |-> P]
    OBVIOUS
  <1>7. \A n \in 0 .. N : n = 0 \/ n - 1 \in 0 .. N
    OBVIOUS
  <1>8. \A n \in 0 .. N : c[n] = IF n = 0 THEN P ELSE Through(c[n - 1])
    BY <1>5, <1>6, <1>7, Zenon
  <1>9. c = [n \in 0 .. N |-> IF n = 0 THEN P ELSE Through(c[n - 1])]
    BY <1>6, <1>8
  <1>10. reach = [n \in 0 .. N |-> IF n = 0 THEN P ELSE Through(reach[n - 1])]
    BY <1>2, <1>3, <1>4, <1>9, Zenon
  <1>11. PICK T : T = {n \in 0 .. N : reach[n] = P}
    OBVIOUS
  <1>12. 0 \in T
    <2>1. 0 \in 0 .. N
      OBVIOUS
    <2> QED BY <1>10, <1>11, <2>1, Zenon
  <1>13. ASSUME NEW n \in 0 .. N - 1, n \in T
         PROVE  n + 1 \in T
    <2>1. n + 1 \in 0 .. N /\ n + 1 # 0 /\ (n + 1) - 1 = n
      OBVIOUS
    <2>2. reach[n + 1] = Through(reach[n])
      BY <1>10, <2>1, Zenon
    <2>3. reach[n + 1] = reach[n]
      BY <1>5, <2>2, Zenon
    <2> QED BY <1>11, <1>13, <2>1, <2>3
  <1>14. \A n \in 0 .. N : n \in T
    BY <1>12, <1>13, SetInduction
  <1>15. reach[N] = P
    BY <1>11, <1>14
  <1> QED BY <1>1, <1>3, <1>4, <1>15, Zenon DEF Plain, PlainFiles

(* What holds the goals and the prerequisites of all that it holds, holds  *)
(* every file that the goals need.                                         *)
Needs(S) == S \cup UNION {{deps[f][i].file : i \in DOMAIN deps[f]} : f \in S}

LEMMA NeededClosed ==
  ASSUME IsFiniteSet(Files), NEW D, ToSet(mk.goals) \subseteq D, Closed(D, deps)
  PROVE  NeededFiles \subseteq D
  <1> DEFINE reach[n \in 0 .. Cardinality(Files)] ==
               IF n = 0 THEN ToSet(mk.goals) ELSE Needs(reach[n - 1])
  <1>1. NeededFiles = reach[Cardinality(Files)]
    BY Zenon DEF NeededFiles, Needs
  <1>2. reach = CHOOSE r : r = [n \in 0 .. Cardinality(Files) |->
                  IF n = 0 THEN ToSet(mk.goals) ELSE Needs(r[n - 1])]
    BY Zenon DEF reach
  <1> HIDE DEF reach
  <1>3. PICK N \in Nat : N = Cardinality(Files)
    BY FS_CardinalityType
  <1>4. PICK first : first = ToSet(mk.goals)
    OBVIOUS
  <1>5. PICK S : S = SUBSET D
    OBVIOUS
  <1>6. first \in S
    BY <1>4, <1>5
  <1>7. ASSUME NEW s \in S
        PROVE  Needs(s) \in S
    <2>1. \A f \in s : DepFiles(deps, f) \subseteq D
      BY <1>5 DEF Closed
    <2> QED BY <1>5, <2>1 DEF Needs, DepFiles
  <1>8. PICK g : g = [p \in (1 .. N) \X S |-> Needs(p[2])]
    OBVIOUS
  <1>9. g \in [(1 .. N) \X S -> S]
    <2>1. ASSUME NEW p \in (1 .. N) \X S
          PROVE  Needs(p[2]) \in S
      <3>1. p[2] \in S
        OBVIOUS
      <3> QED BY <1>7, <3>1
    <2> QED BY <1>8, <2>1
  <1>10. PICK h \in [0 .. N -> S] : Follows(h, N, first, g)
    BY <1>6, <1>9, RecursionExists
  <1>11. ASSUME NEW n \in 1 .. N
         PROVE  h[n] = Needs(h[n - 1])
    <2>1. h[n] = g[<<n, h[n - 1]>>]
      BY <1>10 DEF Follows
    <2>2. n - 1 \in 0 .. N
      BY <1>3
    <2>3. <<n, h[n - 1]>> \in (1 .. N) \X S
      BY <2>2
    <2> QED BY <1>8, <2>1, <2>3
  <1>12. h = [n \in 0 .. N |-> IF n = 0 THEN first ELSE Needs(h[n - 1])]
    <2>1. \A n \in 0 .. N : n = 0 \/ n \in 1 .. N
      OBVIOUS
    <2>2. \A n \in 1 .. N : n # 0
      OBVIOUS
    <2>3. \A n \in 0 .. N : h[n] = IF n = 0 THEN first ELSE Needs(h[n - 1])
      BY <1>10, <1>11, <2>1, <2>2, Zenon DEF Follows
    <2> QED BY <2>3
  <1>13. reach = [n \in 0 .. N |-> IF n = 0 THEN first ELSE Needs(reach[n - 1])]
    BY <1>2, <1>3, <1>4, <1>12, Zenon
  <1>14. PICK T : T = {n \in 0 .. N : reach[n] \in S}
    OBVIOUS
  <1>15. 0 \in T
    <2>1. 0 \in 0 .. N
      OBVIOUS
    <2>2. reach[0] = first
      BY <1>13, <2>1, Zenon
    <2> QED BY <1>6, <1>14, <2>1, <2>2
  <1>16. ASSUME NEW n \in 0 .. N - 1, n \in T
         PROVE  n + 1 \in T
    <2>1. n + 1 \in 0 .. N /\ n + 1 # 0 /\ (n + 1) - 1 = n
      OBVIOUS
    <2>2. reach[n + 1] = Needs(reach[n])
      BY <1>13, <2>1, Zenon
    <2>3. reach[n] \in S
      BY <1>14, <1>16
    <2> QED BY <1>7, <1>14, <2>1, <2>2, <2>3
  <1>17. \A n \in 0 .. N : n \in T
    BY <1>15, <1>16, SetInduction
  <1>18. reach[N] \in S
    BY <1>14, <1>17
  <1> QED BY <1>1, <1>3, <1>5, <1>18

(* SuccessIsUpToDate, for makefiles without intermediate files and shared  *)
(* commands: when make exits with 0, nothing has failed in any of its      *)
(* passes, and every target that the goals need, whose commands write it,  *)
(* exists and is not older than what it is made from.                      *)
THEOREM SuccessMeansUpToDate ==
  ASSUME OrdinaryMakefiles, IsFiniteSet(Files)
  PROVE  UpdateSpec => []SuccessIsUpToDate
  <1>1. ASSUME BuildInv, upc = "exited", exit = 0
        PROVE  /\ \A f \in Files : update_status[f] # 2
               /\ \A f \in NeededFiles :
                    mk.cmds[f] = "touch" /\ f \notin mk.phony \cup mk.intermediate =>
                      disk[f] # Nonexistent /\ \A d \in Behind(f) : disk[d] <= disk[f]
    <2>1. AllDone /\ UpdateInv /\ GlobalTimes /\ mk \in Makefiles
      BY <1>1, BuildParts DEF BuildInv, Live
    <2>2. ASSUME NEW f \in Files
          PROVE  update_status[f] # 2
      <3>1. StateAgrees(command_state, update_status, updated, jobs, runs, f)
        BY <2>1 DEF UpdateInv, StatesAgree
      <3>2. CASE f \in Done
        BY <3>2 DEF Done, DoneFiles
      <3>3. CASE f \notin Done
        <4>1. command_state[f] = "not_started"
          BY <2>1, <3>3 DEF AllDone
        <4>2. update_status[f] = Unset
          BY <3>1, <4>1 DEF StateAgrees
        <4> QED BY <4>2 DEF Unset
      <3> QED BY <3>2, <3>3
    <2>3. Closed(Done, deps)
      BY <2>1, Zenon DEF Closed, GlobalTimes, UpToDate
    <2>4. NeededFiles \subseteq Done
      <3>1. ToSet(mk.goals) \subseteq Done
        BY <2>1, Zenon DEF AllDone
      <3> QED BY <2>3, <3>1, NeededClosed
    <2>5. ASSUME NEW f \in NeededFiles, mk.cmds[f] = "touch", f \notin mk.phony
          PROVE  disk[f] # Nonexistent /\ \A d \in Behind(f) : disk[d] <= disk[f]
      <3>1. UpToDate(mk, f, deps, Done, disk)
        BY <2>1, <2>4, Zenon DEF GlobalTimes
      <3>2. disk[f] # Nonexistent /\ \A d \in PlainFiles(deps, f) : disk[d] <= disk[f]
        BY <2>5, <3>1, Zenon DEF UpToDate
      <3>3. Behind(f) = PlainFiles(deps, f)
        BY <2>1, Ordinary1, BehindIs
      <3> QED BY <3>2, <3>3
    <2> QED BY <2>2, <2>5
  <1>2. BuildInv => SuccessIsUpToDate
    BY <1>1, Zenon DEF SuccessIsUpToDate
  <1> QED BY <1>2, BuildInvHolds, PTL

(* NothingNeedless, for the same makefiles: unless -B is given, commands   *)
(* are run only for targets that were phony or missing when make was       *)
(* started, or that were older than a prerequisite, or had one missing.    *)
THEOREM NothingIsRunNeedlessly ==
  ASSUME OrdinaryMakefiles, IsFiniteSet(Files)
  PROVE  UpdateSpec => []NothingNeedless
  <1>1. ASSUME BuildInv, ~mk.alwaysMake, NEW f \in Files, runs[f] > 0
        PROVE  \/ f \in mk.phony \/ old[f] = Nonexistent
               \/ \E d \in Behind(f) : d \in mk.phony \/ disk[d] = Nonexistent \/ disk[d] > old[f]
    <2>1. UpdateInv /\ GlobalTimes /\ mk \in Makefiles
      BY <1>1, BuildParts
    <2>2. runs[f] = 1
      BY <1>1, <2>1 DEF UpdateInv, StatesAgree, StateAgrees
    <2>3. Justified(mk, f, deps, Done, disk, old)
      BY <2>1, <2>2, Zenon DEF GlobalTimes
    <2>4. \/ f \in mk.phony \/ old[f] = Nonexistent
          \/ \E d \in PlainFiles(deps, f) : OutOfDate(d, old[f], disk, mk.phony)
      BY <1>1, <2>3, Zenon DEF Justified
    <2>5. ASSUME NEW d, OutOfDate(d, old[f], disk, mk.phony)
          PROVE  d \in mk.phony \/ disk[d] = Nonexistent \/ disk[d] > old[f]
      BY <2>5, Zenon DEF OutOfDate, Newer, SeenTime
    <2>6. Behind(f) = PlainFiles(deps, f)
      BY <2>1, Ordinary1, BehindIs
    <2> QED BY <2>4, <2>5, <2>6, Zenon
  <1>2. BuildInv => NothingNeedless
    BY <1>1, Zenon DEF NothingNeedless
  <1> QED BY <1>2, BuildInvHolds, PTL

=============================================================================
