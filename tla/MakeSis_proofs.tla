--------------------------- MODULE MakeSis_proofs ---------------------------
(***************************************************************************)
(* Proofs about MakeSis, for any number of processes, directories, names   *)
(* and pieces: as long as TempFileName has found a free directory for      *)
(* every process, the directories of the processes at work differ and      *)
(* each parser reads what its own process wrote.                           *)
(*                                                                         *)
(* The argument: mkdir succeeds only for a directory that does not exist,  *)
(* and a process at work keeps its directory, because no other process     *)
(* has it as its tmpPath and so none can remove it (Private).  Hence       *)
(* nobody else makes, truncates or unlinks a file there.  And whether or   *)
(* not directories are shared, none is left without one who accounts for   *)
(* it (Holds).                                                             *)
(***************************************************************************)
EXTENDS MakeSis, TLAPS

(* Which variables are set where. *)
FlowOf(p) ==
  /\ mpc[p] = "idle" => mSlot[p] = NoSlot /\ mOff[p] = 0
  /\ mpc[p] \in {"idle", "probe", "creat"} => mFile[p] = None
  /\ mpc[p] = "mkdir" => /\ mSlot[p] \in Slots
                         /\ ~mOwn[p]
                         /\ mRet[p] # "idle"
                         /\ mRet[p] # "rmdir" => mFile[p] = None
  /\ mpc[p] \in {"probe", "creat", "write", "reopen", "unlink", "rmdir"}
       => mSlot[p] \in Slots
  /\ mpc[p] \in {"write", "reopen", "unlink"} => mFile[p] # None
  /\ mpc[p] = "read" /\ mFile[p] # None => mSlot[p] \in Slots
  /\ mOwn[p] => mSlot[p] \in Slots

Flow == \A p \in Proc : FlowOf(p)

(* Files are in directories. *)
EntriesInDirs ==
  \A s \in Slots, x \in Suffixes : entry[s][x] # None => s \in dirs

Live(p) == mOwn[p] /\ mpc[p] # "done"

(* The copy is there, under the name that p knows. *)
HasCopy(p) ==
  \/ mpc[p] \in {"write", "reopen", "unlink"}
  \/ mpc[p] = "read" /\ mFile[p] # None

Reading(p) == mpc[p] = "read" \/ (mpc[p] = "mkdir" /\ mRet[p] = "read")

(* While nobody was turned away, p has a directory with no file of         *)
(* another process in it;                                                  *)
OwnDir(p) ==
  Live(p) => /\ mSlot[p] \in dirs
             /\ \A x \in Suffixes : entry[mSlot[p]][x] \in {p, None}

(* its copy is the file that it made and holds what it wrote;              *)
OwnFile(p) ==
  /\ mFile[p] \in {p, None}
  /\ HasCopy(p) => entry[mSlot[p]][mSuffix[p]] = p

OwnData(p) ==
  /\ mpc[p] = "write" => \A i \in Pieces : i <= mOff[p] => data[p][i] = p
  /\ mpc[p] = "reopen" => \A i \in Pieces : data[p][i] = p
  /\ mpc[p] = "read" /\ mFile[p] # None => \A i \in Pieces : data[p][i] = p

(* and that is what its parser reads.                                      *)
OwnRead(p) ==
  /\ \A i \in Pieces : mRead[p][i] \in {p, None}
  /\ Reading(p) => \A i \in Pieces : i <= mOff[p] => mRead[p][i] = p
  /\ mpc[p] \in {"unlink", "target"} /\ mErr[p] = "none"
       => \A i \in Pieces : mRead[p][i] = p

PrivateTo(p) == OwnDir(p) /\ OwnFile(p) /\ OwnData(p) /\ OwnRead(p)

Apart(p, q) == Live(p) /\ Live(q) /\ p # q => mSlot[p] # mSlot[q]

Private ==
  /\ \A p \in Proc : PrivateTo(p)
  /\ \A p, q \in Proc : Apart(p, q)

IInv ==
  /\ MTypeOK
  /\ Flow
  /\ EntriesInDirs
  /\ NoneTurnedAway => Private

USE DEF tmpVars, ownVars, fileVars, Goto, Ended

(* The ranges of slots and suffixes. *)
LEMMA Ranges ==
  /\ 0 \in Slots /\ 0 \in Suffixes
  /\ NoSlot \notin Slots
  /\ \A s \in Slots : s < LastSlot => s + 1 \in Slots
  /\ \A s \in Slots : s < LastSlot \/ s = LastSlot
  /\ \A x \in Suffixes : x < MaxSuffix => x + 1 \in Suffixes
  BY MakeSisAssumption DEF Slots, Suffixes, NoSlot

(* TempFileName when it is first called, and later. *)
LEMMA TempFileNameFirst ==
  ASSUME NEW p \in Proc, NEW ret, TempFileName(p, ret), mSlot[p] = NoSlot
  PROVE  /\ mpc' = [mpc EXCEPT ![p] = "mkdir"]
         /\ mSlot' = [mSlot EXCEPT ![p] = 0]
         /\ mRet' = [mRet EXCEPT ![p] = ret]
  BY DEF TempFileName

LEMMA TempFileNameAgain ==
  ASSUME NEW p \in Proc, NEW ret, TempFileName(p, ret), mSlot[p] # NoSlot
  PROVE  /\ mpc' = [mpc EXCEPT ![p] = ret]
         /\ mSlot' = mSlot
         /\ mRet' = mRet
  BY DEF TempFileName

(* Initially nothing exists and nobody has a directory. *)
LEMMA MInitInv == MInit => IInv
  <1> SUFFICES ASSUME MInit PROVE IInv
    OBVIOUS
  <1>1. MTypeOK
    BY MakeSisAssumption, Ranges DEF MInit, MTypeOK, NoPieces, Places
  <1>2. Flow /\ EntriesInDirs
    BY MakeSisAssumption, Ranges DEF MInit, Flow, FlowOf, EntriesInDirs
  <1>3. Private
    BY MakeSisAssumption, Ranges
    DEF MInit, Private, PrivateTo, OwnDir, OwnFile,
        OwnData, OwnRead, Apart, Live, HasCopy, Reading, NoPieces
  <1> QED BY <1>1, <1>2, <1>3 DEF IInv

(* The command line: no directory and no file yet. *)
LEMMA ParseCommandLineInv ==
  ASSUME NEW p \in Proc, ParseCommandLine(p), IInv
  PROVE  IInv'
  <1> MTypeOK /\ Flow /\ EntriesInDirs /\ (NoneTurnedAway => Private)
    BY DEF IInv
  <1> USE MakeSisAssumption, Ranges
  <1>1. MTypeOK'
    BY DEF MTypeOK, Flow, FlowOf, Places, Pieces,
       ParseCommandLine, ThrowUtils
  <1>2. Flow'
    BY DEF MTypeOK, Flow, FlowOf, Places, ParseCommandLine,
       ThrowUtils
  <1>3. EntriesInDirs'
    BY DEF MTypeOK, Flow, FlowOf, EntriesInDirs,
       ParseCommandLine, ThrowUtils
  <1>4. ASSUME NoneTurnedAway' PROVE Private'
    <2>1. NoneTurnedAway
      BY <1>4 DEF MTypeOK, Flow, FlowOf, NoneTurnedAway,
         Settled, ParseCommandLine, ThrowUtils
    <2>2. Private
      BY <2>1
    <2>3. \A q, r \in Proc : Apart(q, r)'
      BY <1>4, <2>1, <2>2 DEF MTypeOK, Flow, FlowOf,
         Private, PrivateTo, Apart, Live, ParseCommandLine, ThrowUtils
    <2>4. \A q \in Proc : OwnDir(q)'
      BY <1>4, <2>1, <2>2 DEF MTypeOK, Flow, FlowOf,
         Private, PrivateTo, OwnDir, Live, ParseCommandLine, ThrowUtils
    <2>5. \A q \in Proc : OwnFile(q)'
      BY <1>4, <2>1, <2>2 DEF MTypeOK, Flow, FlowOf,
         Private, PrivateTo, OwnFile, HasCopy, ParseCommandLine, ThrowUtils
    <2>6. ASSUME NEW q \in Proc PROVE OwnData(q)'
      <3>1. OwnData(q)
        BY <2>2 DEF Private, PrivateTo
      <3>2. /\ mOff'[q] = mOff[q] /\ data'[q] = data[q] /\ mFile'[q] = mFile[q]
            /\ mpc'[q] \in {"write", "reopen", "read"} => mpc'[q] = mpc[q]
        BY DEF MTypeOK, ParseCommandLine, ThrowUtils
      <3> QED BY <3>1, <3>2 DEF OwnData
    <2>7. \A q \in Proc : OwnRead(q)'
      BY <1>4, <2>1, <2>2 DEF MTypeOK, Private, PrivateTo,
         OwnRead, Reading, ParseCommandLine, ThrowUtils
    <2> QED BY <2>3, <2>4, <2>5, <2>6, <2>7 DEF Private, PrivateTo
  <1> QED BY <1>1, <1>2, <1>3, <1>4 DEF IInv

(* The first call of TempFileName starts at MKS0. *)
LEMMA ConvertSourceInv ==
  ASSUME NEW p \in Proc, ConvertSource(p), IInv
  PROVE  IInv'
  <1> MTypeOK /\ Flow /\ EntriesInDirs /\ (NoneTurnedAway => Private)
    BY DEF IInv
  <1> USE MakeSisAssumption, Ranges
  <1>1. /\ mpc[p] = "idle"
        /\ mSlot[p] = NoSlot
        /\ mpc' = [mpc EXCEPT ![p] = "mkdir"]
        /\ mSlot' = [mSlot EXCEPT ![p] = 0]
        /\ mRet' = [mRet EXCEPT ![p] = "probe"]
        /\ mOwn' = mOwn /\ mSuffix' = mSuffix
        /\ entry' = entry /\ data' = data /\ mFile' = mFile /\ mOff' = mOff
        /\ mRead' = mRead /\ mErr' = mErr /\ dirs' = dirs
    BY TempFileNameFirst DEF ConvertSource, Flow, FlowOf
  <1>2. MTypeOK'
    <2>1. (dirs \subseteq Slots /\ entry \in [Slots -> [Suffixes -> Proc \cup {None}]])'
      BY <1>1 DEF MTypeOK, Places
    <2>2. (data \in [Proc -> [Pieces -> Proc \cup {None}]])'
      BY <1>1 DEF MTypeOK, Places
    <2>3. (mpc \in [Proc -> Places])'
      BY <1>1 DEF MTypeOK, Places
    <2>4. (mSlot \in [Proc -> Slots \cup {NoSlot}])'
      BY <1>1 DEF MTypeOK, Places
    <2>5. (mOwn \in [Proc -> BOOLEAN])'
      BY <1>1 DEF MTypeOK, Places
    <2>6. (mRet \in [Proc -> {"idle", "probe", "read", "rmdir"}])'
      BY <1>1 DEF MTypeOK, Places
    <2>7. (mSuffix \in [Proc -> Suffixes] /\ mFile \in [Proc -> Proc \cup {None}])'
      BY <1>1 DEF MTypeOK, Places
    <2>8. (mOff \in [Proc -> 0 .. Chunks] /\ mRead \in [Proc -> [Pieces -> Proc \cup {None}]])'
      BY <1>1 DEF MTypeOK, Places
    <2>9. (mErr \in [Proc -> {"none", "usage", "parse", "generator", "utils"}])'
      BY <1>1 DEF MTypeOK, Places
    <2> QED BY <2>1, <2>2, <2>3, <2>4, <2>5, <2>6, <2>7, <2>8, <2>9 DEF
       MTypeOK
  <1>3. Flow'
    BY <1>1 DEF MTypeOK, Flow, FlowOf, Places
  <1>4. EntriesInDirs'
    BY <1>1 DEF MTypeOK, Flow, FlowOf, EntriesInDirs
  <1>5. ASSUME NoneTurnedAway' PROVE Private'
    <2>1. NoneTurnedAway
      BY <1>1, <1>5 DEF MTypeOK, Flow, FlowOf, NoneTurnedAway, Settled
    <2>2. Private
      BY <2>1
    <2>3. \A q, r \in Proc : Apart(q, r)'
      BY <1>1, <1>5, <2>1, <2>2 DEF MTypeOK, Flow, FlowOf, Private,
         PrivateTo, Apart, Live, OwnDir, NoneTurnedAway, Settled
    <2>4. \A q \in Proc : OwnDir(q)'
      BY <1>1, <1>5, <2>1, <2>2 DEF MTypeOK, Flow, FlowOf, Private,
         PrivateTo, OwnDir, Live, Apart, EntriesInDirs, NoneTurnedAway,
         Settled, OwnFile, HasCopy
    <2>5. \A q \in Proc : OwnFile(q)'
      BY <1>1, <1>5, <2>1, <2>2 DEF MTypeOK, Flow, FlowOf, Private,
         PrivateTo, OwnFile, HasCopy, OwnDir, Live, Apart, NoneTurnedAway,
         Settled
    <2>6. \A q \in Proc : OwnData(q)'
      BY <1>1, <1>5, <2>1, <2>2 DEF MTypeOK, Flow, FlowOf, Private,
         PrivateTo, OwnData, OwnFile, Pieces, HasCopy
    <2>7. \A q \in Proc : OwnRead(q)'
      BY <1>1, <1>5, <2>1, <2>2 DEF MTypeOK, Private, PrivateTo, OwnRead,
         Reading
    <2> QED BY <2>3, <2>4, <2>5, <2>6, <2>7 DEF Private, PrivateTo
  <1> QED BY <1>2, <1>3, <1>4, <1>5 DEF IInv

(* A PKG file that needs no copy is read where it is. *)
LEMMA OpenSourceInv ==
  ASSUME NEW p \in Proc, OpenSource(p), IInv
  PROVE  IInv'
  <1> MTypeOK /\ Flow /\ EntriesInDirs /\ (NoneTurnedAway => Private)
    BY DEF IInv
  <1> USE MakeSisAssumption, Ranges
  <1>1. MTypeOK'
    BY DEF MTypeOK, Flow, FlowOf, Places, Pieces,
       OpenSource
  <1>2. Flow'
    BY DEF MTypeOK, Flow, FlowOf, Places, OpenSource
  <1>3. EntriesInDirs'
    BY DEF MTypeOK, Flow, FlowOf, EntriesInDirs, OpenSource
  <1>4. ASSUME NoneTurnedAway' PROVE Private'
    <2>1. NoneTurnedAway
      BY <1>4 DEF MTypeOK, Flow, FlowOf, NoneTurnedAway,
         Settled, OpenSource
    <2>2. Private
      BY <2>1
    <2>3. \A q, r \in Proc : Apart(q, r)'
      BY <1>4, <2>1, <2>2 DEF MTypeOK, Flow, FlowOf,
         Private, PrivateTo, Apart, Live, OpenSource
    <2>4. \A q \in Proc : OwnDir(q)'
      BY <1>4, <2>1, <2>2 DEF MTypeOK, Flow, FlowOf,
         Private, PrivateTo, OwnDir, Live, OpenSource
    <2>5. \A q \in Proc : OwnFile(q)'
      BY <1>4, <2>1, <2>2 DEF MTypeOK, Flow, FlowOf,
         Private, PrivateTo, OwnFile, HasCopy, OpenSource
    <2>6. \A q \in Proc : OwnData(q)'
      BY <1>4, <2>1, <2>2 DEF MTypeOK, Flow, FlowOf,
         Private, PrivateTo, OwnData, OwnFile, OpenSource
    <2>7. \A q \in Proc : OwnRead(q)'
      BY <1>4, <2>1, <2>2 DEF MTypeOK, Flow, FlowOf,
         Private, PrivateTo, OwnRead, Reading, Pieces, OwnData, OwnFile,
         OpenSource
    <2> QED BY <2>3, <2>4, <2>5, <2>6, <2>7 DEF Private, PrivateTo
  <1> QED BY <1>1, <1>2, <1>3, <1>4 DEF IInv

(* mkdir: a new directory is nobody else's and holds no file. *)
LEMMA CreateDirectoryInv ==
  ASSUME NEW p \in Proc, CreateDirectory(p), IInv
  PROVE  IInv'
  <1> MTypeOK /\ Flow /\ EntriesInDirs /\ (NoneTurnedAway => Private)
    BY DEF IInv
  <1> USE MakeSisAssumption, Ranges
  <1>1. CASE mSlot[p] \notin dirs
    <2>1. /\ mpc[p] = "mkdir"
          /\ mSlot[p] \in Slots
          /\ mpc' = [mpc EXCEPT ![p] = mRet[p]]
          /\ mOwn' = [mOwn EXCEPT ![p] = TRUE]
          /\ dirs' = dirs \cup {mSlot[p]}
          /\ mSlot' = mSlot /\ mRet' = mRet /\ mSuffix' = mSuffix
          /\ entry' = entry /\ data' = data /\ mFile' = mFile /\ mOff' = mOff
          /\ mRead' = mRead /\ mErr' = mErr
      BY <1>1, Ranges DEF CreateDirectory, MTypeOK, Flow, FlowOf
    <2>2. MTypeOK'
      <3>1. (dirs \subseteq Slots /\ entry \in [Slots -> [Suffixes -> Proc \cup {None}]])'
        BY <1>1, <2>1 DEF MTypeOK, Places
      <3>2. (data \in [Proc -> [Pieces -> Proc \cup {None}]])'
        BY <1>1, <2>1 DEF MTypeOK, Places
      <3>3. (mpc \in [Proc -> Places])'
        BY <1>1, <2>1 DEF MTypeOK, Places
      <3>4. (mSlot \in [Proc -> Slots \cup {NoSlot}])'
        BY <1>1, <2>1 DEF MTypeOK, Places
      <3>5. (mOwn \in [Proc -> BOOLEAN])'
        BY <1>1, <2>1 DEF MTypeOK, Places
      <3>6. (mRet \in [Proc -> {"idle", "probe", "read", "rmdir"}])'
        BY <1>1, <2>1 DEF MTypeOK, Places
      <3>7. (mSuffix \in [Proc -> Suffixes] /\ mFile \in [Proc -> Proc \cup {None}])'
        BY <1>1, <2>1 DEF MTypeOK, Places
      <3>8. (mOff \in [Proc -> 0 .. Chunks] /\ mRead \in [Proc -> [Pieces -> Proc \cup {None}]])'
        BY <1>1, <2>1 DEF MTypeOK, Places
      <3>9. (mErr \in [Proc -> {"none", "usage", "parse", "generator", "utils"}])'
        BY <1>1, <2>1 DEF MTypeOK, Places
      <3> QED BY <3>1, <3>2, <3>3, <3>4, <3>5, <3>6, <3>7, <3>8, <3>9 DEF
         MTypeOK
    <2>3. Flow'
      BY <1>1, <2>1 DEF MTypeOK, Flow, FlowOf, Places
    <2>4. EntriesInDirs'
      BY <1>1, <2>1 DEF MTypeOK, Flow, FlowOf, EntriesInDirs
    <2>5. ASSUME NoneTurnedAway' PROVE Private'
      <3>1. NoneTurnedAway
        BY <1>1, <2>1, <2>5 DEF MTypeOK, Flow, FlowOf, NoneTurnedAway,
           Settled
      <3>2. Private
        BY <3>1
      <3>3. \A q, r \in Proc : Apart(q, r)'
        BY <1>1, <2>1, <2>5, <3>1, <3>2 DEF MTypeOK, Flow, FlowOf, Private,
           PrivateTo, Apart, Live, OwnDir, NoneTurnedAway, Settled
      <3>4. \A q \in Proc : OwnDir(q)'
        BY <1>1, <2>1, <2>5, <3>1, <3>2 DEF MTypeOK, Flow, FlowOf, Private,
           PrivateTo, OwnDir, Live, Apart, EntriesInDirs, NoneTurnedAway,
           Settled, OwnFile, HasCopy
      <3>5. \A q \in Proc : OwnFile(q)'
        BY <1>1, <2>1, <2>5, <3>1, <3>2 DEF MTypeOK, Flow, FlowOf, Private,
           PrivateTo, OwnFile, HasCopy, OwnDir, Live, Apart, NoneTurnedAway,
           Settled
      <3>6. \A q \in Proc : OwnData(q)'
        BY <1>1, <2>1, <2>5, <3>1, <3>2 DEF MTypeOK, Flow, FlowOf, Private,
           PrivateTo, OwnData, OwnFile, Pieces, HasCopy
      <3>7. \A q \in Proc : OwnRead(q)'
        <4> SUFFICES ASSUME NEW q \in Proc PROVE OwnRead(q)'
          OBVIOUS
        <4>1. Reading(q)' => Reading(q)
          BY <1>1, <2>1 DEF MTypeOK, Reading
        <4>2. mpc'[q] \in {"unlink", "target"} => mpc[q] = mpc'[q]
          BY <1>1, <2>1 DEF MTypeOK
        <4>3. OwnRead(q)
          BY <3>2 DEF Private, PrivateTo
        <4> QED BY <1>1, <2>1, <4>1, <4>2, <4>3 DEF OwnRead
      <3> QED BY <3>3, <3>4, <3>5, <3>6, <3>7 DEF Private, PrivateTo
    <2> QED BY <2>2, <2>3, <2>4, <2>5 DEF IInv
  <1>2. CASE mSlot[p] \in dirs /\ mSlot[p] < LastSlot
    <2>1. /\ mpc[p] = "mkdir"
          /\ mSlot[p] \in Slots
          /\ mSlot' = [mSlot EXCEPT ![p] = mSlot[p] + 1]
          /\ mSlot[p] + 1 \in Slots
          /\ mpc' = mpc /\ mOwn' = mOwn /\ dirs' = dirs
          /\ mRet' = mRet /\ mSuffix' = mSuffix
          /\ entry' = entry /\ data' = data /\ mFile' = mFile /\ mOff' = mOff
          /\ mRead' = mRead /\ mErr' = mErr
      BY <1>2, Ranges DEF CreateDirectory, MTypeOK, Flow, FlowOf
    <2>2. MTypeOK'
      <3>1. (dirs \subseteq Slots /\ entry \in [Slots -> [Suffixes -> Proc \cup {None}]])'
        BY <1>2, <2>1 DEF MTypeOK, Places
      <3>2. (data \in [Proc -> [Pieces -> Proc \cup {None}]])'
        BY <1>2, <2>1 DEF MTypeOK, Places
      <3>3. (mpc \in [Proc -> Places])'
        BY <1>2, <2>1 DEF MTypeOK, Places
      <3>4. (mSlot \in [Proc -> Slots \cup {NoSlot}])'
        BY <1>2, <2>1 DEF MTypeOK, Places
      <3>5. (mOwn \in [Proc -> BOOLEAN])'
        BY <1>2, <2>1 DEF MTypeOK, Places
      <3>6. (mRet \in [Proc -> {"idle", "probe", "read", "rmdir"}])'
        BY <1>2, <2>1 DEF MTypeOK, Places
      <3>7. (mSuffix \in [Proc -> Suffixes] /\ mFile \in [Proc -> Proc \cup {None}])'
        BY <1>2, <2>1 DEF MTypeOK, Places
      <3>8. (mOff \in [Proc -> 0 .. Chunks] /\ mRead \in [Proc -> [Pieces -> Proc \cup {None}]])'
        BY <1>2, <2>1 DEF MTypeOK, Places
      <3>9. (mErr \in [Proc -> {"none", "usage", "parse", "generator", "utils"}])'
        BY <1>2, <2>1 DEF MTypeOK, Places
      <3> QED BY <3>1, <3>2, <3>3, <3>4, <3>5, <3>6, <3>7, <3>8, <3>9 DEF
         MTypeOK
    <2>3. Flow'
      BY <1>2, <2>1 DEF MTypeOK, Flow, FlowOf, Places
    <2>4. EntriesInDirs'
      BY <1>2, <2>1 DEF MTypeOK, Flow, FlowOf, EntriesInDirs
    <2>5. ASSUME NoneTurnedAway' PROVE Private'
      <3>1. NoneTurnedAway
        BY <1>2, <2>1, <2>5 DEF MTypeOK, Flow, FlowOf, NoneTurnedAway,
           Settled
      <3>2. Private
        BY <3>1
      <3>3. \A q, r \in Proc : Apart(q, r)'
        BY <1>2, <2>1, <2>5, <3>1, <3>2 DEF MTypeOK, Flow, FlowOf, Private,
           PrivateTo, Apart, Live, OwnDir, NoneTurnedAway, Settled
      <3>4. \A q \in Proc : OwnDir(q)'
        BY <1>2, <2>1, <2>5, <3>1, <3>2 DEF MTypeOK, Flow, FlowOf, Private,
           PrivateTo, OwnDir, Live, Apart, EntriesInDirs, NoneTurnedAway,
           Settled, OwnFile, HasCopy
      <3>5. \A q \in Proc : OwnFile(q)'
        BY <1>2, <2>1, <2>5, <3>1, <3>2 DEF MTypeOK, Flow, FlowOf, Private,
           PrivateTo, OwnFile, HasCopy, OwnDir, Live, Apart, NoneTurnedAway,
           Settled
      <3>6. \A q \in Proc : OwnData(q)'
        BY <1>2, <2>1, <2>5, <3>1, <3>2 DEF MTypeOK, Flow, FlowOf, Private,
           PrivateTo, OwnData, OwnFile, Pieces, HasCopy
      <3>7. \A q \in Proc : OwnRead(q)'
        <4> SUFFICES ASSUME NEW q \in Proc PROVE OwnRead(q)'
          OBVIOUS
        <4>1. Reading(q)' => Reading(q)
          BY <1>2, <2>1 DEF MTypeOK, Reading
        <4>2. mpc'[q] \in {"unlink", "target"} => mpc[q] = mpc'[q]
          BY <1>2, <2>1 DEF MTypeOK
        <4>3. OwnRead(q)
          BY <3>2 DEF Private, PrivateTo
        <4> QED BY <1>2, <2>1, <4>1, <4>2, <4>3 DEF OwnRead
      <3> QED BY <3>3, <3>4, <3>5, <3>6, <3>7 DEF Private, PrivateTo
    <2> QED BY <2>2, <2>3, <2>4, <2>5 DEF IInv
  <1>3. CASE mSlot[p] \in dirs /\ mSlot[p] = LastSlot
    <2>1. /\ mpc[p] = "mkdir"
          /\ mSlot[p] \in Slots
          /\ mpc' = [mpc EXCEPT ![p] = mRet[p]]
          /\ mSlot' = mSlot /\ mOwn' = mOwn /\ dirs' = dirs
          /\ mRet' = mRet /\ mSuffix' = mSuffix
          /\ entry' = entry /\ data' = data /\ mFile' = mFile /\ mOff' = mOff
          /\ mRead' = mRead /\ mErr' = mErr
      BY <1>3, Ranges DEF CreateDirectory, MTypeOK, Flow, FlowOf
    <2>2. MTypeOK'
      <3>1. (dirs \subseteq Slots /\ entry \in [Slots -> [Suffixes -> Proc \cup {None}]])'
        BY <1>3, <2>1 DEF MTypeOK, Places
      <3>2. (data \in [Proc -> [Pieces -> Proc \cup {None}]])'
        BY <1>3, <2>1 DEF MTypeOK, Places
      <3>3. (mpc \in [Proc -> Places])'
        BY <1>3, <2>1 DEF MTypeOK, Places
      <3>4. (mSlot \in [Proc -> Slots \cup {NoSlot}])'
        BY <1>3, <2>1 DEF MTypeOK, Places
      <3>5. (mOwn \in [Proc -> BOOLEAN])'
        BY <1>3, <2>1 DEF MTypeOK, Places
      <3>6. (mRet \in [Proc -> {"idle", "probe", "read", "rmdir"}])'
        BY <1>3, <2>1 DEF MTypeOK, Places
      <3>7. (mSuffix \in [Proc -> Suffixes] /\ mFile \in [Proc -> Proc \cup {None}])'
        BY <1>3, <2>1 DEF MTypeOK, Places
      <3>8. (mOff \in [Proc -> 0 .. Chunks] /\ mRead \in [Proc -> [Pieces -> Proc \cup {None}]])'
        BY <1>3, <2>1 DEF MTypeOK, Places
      <3>9. (mErr \in [Proc -> {"none", "usage", "parse", "generator", "utils"}])'
        BY <1>3, <2>1 DEF MTypeOK, Places
      <3> QED BY <3>1, <3>2, <3>3, <3>4, <3>5, <3>6, <3>7, <3>8, <3>9 DEF
         MTypeOK
    <2>3. Flow'
      BY <1>3, <2>1 DEF MTypeOK, Flow, FlowOf, Places
    <2>4. EntriesInDirs'
      BY <1>3, <2>1 DEF MTypeOK, Flow, FlowOf, EntriesInDirs
    <2>5. ASSUME NoneTurnedAway' PROVE Private'
      <3>1. NoneTurnedAway
        BY <1>3, <2>1, <2>5 DEF MTypeOK, Flow, FlowOf, NoneTurnedAway,
           Settled
      <3>2. Private
        BY <3>1
      <3>3. \A q, r \in Proc : Apart(q, r)'
        BY <1>3, <2>1, <2>5, <3>1, <3>2 DEF MTypeOK, Flow, FlowOf, Private,
           PrivateTo, Apart, Live, OwnDir, NoneTurnedAway, Settled
      <3>4. \A q \in Proc : OwnDir(q)'
        BY <1>3, <2>1, <2>5, <3>1, <3>2 DEF MTypeOK, Flow, FlowOf, Private,
           PrivateTo, OwnDir, Live, Apart, EntriesInDirs, NoneTurnedAway,
           Settled, OwnFile, HasCopy
      <3>5. \A q \in Proc : OwnFile(q)'
        BY <1>3, <2>1, <2>5, <3>1, <3>2 DEF MTypeOK, Flow, FlowOf, Private,
           PrivateTo, OwnFile, HasCopy, OwnDir, Live, Apart, NoneTurnedAway,
           Settled
      <3>6. \A q \in Proc : OwnData(q)'
        BY <1>3, <2>1, <2>5, <3>1, <3>2 DEF MTypeOK, Flow, FlowOf, Private,
           PrivateTo, OwnData, OwnFile, Pieces, HasCopy
      <3>7. \A q \in Proc : OwnRead(q)'
        <4> SUFFICES ASSUME NEW q \in Proc PROVE OwnRead(q)'
          OBVIOUS
        <4>1. Reading(q)' => Reading(q)
          BY <1>3, <2>1 DEF MTypeOK, Reading
        <4>2. mpc'[q] \in {"unlink", "target"} => mpc[q] = mpc'[q]
          BY <1>3, <2>1 DEF MTypeOK
        <4>3. OwnRead(q)
          BY <3>2 DEF Private, PrivateTo
        <4> QED BY <1>3, <2>1, <4>1, <4>2, <4>3 DEF OwnRead
      <3> QED BY <3>3, <3>4, <3>5, <3>6, <3>7 DEF Private, PrivateTo
    <2> QED BY <2>2, <2>3, <2>4, <2>5 DEF IInv
  <1> QED BY <1>1, <1>2, <1>3, Ranges DEF MTypeOK, Flow, FlowOf,
     CreateDirectory

(* Probing changes only the name. *)
LEMMA ProbeNameInv ==
  ASSUME NEW p \in Proc, ProbeName(p), IInv
  PROVE  IInv'
  <1> MTypeOK /\ Flow /\ EntriesInDirs /\ (NoneTurnedAway => Private)
    BY DEF IInv
  <1> USE MakeSisAssumption, Ranges
  <1>1. CASE mSuffix[p] < MaxSuffix /\ entry[mSlot[p]][mSuffix[p]] # None
    <2>1. /\ mpc[p] = "probe"
          /\ mSuffix' = [mSuffix EXCEPT ![p] = mSuffix[p] + 1]
          /\ mSuffix[p] + 1 \in Suffixes
          /\ mpc' = mpc /\ mSlot' = mSlot /\ mOwn' = mOwn /\ mRet' = mRet
          /\ entry' = entry /\ data' = data /\ mFile' = mFile /\ mOff' = mOff
          /\ mRead' = mRead /\ mErr' = mErr /\ dirs' = dirs
      BY <1>1, Ranges DEF ProbeName, MTypeOK, Flow, FlowOf
    <2>2. MTypeOK'
      <3>1. (dirs \subseteq Slots /\ entry \in [Slots -> [Suffixes -> Proc \cup {None}]])'
        BY <1>1, <2>1 DEF MTypeOK, Places
      <3>2. (data \in [Proc -> [Pieces -> Proc \cup {None}]])'
        BY <1>1, <2>1 DEF MTypeOK, Places
      <3>3. (mpc \in [Proc -> Places])'
        BY <1>1, <2>1 DEF MTypeOK, Places
      <3>4. (mSlot \in [Proc -> Slots \cup {NoSlot}])'
        BY <1>1, <2>1 DEF MTypeOK, Places
      <3>5. (mOwn \in [Proc -> BOOLEAN])'
        BY <1>1, <2>1 DEF MTypeOK, Places
      <3>6. (mRet \in [Proc -> {"idle", "probe", "read", "rmdir"}])'
        BY <1>1, <2>1 DEF MTypeOK, Places
      <3>7. (mSuffix \in [Proc -> Suffixes] /\ mFile \in [Proc -> Proc \cup {None}])'
        BY <1>1, <2>1 DEF MTypeOK, Places
      <3>8. (mOff \in [Proc -> 0 .. Chunks] /\ mRead \in [Proc -> [Pieces -> Proc \cup {None}]])'
        BY <1>1, <2>1 DEF MTypeOK, Places
      <3>9. (mErr \in [Proc -> {"none", "usage", "parse", "generator", "utils"}])'
        BY <1>1, <2>1 DEF MTypeOK, Places
      <3> QED BY <3>1, <3>2, <3>3, <3>4, <3>5, <3>6, <3>7, <3>8, <3>9 DEF
         MTypeOK
    <2>3. Flow'
      BY <1>1, <2>1 DEF MTypeOK, Flow, FlowOf, Places
    <2>4. EntriesInDirs'
      BY <1>1, <2>1 DEF MTypeOK, Flow, FlowOf, EntriesInDirs
    <2>5. ASSUME NoneTurnedAway' PROVE Private'
      <3>1. NoneTurnedAway
        BY <1>1, <2>1, <2>5 DEF MTypeOK, Flow, FlowOf, NoneTurnedAway,
           Settled
      <3>2. Private
        BY <3>1
      <3>3. \A q, r \in Proc : Apart(q, r)'
        BY <1>1, <2>1, <2>5, <3>1, <3>2 DEF MTypeOK, Flow, FlowOf, Private,
           PrivateTo, Apart, Live, OwnDir, NoneTurnedAway, Settled
      <3>4. \A q \in Proc : OwnDir(q)'
        BY <1>1, <2>1, <2>5, <3>1, <3>2 DEF MTypeOK, Flow, FlowOf, Private,
           PrivateTo, OwnDir, Live, Apart, EntriesInDirs, NoneTurnedAway,
           Settled, OwnFile, HasCopy
      <3>5. \A q \in Proc : OwnFile(q)'
        BY <1>1, <2>1, <2>5, <3>1, <3>2 DEF MTypeOK, Flow, FlowOf, Private,
           PrivateTo, OwnFile, HasCopy, OwnDir, Live, Apart, NoneTurnedAway,
           Settled
      <3>6. \A q \in Proc : OwnData(q)'
        BY <1>1, <2>1, <2>5, <3>1, <3>2 DEF MTypeOK, Flow, FlowOf, Private,
           PrivateTo, OwnData, OwnFile, Pieces, HasCopy
      <3>7. \A q \in Proc : OwnRead(q)'
        BY <1>1, <2>1, <2>5, <3>1, <3>2 DEF MTypeOK, Private, PrivateTo,
           OwnRead, Reading
      <3> QED BY <3>3, <3>4, <3>5, <3>6, <3>7 DEF Private, PrivateTo
    <2> QED BY <2>2, <2>3, <2>4, <2>5 DEF IInv
  <1>2. CASE ~(mSuffix[p] < MaxSuffix /\ entry[mSlot[p]][mSuffix[p]] # None)
    <2>1. /\ mpc[p] = "probe"
          /\ mpc' = [mpc EXCEPT ![p] = "creat"]
          /\ mSuffix' = mSuffix /\ mSlot' = mSlot /\ mOwn' = mOwn /\ mRet' = mRet
          /\ entry' = entry /\ data' = data /\ mFile' = mFile /\ mOff' = mOff
          /\ mRead' = mRead /\ mErr' = mErr /\ dirs' = dirs
      BY <1>2, Ranges DEF ProbeName, MTypeOK, Flow, FlowOf
    <2>2. MTypeOK'
      <3>1. (dirs \subseteq Slots /\ entry \in [Slots -> [Suffixes -> Proc \cup {None}]])'
        BY <1>2, <2>1 DEF MTypeOK, Places
      <3>2. (data \in [Proc -> [Pieces -> Proc \cup {None}]])'
        BY <1>2, <2>1 DEF MTypeOK, Places
      <3>3. (mpc \in [Proc -> Places])'
        BY <1>2, <2>1 DEF MTypeOK, Places
      <3>4. (mSlot \in [Proc -> Slots \cup {NoSlot}])'
        BY <1>2, <2>1 DEF MTypeOK, Places
      <3>5. (mOwn \in [Proc -> BOOLEAN])'
        BY <1>2, <2>1 DEF MTypeOK, Places
      <3>6. (mRet \in [Proc -> {"idle", "probe", "read", "rmdir"}])'
        BY <1>2, <2>1 DEF MTypeOK, Places
      <3>7. (mSuffix \in [Proc -> Suffixes] /\ mFile \in [Proc -> Proc \cup {None}])'
        BY <1>2, <2>1 DEF MTypeOK, Places
      <3>8. (mOff \in [Proc -> 0 .. Chunks] /\ mRead \in [Proc -> [Pieces -> Proc \cup {None}]])'
        BY <1>2, <2>1 DEF MTypeOK, Places
      <3>9. (mErr \in [Proc -> {"none", "usage", "parse", "generator", "utils"}])'
        BY <1>2, <2>1 DEF MTypeOK, Places
      <3> QED BY <3>1, <3>2, <3>3, <3>4, <3>5, <3>6, <3>7, <3>8, <3>9 DEF
         MTypeOK
    <2>3. Flow'
      BY <1>2, <2>1 DEF MTypeOK, Flow, FlowOf, Places
    <2>4. EntriesInDirs'
      BY <1>2, <2>1 DEF MTypeOK, Flow, FlowOf, EntriesInDirs
    <2>5. ASSUME NoneTurnedAway' PROVE Private'
      <3>1. NoneTurnedAway
        BY <1>2, <2>1, <2>5 DEF MTypeOK, Flow, FlowOf, NoneTurnedAway,
           Settled
      <3>2. Private
        BY <3>1
      <3>3. \A q, r \in Proc : Apart(q, r)'
        BY <1>2, <2>1, <2>5, <3>1, <3>2 DEF MTypeOK, Flow, FlowOf, Private,
           PrivateTo, Apart, Live, OwnDir, NoneTurnedAway, Settled
      <3>4. \A q \in Proc : OwnDir(q)'
        BY <1>2, <2>1, <2>5, <3>1, <3>2 DEF MTypeOK, Flow, FlowOf, Private,
           PrivateTo, OwnDir, Live, Apart, EntriesInDirs, NoneTurnedAway,
           Settled, OwnFile, HasCopy
      <3>5. \A q \in Proc : OwnFile(q)'
        BY <1>2, <2>1, <2>5, <3>1, <3>2 DEF MTypeOK, Flow, FlowOf, Private,
           PrivateTo, OwnFile, HasCopy, OwnDir, Live, Apart, NoneTurnedAway,
           Settled
      <3>6. \A q \in Proc : OwnData(q)'
        BY <1>2, <2>1, <2>5, <3>1, <3>2 DEF MTypeOK, Flow, FlowOf, Private,
           PrivateTo, OwnData, OwnFile, Pieces, HasCopy
      <3>7. \A q \in Proc : OwnRead(q)'
        BY <1>2, <2>1, <2>5, <3>1, <3>2 DEF MTypeOK, Private, PrivateTo,
           OwnRead, Reading
      <3> QED BY <3>3, <3>4, <3>5, <3>6, <3>7 DEF Private, PrivateTo
    <2> QED BY <2>2, <2>3, <2>4, <2>5 DEF IInv
  <1> QED BY <1>1, <1>2

(* creat: in its own directory p makes, or truncates, its own file. *)
LEMMA CreateCopyInv ==
  ASSUME NEW p \in Proc, CreateCopy(p), IInv
  PROVE  IInv'
  <1> MTypeOK /\ Flow /\ EntriesInDirs /\ (NoneTurnedAway => Private)
    BY DEF IInv
  <1> USE MakeSisAssumption, Ranges
  <1>1. MTypeOK'
    BY DEF MTypeOK, Flow, FlowOf, Places, Pieces,
       CreateCopy, NoPieces
  <1>2. Flow'
    BY DEF MTypeOK, Flow, FlowOf, Places, CreateCopy,
       NoPieces
  <1>3. EntriesInDirs'
    BY DEF MTypeOK, Flow, FlowOf, EntriesInDirs,
       CreateCopy, NoPieces
  <1>4. ASSUME NoneTurnedAway' PROVE Private'
    <2>1. NoneTurnedAway
      BY <1>4 DEF MTypeOK, Flow, FlowOf, NoneTurnedAway,
         Settled, CreateCopy, NoPieces
    <2>2. Private
      BY <2>1
    <2>3. \A q, r \in Proc : Apart(q, r)'
      BY <1>4, <2>1, <2>2 DEF MTypeOK, Flow, FlowOf,
         Private, PrivateTo, Apart, Live, OwnDir, NoneTurnedAway, Settled,
         CreateCopy, NoPieces
    <2>a. /\ entry[mSlot[p]][mSuffix[p]] \in {p, None}
          /\ mSlot[p] \in Slots /\ mSuffix[p] \in Suffixes
          /\ Live(p)
      BY <2>1, <2>2 DEF MTypeOK, Flow, FlowOf, Private, PrivateTo, OwnDir,
         Live, NoneTurnedAway, Settled, CreateCopy
    <2>b. /\ entry' = [entry EXCEPT ![mSlot[p]][mSuffix[p]] = p]
          /\ data' = [data EXCEPT ![p] = NoPieces]
          /\ mFile' = [mFile EXCEPT ![p] = p]
          /\ mpc' = [mpc EXCEPT ![p] = "write"]
          /\ mOff' = [mOff EXCEPT ![p] = 0]
          /\ dirs' = dirs /\ mSlot' = mSlot /\ mSuffix' = mSuffix /\ mOwn' = mOwn
      BY <2>a DEF CreateCopy
    <2>c. ASSUME NEW q \in Proc, q # p
          PROVE  /\ mpc'[q] = mpc[q] /\ mOff'[q] = mOff[q]
                 /\ data'[q] = data[q] /\ mFile'[q] = mFile[q]
      BY <2>b, <2>c DEF MTypeOK
    <2>d. ASSUME NEW s \in Slots, s # mSlot[p] PROVE entry'[s] = entry[s]
      BY <2>b, <2>d DEF MTypeOK
    <2>e. \A x \in Suffixes : entry'[mSlot[p]][x]
                              = IF x = mSuffix[p] THEN p ELSE entry[mSlot[p]][x]
      BY <2>a, <2>b DEF MTypeOK
    <2>4. \A q \in Proc : OwnDir(q)'
      <3>1. OwnDir(p)'
        BY <2>2, <2>a, <2>b, <2>e DEF Private, PrivateTo, OwnDir
      <3>2. ASSUME NEW q \in Proc, q # p PROVE OwnDir(q)'
        <4>1. OwnDir(q) /\ Apart(p, q)
          BY <2>2 DEF Private, PrivateTo
        <4>2. Live(q) => mSlot[q] \in Slots /\ mSlot[q] # mSlot[p]
          BY <2>a, <3>2, <4>1 DEF Apart, Live, Flow, FlowOf
        <4>3. Live(q)' => Live(q)
          BY <2>b, <2>c, <3>2 DEF Live
        <4> QED BY <4>1, <4>2, <4>3, <2>b, <2>d DEF OwnDir
      <3> QED BY <3>1, <3>2
    <2>5. \A q \in Proc : OwnFile(q)'
      <3>1. OwnFile(p)'
        BY <2>a, <2>b, <2>e DEF MTypeOK, OwnFile
      <3>2. ASSUME NEW q \in Proc, q # p PROVE OwnFile(q)'
        <4>1. OwnFile(q)
          BY <2>2 DEF Private, PrivateTo
        <4>2. HasCopy(q) => mSlot[q] \in Slots /\ mSlot[q] # mSlot[p]
          <5>1. HasCopy(q) => mSlot[q] \in Slots
            BY DEF Flow, FlowOf, HasCopy
          <5>2. HasCopy(q) => Live(q)
            BY <2>1, <5>1 DEF HasCopy, NoneTurnedAway, Settled, Live
          <5> QED BY <2>2, <2>a, <3>2, <5>1, <5>2 DEF Private, Apart
        <4>3. HasCopy(q)' = HasCopy(q)
          BY <2>c, <3>2 DEF HasCopy
        <4> QED BY <4>1, <4>2, <4>3, <2>b, <2>c, <2>d, <3>2 DEF OwnFile
      <3> QED BY <3>1, <3>2
    <2>6. \A q \in Proc : OwnData(q)'
      <3>1. OwnData(p)'
        <4>1. mpc'[p] = "write" /\ mOff'[p] = 0
          BY <2>b DEF MTypeOK
        <4>2. \A i \in Pieces : ~(i <= 0)
          BY DEF Pieces
        <4> QED BY <4>1, <4>2 DEF OwnData
      <3>2. ASSUME NEW q \in Proc, q # p PROVE OwnData(q)'
        <4>1. OwnData(q)
          BY <2>2 DEF Private, PrivateTo
        <4> QED BY <4>1, <2>c, <3>2 DEF OwnData
      <3> QED BY <3>1, <3>2
    <2>7. \A q \in Proc : OwnRead(q)'
      BY <1>4, <2>1, <2>2 DEF MTypeOK, Private, PrivateTo,
         OwnRead, Reading, CreateCopy, NoPieces
    <2> QED BY <2>3, <2>4, <2>5, <2>6, <2>7 DEF Private, PrivateTo
  <1> QED BY <1>1, <1>2, <1>3, <1>4 DEF IInv

(* Without a directory nothing is made. *)
LEMMA CreateCopyFailsInv ==
  ASSUME NEW p \in Proc, CreateCopyFails(p), IInv
  PROVE  IInv'
  <1> MTypeOK /\ Flow /\ EntriesInDirs /\ (NoneTurnedAway => Private)
    BY DEF IInv
  <1> USE MakeSisAssumption, Ranges
  <1>1. MTypeOK'
    BY DEF MTypeOK, Flow, FlowOf, Places, Pieces,
       CreateCopyFails, ThrowUtils
  <1>2. Flow'
    BY DEF MTypeOK, Flow, FlowOf, Places, CreateCopyFails,
       ThrowUtils
  <1>3. EntriesInDirs'
    BY DEF MTypeOK, Flow, FlowOf, EntriesInDirs,
       CreateCopyFails, ThrowUtils
  <1>4. ASSUME NoneTurnedAway' PROVE Private'
    <2>1. NoneTurnedAway
      BY <1>4 DEF MTypeOK, Flow, FlowOf, NoneTurnedAway,
         Settled, CreateCopyFails, ThrowUtils
    <2>2. Private
      BY <2>1
    <2>3. \A q, r \in Proc : Apart(q, r)'
      BY <1>4, <2>1, <2>2 DEF MTypeOK, Flow, FlowOf,
         Private, PrivateTo, Apart, Live, CreateCopyFails, ThrowUtils
    <2>4. \A q \in Proc : OwnDir(q)'
      BY <1>4, <2>1, <2>2 DEF MTypeOK, Flow, FlowOf,
         Private, PrivateTo, OwnDir, Live, CreateCopyFails, ThrowUtils
    <2>5. \A q \in Proc : OwnFile(q)'
      BY <1>4, <2>1, <2>2 DEF MTypeOK, Flow, FlowOf,
         Private, PrivateTo, OwnFile, HasCopy, CreateCopyFails, ThrowUtils
    <2>6. \A q \in Proc : OwnData(q)'
      BY <1>4, <2>1, <2>2 DEF MTypeOK, Flow, FlowOf,
         Private, PrivateTo, OwnData, OwnFile, CreateCopyFails, ThrowUtils
    <2>7. \A q \in Proc : OwnRead(q)'
      BY <1>4, <2>1, <2>2 DEF MTypeOK, Private, PrivateTo,
         OwnRead, Reading, CreateCopyFails, ThrowUtils
    <2> QED BY <2>3, <2>4, <2>5, <2>6, <2>7 DEF Private, PrivateTo
  <1> QED BY <1>1, <1>2, <1>3, <1>4 DEF IInv

(* The pieces go into the file of p. *)
LEMMA WriteCopyInv ==
  ASSUME NEW p \in Proc, WriteCopy(p), IInv
  PROVE  IInv'
  <1> MTypeOK /\ Flow /\ EntriesInDirs /\ (NoneTurnedAway => Private)
    BY DEF IInv
  <1> USE MakeSisAssumption, Ranges
  <1>1. MTypeOK'
    BY DEF MTypeOK, Flow, FlowOf, Places, Pieces, WriteCopy
  <1>2. Flow'
    BY DEF MTypeOK, Flow, FlowOf, Places, WriteCopy
  <1>3. EntriesInDirs'
    BY DEF MTypeOK, Flow, FlowOf, EntriesInDirs, WriteCopy
  <1>4. ASSUME NoneTurnedAway' PROVE Private'
    <2>1. NoneTurnedAway
      BY <1>4 DEF MTypeOK, Flow, FlowOf, NoneTurnedAway,
         Settled, WriteCopy
    <2>2. Private
      BY <2>1
    <2>3. \A q, r \in Proc : Apart(q, r)'
      BY <1>4, <2>1, <2>2 DEF MTypeOK, Flow, FlowOf,
         Private, PrivateTo, Apart, Live, OwnDir, NoneTurnedAway, Settled,
         WriteCopy
    <2>4. \A q \in Proc : OwnDir(q)'
      BY <1>4, <2>1, <2>2 DEF MTypeOK, Flow, FlowOf,
         Private, PrivateTo, OwnDir, Live, Apart, EntriesInDirs,
         NoneTurnedAway, Settled, OwnFile, HasCopy, WriteCopy
    <2>5. \A q \in Proc : OwnFile(q)'
      BY <1>4, <2>1, <2>2 DEF MTypeOK, Flow, FlowOf,
         Private, PrivateTo, OwnFile, HasCopy, OwnDir, Live, Apart,
         NoneTurnedAway, Settled, WriteCopy
    <2>6. \A q \in Proc : OwnData(q)'
      BY <1>4, <2>1, <2>2 DEF MTypeOK, Flow, FlowOf,
         Private, PrivateTo, OwnData, OwnFile, Pieces, HasCopy, WriteCopy
    <2>7. \A q \in Proc : OwnRead(q)'
      BY <1>4, <2>1, <2>2 DEF MTypeOK, Private, PrivateTo,
         OwnRead, Reading, WriteCopy
    <2> QED BY <2>3, <2>4, <2>5, <2>6, <2>7 DEF Private, PrivateTo
  <1> QED BY <1>1, <1>2, <1>3, <1>4 DEF IInv

(* A failed write ends the use of the copy. *)
LEMMA WriteCopyFailsInv ==
  ASSUME NEW p \in Proc, WriteCopyFails(p), IInv
  PROVE  IInv'
  <1> MTypeOK /\ Flow /\ EntriesInDirs /\ (NoneTurnedAway => Private)
    BY DEF IInv
  <1> USE MakeSisAssumption, Ranges
  <1>1. MTypeOK'
    BY DEF MTypeOK, Flow, FlowOf, Places, Pieces,
       WriteCopyFails, ThrowUtils
  <1>2. Flow'
    BY DEF MTypeOK, Flow, FlowOf, Places, WriteCopyFails,
       ThrowUtils
  <1>3. EntriesInDirs'
    BY DEF MTypeOK, Flow, FlowOf, EntriesInDirs,
       WriteCopyFails, ThrowUtils
  <1>4. ASSUME NoneTurnedAway' PROVE Private'
    <2>1. NoneTurnedAway
      BY <1>4 DEF MTypeOK, Flow, FlowOf, NoneTurnedAway,
         Settled, WriteCopyFails, ThrowUtils
    <2>2. Private
      BY <2>1
    <2>3. \A q, r \in Proc : Apart(q, r)'
      BY <1>4, <2>1, <2>2 DEF MTypeOK, Flow, FlowOf,
         Private, PrivateTo, Apart, Live, WriteCopyFails, ThrowUtils
    <2>4. \A q \in Proc : OwnDir(q)'
      BY <1>4, <2>1, <2>2 DEF MTypeOK, Flow, FlowOf,
         Private, PrivateTo, OwnDir, Live, WriteCopyFails, ThrowUtils
    <2>5. \A q \in Proc : OwnFile(q)'
      BY <1>4, <2>1, <2>2 DEF MTypeOK, Flow, FlowOf,
         Private, PrivateTo, OwnFile, HasCopy, WriteCopyFails, ThrowUtils
    <2>6. \A q \in Proc : OwnData(q)'
      BY <1>4, <2>1, <2>2 DEF MTypeOK, Flow, FlowOf,
         Private, PrivateTo, OwnData, OwnFile, WriteCopyFails, ThrowUtils
    <2>7. \A q \in Proc : OwnRead(q)'
      BY <1>4, <2>1, <2>2 DEF MTypeOK, Private, PrivateTo,
         OwnRead, Reading, WriteCopyFails, ThrowUtils
    <2> QED BY <2>3, <2>4, <2>5, <2>6, <2>7 DEF Private, PrivateTo
  <1> QED BY <1>1, <1>2, <1>3, <1>4 DEF IInv

(* The copy is whole when it is closed. *)
LEMMA CloseCopyInv ==
  ASSUME NEW p \in Proc, CloseCopy(p), IInv
  PROVE  IInv'
  <1> MTypeOK /\ Flow /\ EntriesInDirs /\ (NoneTurnedAway => Private)
    BY DEF IInv
  <1> USE MakeSisAssumption, Ranges
  <1>1. MTypeOK'
    BY DEF MTypeOK, Flow, FlowOf, Places, Pieces, CloseCopy
  <1>2. Flow'
    BY DEF MTypeOK, Flow, FlowOf, Places, CloseCopy
  <1>3. EntriesInDirs'
    BY DEF MTypeOK, Flow, FlowOf, EntriesInDirs, CloseCopy
  <1>4. ASSUME NoneTurnedAway' PROVE Private'
    <2>1. NoneTurnedAway
      BY <1>4 DEF MTypeOK, Flow, FlowOf, NoneTurnedAway,
         Settled, CloseCopy
    <2>2. Private
      BY <2>1
    <2>3. \A q, r \in Proc : Apart(q, r)'
      BY <1>4, <2>1, <2>2 DEF MTypeOK, Flow, FlowOf,
         Private, PrivateTo, Apart, Live, CloseCopy
    <2>4. \A q \in Proc : OwnDir(q)'
      BY <1>4, <2>1, <2>2 DEF MTypeOK, Flow, FlowOf,
         Private, PrivateTo, OwnDir, Live, CloseCopy
    <2>5. \A q \in Proc : OwnFile(q)'
      BY <1>4, <2>1, <2>2 DEF MTypeOK, Flow, FlowOf,
         Private, PrivateTo, OwnFile, HasCopy, CloseCopy
    <2>6. \A q \in Proc : OwnData(q)'
      BY <1>4, <2>1, <2>2 DEF MTypeOK, Flow, FlowOf,
         Private, PrivateTo, OwnData, OwnFile, Pieces, HasCopy, CloseCopy
    <2>7. \A q \in Proc : OwnRead(q)'
      BY <1>4, <2>1, <2>2 DEF MTypeOK, Private, PrivateTo,
         OwnRead, Reading, CloseCopy
    <2> QED BY <2>3, <2>4, <2>5, <2>6, <2>7 DEF Private, PrivateTo
  <1> QED BY <1>1, <1>2, <1>3, <1>4 DEF IInv

(* The name still leads to the file of p. *)
LEMMA ReopenCopyInv ==
  ASSUME NEW p \in Proc, ReopenCopy(p), IInv
  PROVE  IInv'
  <1> MTypeOK /\ Flow /\ EntriesInDirs /\ (NoneTurnedAway => Private)
    BY DEF IInv
  <1> USE MakeSisAssumption, Ranges
  <1>1. MTypeOK'
    BY DEF MTypeOK, Flow, FlowOf, Places, Pieces,
       ReopenCopy
  <1>2. Flow'
    BY DEF MTypeOK, Flow, FlowOf, Places, ReopenCopy
  <1>3. EntriesInDirs'
    BY DEF MTypeOK, Flow, FlowOf, EntriesInDirs, ReopenCopy
  <1>4. ASSUME NoneTurnedAway' PROVE Private'
    <2>1. NoneTurnedAway
      BY <1>4 DEF MTypeOK, Flow, FlowOf, NoneTurnedAway,
         Settled, ReopenCopy
    <2>2. Private
      BY <2>1
    <2>3. \A q, r \in Proc : Apart(q, r)'
      BY <1>4, <2>1, <2>2 DEF MTypeOK, Flow, FlowOf,
         Private, PrivateTo, Apart, Live, OwnDir, NoneTurnedAway, Settled,
         ReopenCopy
    <2>4. \A q \in Proc : OwnDir(q)'
      BY <1>4, <2>1, <2>2 DEF MTypeOK, Flow, FlowOf,
         Private, PrivateTo, OwnDir, Live, Apart, EntriesInDirs,
         NoneTurnedAway, Settled, OwnFile, HasCopy, ReopenCopy
    <2>5. \A q \in Proc : OwnFile(q)'
      BY <1>4, <2>1, <2>2 DEF MTypeOK, Flow, FlowOf,
         Private, PrivateTo, OwnFile, HasCopy, OwnDir, Live, Apart,
         NoneTurnedAway, Settled, ReopenCopy
    <2>6. \A q \in Proc : OwnData(q)'
      BY <1>4, <2>1, <2>2 DEF MTypeOK, Flow, FlowOf,
         Private, PrivateTo, OwnData, OwnFile, Pieces, HasCopy, ReopenCopy
    <2>7. \A q \in Proc : OwnRead(q)'
      BY <1>4, <2>1, <2>2 DEF MTypeOK, Flow, FlowOf,
         Private, PrivateTo, OwnRead, Reading, Pieces, OwnData, OwnFile,
         ReopenCopy
    <2> QED BY <2>3, <2>4, <2>5, <2>6, <2>7 DEF Private, PrivateTo
  <1> QED BY <1>1, <1>2, <1>3, <1>4 DEF IInv

(* Without a copy nothing is read. *)
LEMMA ReopenCopyFailsInv ==
  ASSUME NEW p \in Proc, ReopenCopyFails(p), IInv
  PROVE  IInv'
  <1> MTypeOK /\ Flow /\ EntriesInDirs /\ (NoneTurnedAway => Private)
    BY DEF IInv
  <1> USE MakeSisAssumption, Ranges
  <1>1. MTypeOK'
    BY DEF MTypeOK, Flow, FlowOf, Places, Pieces,
       ReopenCopyFails, ThrowUtils
  <1>2. Flow'
    BY DEF MTypeOK, Flow, FlowOf, Places, ReopenCopyFails,
       ThrowUtils
  <1>3. EntriesInDirs'
    BY DEF MTypeOK, Flow, FlowOf, EntriesInDirs,
       ReopenCopyFails, ThrowUtils
  <1>4. ASSUME NoneTurnedAway' PROVE Private'
    <2>1. NoneTurnedAway
      BY <1>4 DEF MTypeOK, Flow, FlowOf, NoneTurnedAway,
         Settled, ReopenCopyFails, ThrowUtils
    <2>2. Private
      BY <2>1
    <2>3. \A q, r \in Proc : Apart(q, r)'
      BY <1>4, <2>1, <2>2 DEF MTypeOK, Flow, FlowOf,
         Private, PrivateTo, Apart, Live, ReopenCopyFails, ThrowUtils
    <2>4. \A q \in Proc : OwnDir(q)'
      BY <1>4, <2>1, <2>2 DEF MTypeOK, Flow, FlowOf,
         Private, PrivateTo, OwnDir, Live, ReopenCopyFails, ThrowUtils
    <2>5. \A q \in Proc : OwnFile(q)'
      BY <1>4, <2>1, <2>2 DEF MTypeOK, Flow, FlowOf,
         Private, PrivateTo, OwnFile, HasCopy, ReopenCopyFails, ThrowUtils
    <2>6. \A q \in Proc : OwnData(q)'
      BY <1>4, <2>1, <2>2 DEF MTypeOK, Flow, FlowOf,
         Private, PrivateTo, OwnData, OwnFile, ReopenCopyFails, ThrowUtils
    <2>7. \A q \in Proc : OwnRead(q)'
      BY <1>4, <2>1, <2>2 DEF MTypeOK, Private, PrivateTo,
         OwnRead, Reading, ReopenCopyFails, ThrowUtils
    <2> QED BY <2>3, <2>4, <2>5, <2>6, <2>7 DEF Private, PrivateTo
  <1> QED BY <1>1, <1>2, <1>3, <1>4 DEF IInv

(* What is read is what p wrote. *)
LEMMA GetNextCharInv ==
  ASSUME NEW p \in Proc, GetNextChar(p), IInv
  PROVE  IInv'
  <1> MTypeOK /\ Flow /\ EntriesInDirs /\ (NoneTurnedAway => Private)
    BY DEF IInv
  <1> USE MakeSisAssumption, Ranges
  <1>1. MTypeOK'
    BY DEF MTypeOK, Flow, FlowOf, Places, Pieces,
       GetNextChar, SourceEnds, Converted
  <1>2. Flow'
    BY DEF MTypeOK, Flow, FlowOf, Places, GetNextChar,
       SourceEnds, Converted
  <1>3. EntriesInDirs'
    BY DEF MTypeOK, Flow, FlowOf, EntriesInDirs,
       GetNextChar, SourceEnds, Converted
  <1>4. ASSUME NoneTurnedAway' PROVE Private'
    <2>1. NoneTurnedAway
      BY <1>4 DEF MTypeOK, Flow, FlowOf, NoneTurnedAway,
         Settled, GetNextChar, SourceEnds, Converted
    <2>2. Private
      BY <2>1
    <2>3. \A q, r \in Proc : Apart(q, r)'
      BY <1>4, <2>1, <2>2 DEF MTypeOK, Flow, FlowOf,
         Private, PrivateTo, Apart, Live, OwnDir, NoneTurnedAway, Settled,
         GetNextChar, SourceEnds, Converted
    <2>4. \A q \in Proc : OwnDir(q)'
      BY <1>4, <2>1, <2>2 DEF MTypeOK, Flow, FlowOf,
         Private, PrivateTo, OwnDir, Live, Apart, EntriesInDirs,
         NoneTurnedAway, Settled, OwnFile, HasCopy, GetNextChar, SourceEnds,
         Converted
    <2>5. \A q \in Proc : OwnFile(q)'
      BY <1>4, <2>1, <2>2 DEF MTypeOK, Flow, FlowOf,
         Private, PrivateTo, OwnFile, HasCopy, OwnDir, Live, Apart,
         NoneTurnedAway, Settled, GetNextChar, SourceEnds, Converted
    <2>6. \A q \in Proc : OwnData(q)'
      BY <1>4, <2>1, <2>2 DEF MTypeOK, Flow, FlowOf,
         Private, PrivateTo, OwnData, OwnFile, Pieces, HasCopy, GetNextChar,
         SourceEnds, Converted
    <2>7. \A q \in Proc : OwnRead(q)'
      BY <1>4, <2>1, <2>2 DEF MTypeOK, Flow, FlowOf,
         Private, PrivateTo, OwnRead, Reading, Pieces, OwnData, OwnFile,
         GetNextChar, SourceEnds, Converted
    <2> QED BY <2>3, <2>4, <2>5, <2>6, <2>7 DEF Private, PrivateTo
  <1> QED BY <1>1, <1>2, <1>3, <1>4 DEF IInv

(* ParseSignatureL only asks for a name. *)
LEMMA ParseSignatureInv ==
  ASSUME NEW p \in Proc, ParseSignature(p), IInv
  PROVE  IInv'
  <1> MTypeOK /\ Flow /\ EntriesInDirs /\ (NoneTurnedAway => Private)
    BY DEF IInv
  <1> USE MakeSisAssumption, Ranges
  <1>1. /\ mpc[p] = "read"
        /\ mSlot[p] = NoSlot
        /\ mpc' = [mpc EXCEPT ![p] = "mkdir"]
        /\ mSlot' = [mSlot EXCEPT ![p] = 0]
        /\ mRet' = [mRet EXCEPT ![p] = "read"]
        /\ mOwn' = mOwn /\ mSuffix' = mSuffix
        /\ entry' = entry /\ data' = data /\ mFile' = mFile /\ mOff' = mOff
        /\ mRead' = mRead /\ mErr' = mErr /\ dirs' = dirs
    BY TempFileNameFirst DEF ParseSignature
  <1>2. MTypeOK'
    <2>1. (dirs \subseteq Slots /\ entry \in [Slots -> [Suffixes -> Proc \cup {None}]])'
      BY <1>1 DEF MTypeOK, Places
    <2>2. (data \in [Proc -> [Pieces -> Proc \cup {None}]])'
      BY <1>1 DEF MTypeOK, Places
    <2>3. (mpc \in [Proc -> Places])'
      BY <1>1 DEF MTypeOK, Places
    <2>4. (mSlot \in [Proc -> Slots \cup {NoSlot}])'
      BY <1>1 DEF MTypeOK, Places
    <2>5. (mOwn \in [Proc -> BOOLEAN])'
      BY <1>1 DEF MTypeOK, Places
    <2>6. (mRet \in [Proc -> {"idle", "probe", "read", "rmdir"}])'
      BY <1>1 DEF MTypeOK, Places
    <2>7. (mSuffix \in [Proc -> Suffixes] /\ mFile \in [Proc -> Proc \cup {None}])'
      BY <1>1 DEF MTypeOK, Places
    <2>8. (mOff \in [Proc -> 0 .. Chunks] /\ mRead \in [Proc -> [Pieces -> Proc \cup {None}]])'
      BY <1>1 DEF MTypeOK, Places
    <2>9. (mErr \in [Proc -> {"none", "usage", "parse", "generator", "utils"}])'
      BY <1>1 DEF MTypeOK, Places
    <2> QED BY <2>1, <2>2, <2>3, <2>4, <2>5, <2>6, <2>7, <2>8, <2>9 DEF
       MTypeOK
  <1>3. Flow'
    BY <1>1 DEF MTypeOK, Flow, FlowOf, Places
  <1>4. EntriesInDirs'
    BY <1>1 DEF MTypeOK, Flow, FlowOf, EntriesInDirs
  <1>5. ASSUME NoneTurnedAway' PROVE Private'
    <2>1. NoneTurnedAway
      BY <1>1, <1>5 DEF MTypeOK, Flow, FlowOf, NoneTurnedAway, Settled
    <2>2. Private
      BY <2>1
    <2>3. \A q, r \in Proc : Apart(q, r)'
      BY <1>1, <1>5, <2>1, <2>2 DEF MTypeOK, Flow, FlowOf, Private,
         PrivateTo, Apart, Live, OwnDir, NoneTurnedAway, Settled
    <2>4. \A q \in Proc : OwnDir(q)'
      BY <1>1, <1>5, <2>1, <2>2 DEF MTypeOK, Flow, FlowOf, Private,
         PrivateTo, OwnDir, Live, Apart, EntriesInDirs, NoneTurnedAway,
         Settled, OwnFile, HasCopy
    <2>5. \A q \in Proc : OwnFile(q)'
      BY <1>1, <1>5, <2>1, <2>2 DEF MTypeOK, Flow, FlowOf, Private,
         PrivateTo, OwnFile, HasCopy, OwnDir, Live, Apart, NoneTurnedAway,
         Settled
    <2>6. \A q \in Proc : OwnData(q)'
      BY <1>1, <1>5, <2>1, <2>2 DEF MTypeOK, Flow, FlowOf, Private,
         PrivateTo, OwnData, OwnFile, Pieces, HasCopy
    <2>7. \A q \in Proc : OwnRead(q)'
      <3> SUFFICES ASSUME NEW q \in Proc PROVE OwnRead(q)'
        OBVIOUS
      <3>1. Reading(q)' => Reading(q)
        <4>1. CASE q = p
          BY <1>1, <4>1 DEF Reading
        <4>2. CASE q # p
          BY <1>1, <4>2 DEF MTypeOK, Reading
        <4> QED BY <4>1, <4>2
      <3>2. mpc'[q] \in {"unlink", "target"} => mpc[q] = mpc'[q]
        BY <1>1 DEF MTypeOK
      <3>3. OwnRead(q)
        BY <2>2 DEF Private, PrivateTo
      <3> QED BY <1>1, <3>1, <3>2, <3>3 DEF OwnRead
    <2> QED BY <2>3, <2>4, <2>5, <2>6, <2>7 DEF Private, PrivateTo
  <1> QED BY <1>2, <1>3, <1>4, <1>5 DEF IInv

(* At the end of the file all pieces were read. *)
LEMMA ParseEndsInv ==
  ASSUME NEW p \in Proc, ParseEnds(p), IInv
  PROVE  IInv'
  <1> MTypeOK /\ Flow /\ EntriesInDirs /\ (NoneTurnedAway => Private)
    BY DEF IInv
  <1> USE MakeSisAssumption, Ranges
  <1>1. MTypeOK'
    BY DEF MTypeOK, Flow, FlowOf, Places, Pieces,
       ParseEnds, SourceEnds, Converted, AfterParsing
  <1>2. Flow'
    BY DEF MTypeOK, Flow, FlowOf, Places, ParseEnds,
       SourceEnds, Converted, AfterParsing
  <1>3. EntriesInDirs'
    BY DEF MTypeOK, Flow, FlowOf, EntriesInDirs, ParseEnds,
       SourceEnds, Converted, AfterParsing
  <1>4. ASSUME NoneTurnedAway' PROVE Private'
    <2>1. NoneTurnedAway
      BY <1>4 DEF MTypeOK, Flow, FlowOf, NoneTurnedAway,
         Settled, ParseEnds, SourceEnds, Converted, AfterParsing
    <2>2. Private
      BY <2>1
    <2>3. \A q, r \in Proc : Apart(q, r)'
      BY <1>4, <2>1, <2>2 DEF MTypeOK, Flow, FlowOf,
         Private, PrivateTo, Apart, Live, ParseEnds, SourceEnds, Converted,
         AfterParsing
    <2>4. \A q \in Proc : OwnDir(q)'
      BY <1>4, <2>1, <2>2 DEF MTypeOK, Flow, FlowOf,
         Private, PrivateTo, OwnDir, Live, ParseEnds, SourceEnds, Converted,
         AfterParsing
    <2>5. \A q \in Proc : OwnFile(q)'
      BY <1>4, <2>1, <2>2 DEF MTypeOK, Flow, FlowOf,
         Private, PrivateTo, OwnFile, HasCopy, ParseEnds, SourceEnds,
         Converted, AfterParsing
    <2>6. \A q \in Proc : OwnData(q)'
      BY <1>4, <2>1, <2>2 DEF MTypeOK, Flow, FlowOf,
         Private, PrivateTo, OwnData, OwnFile, ParseEnds, SourceEnds,
         Converted, AfterParsing
    <2>7. \A q \in Proc : OwnRead(q)'
      <3>1. mOff[p] = Chunks
        BY <2>2 DEF MTypeOK, Flow, FlowOf, Private,
           PrivateTo, OwnData, OwnFile, Pieces, ParseEnds, SourceEnds,
           Converted, AfterParsing
      <3>2. Reading(p)
        BY DEF ParseEnds, Reading
      <3>3. OwnRead(p)
        BY <2>2 DEF Private, PrivateTo
      <3>4. \A i \in Pieces : mRead[p][i] = p
        BY <3>1, <3>2, <3>3 DEF OwnRead, Pieces
      <3> QED BY <2>2, <3>4 DEF MTypeOK, Private,
         PrivateTo, OwnRead, Reading, ParseEnds, AfterParsing, Converted
    <2> QED BY <2>3, <2>4, <2>5, <2>6, <2>7 DEF Private, PrivateTo
  <1> QED BY <1>1, <1>2, <1>3, <1>4 DEF IInv

(* A parse error leaves the copy to be removed. *)
LEMMA ParseThrowsInv ==
  ASSUME NEW p \in Proc, ParseThrows(p), IInv
  PROVE  IInv'
  <1> MTypeOK /\ Flow /\ EntriesInDirs /\ (NoneTurnedAway => Private)
    BY DEF IInv
  <1> USE MakeSisAssumption, Ranges
  <1>1. MTypeOK'
    BY DEF MTypeOK, Flow, FlowOf, Places, Pieces,
       ParseThrows, Converted, AfterParsing
  <1>2. Flow'
    BY DEF MTypeOK, Flow, FlowOf, Places, ParseThrows,
       Converted, AfterParsing
  <1>3. EntriesInDirs'
    BY DEF MTypeOK, Flow, FlowOf, EntriesInDirs,
       ParseThrows, Converted, AfterParsing
  <1>4. ASSUME NoneTurnedAway' PROVE Private'
    <2>1. NoneTurnedAway
      BY <1>4 DEF MTypeOK, Flow, FlowOf, NoneTurnedAway,
         Settled, ParseThrows, Converted, AfterParsing
    <2>2. Private
      BY <2>1
    <2>3. \A q, r \in Proc : Apart(q, r)'
      BY <1>4, <2>1, <2>2 DEF MTypeOK, Flow, FlowOf,
         Private, PrivateTo, Apart, Live, ParseThrows, Converted,
         AfterParsing
    <2>4. \A q \in Proc : OwnDir(q)'
      BY <1>4, <2>1, <2>2 DEF MTypeOK, Flow, FlowOf,
         Private, PrivateTo, OwnDir, Live, ParseThrows, Converted,
         AfterParsing
    <2>5. \A q \in Proc : OwnFile(q)'
      BY <1>4, <2>1, <2>2 DEF MTypeOK, Flow, FlowOf,
         Private, PrivateTo, OwnFile, HasCopy, ParseThrows, Converted,
         AfterParsing
    <2>6. \A q \in Proc : OwnData(q)'
      BY <1>4, <2>1, <2>2 DEF MTypeOK, Flow, FlowOf,
         Private, PrivateTo, OwnData, OwnFile, ParseThrows, Converted,
         AfterParsing
    <2>7. \A q \in Proc : OwnRead(q)'
      BY <1>4, <2>1, <2>2 DEF MTypeOK, Private, PrivateTo,
         OwnRead, Reading, ParseThrows, Converted, AfterParsing
    <2> QED BY <2>3, <2>4, <2>5, <2>6, <2>7 DEF Private, PrivateTo
  <1> QED BY <1>1, <1>2, <1>3, <1>4 DEF IInv

(* unlink removes the file of p. *)
LEMMA RemoveCopyInv ==
  ASSUME NEW p \in Proc, RemoveCopy(p), IInv
  PROVE  IInv'
  <1> MTypeOK /\ Flow /\ EntriesInDirs /\ (NoneTurnedAway => Private)
    BY DEF IInv
  <1> USE MakeSisAssumption, Ranges
  <1>1. MTypeOK'
    BY DEF MTypeOK, Flow, FlowOf, Places, Pieces,
       RemoveCopy
  <1>2. Flow'
    BY DEF MTypeOK, Flow, FlowOf, Places, RemoveCopy
  <1>3. EntriesInDirs'
    BY DEF MTypeOK, Flow, FlowOf, EntriesInDirs, RemoveCopy
  <1>4. ASSUME NoneTurnedAway' PROVE Private'
    <2>1. NoneTurnedAway
      BY <1>4 DEF MTypeOK, Flow, FlowOf, NoneTurnedAway,
         Settled, RemoveCopy
    <2>2. Private
      BY <2>1
    <2>3. \A q, r \in Proc : Apart(q, r)'
      BY <1>4, <2>1, <2>2 DEF MTypeOK, Flow, FlowOf,
         Private, PrivateTo, Apart, Live, OwnDir, NoneTurnedAway, Settled,
         RemoveCopy
    <2>4. \A q \in Proc : OwnDir(q)'
      BY <1>4, <2>1, <2>2 DEF MTypeOK, Flow, FlowOf,
         Private, PrivateTo, OwnDir, Live, Apart, EntriesInDirs,
         NoneTurnedAway, Settled, OwnFile, HasCopy, RemoveCopy
    <2>5. \A q \in Proc : OwnFile(q)'
      BY <1>4, <2>1, <2>2 DEF MTypeOK, Flow, FlowOf,
         Private, PrivateTo, OwnFile, HasCopy, OwnDir, Live, Apart,
         NoneTurnedAway, Settled, RemoveCopy
    <2>6. \A q \in Proc : OwnData(q)'
      BY <1>4, <2>1, <2>2 DEF MTypeOK, Flow, FlowOf,
         Private, PrivateTo, OwnData, OwnFile, Pieces, HasCopy, RemoveCopy
    <2>7. \A q \in Proc : OwnRead(q)'
      BY <1>4, <2>1, <2>2 DEF MTypeOK, Private, PrivateTo,
         OwnRead, Reading, RemoveCopy
    <2> QED BY <2>3, <2>4, <2>5, <2>6, <2>7 DEF Private, PrivateTo
  <1> QED BY <1>1, <1>2, <1>3, <1>4 DEF IInv

(* The generator uses no temporary file. *)
LEMMA WriteTargetInv ==
  ASSUME NEW p \in Proc, WriteTarget(p), IInv
  PROVE  IInv'
  <1> MTypeOK /\ Flow /\ EntriesInDirs /\ (NoneTurnedAway => Private)
    BY DEF IInv
  <1> USE MakeSisAssumption, Ranges
  <1>1. MTypeOK'
    BY DEF MTypeOK, Flow, FlowOf, Places, Pieces,
       WriteTarget
  <1>2. Flow'
    BY DEF MTypeOK, Flow, FlowOf, Places, WriteTarget
  <1>3. EntriesInDirs'
    BY DEF MTypeOK, Flow, FlowOf, EntriesInDirs,
       WriteTarget
  <1>4. ASSUME NoneTurnedAway' PROVE Private'
    <2>1. NoneTurnedAway
      BY <1>4 DEF MTypeOK, Flow, FlowOf, NoneTurnedAway,
         Settled, WriteTarget
    <2>2. Private
      BY <2>1
    <2>3. \A q, r \in Proc : Apart(q, r)'
      <3>1. \A q \in Proc : Live(q)' => Live(q)
        BY DEF MTypeOK, Live, WriteTarget
      <3>2. mSlot' = mSlot
        BY DEF WriteTarget
      <3> QED BY <2>2, <3>1, <3>2 DEF Private, Apart
    <2>4. \A q \in Proc : OwnDir(q)'
      BY <1>4, <2>1, <2>2 DEF MTypeOK, Flow, FlowOf,
         Private, PrivateTo, OwnDir, Live, WriteTarget
    <2>5. \A q \in Proc : OwnFile(q)'
      BY <1>4, <2>1, <2>2 DEF MTypeOK, Flow, FlowOf,
         Private, PrivateTo, OwnFile, HasCopy, WriteTarget
    <2>6. \A q \in Proc : OwnData(q)'
      BY <1>4, <2>1, <2>2 DEF MTypeOK, Flow, FlowOf,
         Private, PrivateTo, OwnData, OwnFile, WriteTarget
    <2>7. \A q \in Proc : OwnRead(q)'
      <3>1. /\ mpc'[p] \in {"release", "aborted"}
            /\ \A q \in Proc \ {p} : mpc'[q] = mpc[q] /\ mErr'[q] = mErr[q]
            /\ mRead' = mRead /\ mOff' = mOff /\ mRet' = mRet
        BY DEF MTypeOK, WriteTarget
      <3> QED BY <2>2, <3>1 DEF Private, PrivateTo, OwnRead, Reading
    <2> QED BY <2>3, <2>4, <2>5, <2>6, <2>7 DEF Private, PrivateTo
  <1> QED BY <1>1, <1>2, <1>3, <1>4 DEF IInv

(* CleanupTemp asks for the directory. *)
LEMMA ReleaseInv ==
  ASSUME NEW p \in Proc, Release(p), IInv
  PROVE  IInv'
  <1> MTypeOK /\ Flow /\ EntriesInDirs /\ (NoneTurnedAway => Private)
    BY DEF IInv
  <1> USE MakeSisAssumption, Ranges
  <1>1. CASE mSlot[p] = NoSlot
    <2>1. /\ mpc[p] = "release"
          /\ mSlot[p] = NoSlot
          /\ mpc' = [mpc EXCEPT ![p] = "mkdir"]
          /\ mSlot' = [mSlot EXCEPT ![p] = 0]
          /\ mRet' = [mRet EXCEPT ![p] = "rmdir"]
          /\ mOwn' = mOwn /\ mSuffix' = mSuffix
          /\ entry' = entry /\ data' = data /\ mFile' = mFile /\ mOff' = mOff
          /\ mRead' = mRead /\ mErr' = mErr /\ dirs' = dirs
      BY <1>1, TempFileNameFirst DEF Release
    <2>2. MTypeOK'
      <3>1. (dirs \subseteq Slots /\ entry \in [Slots -> [Suffixes -> Proc \cup {None}]])'
        BY <1>1, <2>1 DEF MTypeOK, Places
      <3>2. (data \in [Proc -> [Pieces -> Proc \cup {None}]])'
        BY <1>1, <2>1 DEF MTypeOK, Places
      <3>3. (mpc \in [Proc -> Places])'
        BY <1>1, <2>1 DEF MTypeOK, Places
      <3>4. (mSlot \in [Proc -> Slots \cup {NoSlot}])'
        BY <1>1, <2>1 DEF MTypeOK, Places
      <3>5. (mOwn \in [Proc -> BOOLEAN])'
        BY <1>1, <2>1 DEF MTypeOK, Places
      <3>6. (mRet \in [Proc -> {"idle", "probe", "read", "rmdir"}])'
        BY <1>1, <2>1 DEF MTypeOK, Places
      <3>7. (mSuffix \in [Proc -> Suffixes] /\ mFile \in [Proc -> Proc \cup {None}])'
        BY <1>1, <2>1 DEF MTypeOK, Places
      <3>8. (mOff \in [Proc -> 0 .. Chunks] /\ mRead \in [Proc -> [Pieces -> Proc \cup {None}]])'
        BY <1>1, <2>1 DEF MTypeOK, Places
      <3>9. (mErr \in [Proc -> {"none", "usage", "parse", "generator", "utils"}])'
        BY <1>1, <2>1 DEF MTypeOK, Places
      <3> QED BY <3>1, <3>2, <3>3, <3>4, <3>5, <3>6, <3>7, <3>8, <3>9 DEF
         MTypeOK
    <2>3. Flow'
      BY <1>1, <2>1 DEF MTypeOK, Flow, FlowOf, Places
    <2>4. EntriesInDirs'
      BY <1>1, <2>1 DEF MTypeOK, Flow, FlowOf, EntriesInDirs
    <2>5. ASSUME NoneTurnedAway' PROVE Private'
      <3>1. NoneTurnedAway
        BY <1>1, <2>1, <2>5 DEF MTypeOK, Flow, FlowOf, NoneTurnedAway,
           Settled
      <3>2. Private
        BY <3>1
      <3>3. \A q, r \in Proc : Apart(q, r)'
        BY <1>1, <2>1, <2>5, <3>1, <3>2 DEF MTypeOK, Flow, FlowOf, Private,
           PrivateTo, Apart, Live, OwnDir, NoneTurnedAway, Settled
      <3>4. \A q \in Proc : OwnDir(q)'
        BY <1>1, <2>1, <2>5, <3>1, <3>2 DEF MTypeOK, Flow, FlowOf, Private,
           PrivateTo, OwnDir, Live, Apart, EntriesInDirs, NoneTurnedAway,
           Settled, OwnFile, HasCopy
      <3>5. \A q \in Proc : OwnFile(q)'
        BY <1>1, <2>1, <2>5, <3>1, <3>2 DEF MTypeOK, Flow, FlowOf, Private,
           PrivateTo, OwnFile, HasCopy, OwnDir, Live, Apart, NoneTurnedAway,
           Settled
      <3>6. \A q \in Proc : OwnData(q)'
        BY <1>1, <2>1, <2>5, <3>1, <3>2 DEF MTypeOK, Flow, FlowOf, Private,
           PrivateTo, OwnData, OwnFile, Pieces, HasCopy
      <3>7. \A q \in Proc : OwnRead(q)'
        BY <1>1, <2>1, <2>5, <3>1, <3>2 DEF MTypeOK, Private, PrivateTo,
           OwnRead, Reading
      <3> QED BY <3>3, <3>4, <3>5, <3>6, <3>7 DEF Private, PrivateTo
    <2> QED BY <2>2, <2>3, <2>4, <2>5 DEF IInv
  <1>2. CASE mSlot[p] # NoSlot
    <2>1. /\ mpc[p] = "release"
          /\ mpc' = [mpc EXCEPT ![p] = "rmdir"]
          /\ mSlot' = mSlot /\ mRet' = mRet
          /\ mOwn' = mOwn /\ mSuffix' = mSuffix
          /\ entry' = entry /\ data' = data /\ mFile' = mFile /\ mOff' = mOff
          /\ mRead' = mRead /\ mErr' = mErr /\ dirs' = dirs
      BY <1>2, TempFileNameAgain DEF Release
    <2>2. MTypeOK'
      <3>1. (dirs \subseteq Slots /\ entry \in [Slots -> [Suffixes -> Proc \cup {None}]])'
        BY <1>2, <2>1 DEF MTypeOK, Places
      <3>2. (data \in [Proc -> [Pieces -> Proc \cup {None}]])'
        BY <1>2, <2>1 DEF MTypeOK, Places
      <3>3. (mpc \in [Proc -> Places])'
        BY <1>2, <2>1 DEF MTypeOK, Places
      <3>4. (mSlot \in [Proc -> Slots \cup {NoSlot}])'
        BY <1>2, <2>1 DEF MTypeOK, Places
      <3>5. (mOwn \in [Proc -> BOOLEAN])'
        BY <1>2, <2>1 DEF MTypeOK, Places
      <3>6. (mRet \in [Proc -> {"idle", "probe", "read", "rmdir"}])'
        BY <1>2, <2>1 DEF MTypeOK, Places
      <3>7. (mSuffix \in [Proc -> Suffixes] /\ mFile \in [Proc -> Proc \cup {None}])'
        BY <1>2, <2>1 DEF MTypeOK, Places
      <3>8. (mOff \in [Proc -> 0 .. Chunks] /\ mRead \in [Proc -> [Pieces -> Proc \cup {None}]])'
        BY <1>2, <2>1 DEF MTypeOK, Places
      <3>9. (mErr \in [Proc -> {"none", "usage", "parse", "generator", "utils"}])'
        BY <1>2, <2>1 DEF MTypeOK, Places
      <3> QED BY <3>1, <3>2, <3>3, <3>4, <3>5, <3>6, <3>7, <3>8, <3>9 DEF
         MTypeOK
    <2>3. Flow'
      BY <1>2, <2>1 DEF MTypeOK, Flow, FlowOf, Places
    <2>4. EntriesInDirs'
      BY <1>2, <2>1 DEF MTypeOK, Flow, FlowOf, EntriesInDirs
    <2>5. ASSUME NoneTurnedAway' PROVE Private'
      <3>1. NoneTurnedAway
        BY <1>2, <2>1, <2>5 DEF MTypeOK, Flow, FlowOf, NoneTurnedAway,
           Settled
      <3>2. Private
        BY <3>1
      <3>3. \A q, r \in Proc : Apart(q, r)'
        BY <1>2, <2>1, <2>5, <3>1, <3>2 DEF MTypeOK, Flow, FlowOf, Private,
           PrivateTo, Apart, Live, OwnDir, NoneTurnedAway, Settled
      <3>4. \A q \in Proc : OwnDir(q)'
        BY <1>2, <2>1, <2>5, <3>1, <3>2 DEF MTypeOK, Flow, FlowOf, Private,
           PrivateTo, OwnDir, Live, Apart, EntriesInDirs, NoneTurnedAway,
           Settled, OwnFile, HasCopy
      <3>5. \A q \in Proc : OwnFile(q)'
        BY <1>2, <2>1, <2>5, <3>1, <3>2 DEF MTypeOK, Flow, FlowOf, Private,
           PrivateTo, OwnFile, HasCopy, OwnDir, Live, Apart, NoneTurnedAway,
           Settled
      <3>6. \A q \in Proc : OwnData(q)'
        BY <1>2, <2>1, <2>5, <3>1, <3>2 DEF MTypeOK, Flow, FlowOf, Private,
           PrivateTo, OwnData, OwnFile, Pieces, HasCopy
      <3>7. \A q \in Proc : OwnRead(q)'
        BY <1>2, <2>1, <2>5, <3>1, <3>2 DEF MTypeOK, Private, PrivateTo,
           OwnRead, Reading
      <3> QED BY <3>3, <3>4, <3>5, <3>6, <3>7 DEF Private, PrivateTo
    <2> QED BY <2>2, <2>3, <2>4, <2>5 DEF IInv
  <1> QED BY <1>1, <1>2

(* rmdir removes a directory that only p has. *)
LEMMA RemoveDirectoryInv ==
  ASSUME NEW p \in Proc, RemoveDirectory(p), IInv
  PROVE  IInv'
  <1> MTypeOK /\ Flow /\ EntriesInDirs /\ (NoneTurnedAway => Private)
    BY DEF IInv
  <1> USE MakeSisAssumption, Ranges
  <1>1. MTypeOK'
    BY DEF MTypeOK, Flow, FlowOf, Places, Pieces,
       RemoveDirectory, Empty
  <1>2. Flow'
    BY DEF MTypeOK, Flow, FlowOf, Places, RemoveDirectory,
       Empty
  <1>3. EntriesInDirs'
    BY DEF MTypeOK, Flow, FlowOf, EntriesInDirs,
       RemoveDirectory, Empty
  <1>4. ASSUME NoneTurnedAway' PROVE Private'
    <2>1. NoneTurnedAway
      BY <1>4 DEF MTypeOK, Flow, FlowOf, NoneTurnedAway,
         Settled, RemoveDirectory, Empty
    <2>2. Private
      BY <2>1
    <2>3. \A q, r \in Proc : Apart(q, r)'
      BY <1>4, <2>1, <2>2 DEF MTypeOK, Flow, FlowOf,
         Private, PrivateTo, Apart, Live, RemoveDirectory, Empty
    <2>4. \A q \in Proc : OwnDir(q)'
      BY <1>4, <2>1, <2>2 DEF MTypeOK, Flow, FlowOf,
         Private, PrivateTo, OwnDir, Live, Apart, EntriesInDirs,
         NoneTurnedAway, Settled, OwnFile, HasCopy, RemoveDirectory, Empty
    <2>5. \A q \in Proc : OwnFile(q)'
      BY <1>4, <2>1, <2>2 DEF MTypeOK, Flow, FlowOf,
         Private, PrivateTo, OwnFile, HasCopy, RemoveDirectory, Empty
    <2>6. \A q \in Proc : OwnData(q)'
      BY <1>4, <2>1, <2>2 DEF MTypeOK, Flow, FlowOf,
         Private, PrivateTo, OwnData, OwnFile, RemoveDirectory, Empty
    <2>7. \A q \in Proc : OwnRead(q)'
      BY <1>4, <2>1, <2>2 DEF MTypeOK, Private, PrivateTo,
         OwnRead, Reading, RemoveDirectory, Empty
    <2> QED BY <2>3, <2>4, <2>5, <2>6, <2>7 DEF Private, PrivateTo
  <1> QED BY <1>1, <1>2, <1>3, <1>4 DEF IInv

(* A killed process touches nothing. *)
LEMMA KillInv ==
  ASSUME NEW p \in Proc, Kill(p), IInv
  PROVE  IInv'
  <1> MTypeOK /\ Flow /\ EntriesInDirs /\ (NoneTurnedAway => Private)
    BY DEF IInv
  <1> USE MakeSisAssumption, Ranges
  <1>1. MTypeOK'
    BY DEF MTypeOK, Flow, FlowOf, Places, Pieces, Kill
  <1>2. Flow'
    BY DEF MTypeOK, Flow, FlowOf, Places, Kill
  <1>3. EntriesInDirs'
    BY DEF MTypeOK, Flow, FlowOf, EntriesInDirs, Kill
  <1>4. ASSUME NoneTurnedAway' PROVE Private'
    <2>1. NoneTurnedAway
      BY <1>4 DEF MTypeOK, Flow, FlowOf, NoneTurnedAway,
         Settled, Kill
    <2>2. Private
      BY <2>1
    <2>3. \A q, r \in Proc : Apart(q, r)'
      BY <1>4, <2>1, <2>2 DEF MTypeOK, Flow, FlowOf,
         Private, PrivateTo, Apart, Live, Kill
    <2>4. \A q \in Proc : OwnDir(q)'
      BY <1>4, <2>1, <2>2 DEF MTypeOK, Flow, FlowOf,
         Private, PrivateTo, OwnDir, Live, Kill
    <2>5. \A q \in Proc : OwnFile(q)'
      BY <1>4, <2>1, <2>2 DEF MTypeOK, Flow, FlowOf,
         Private, PrivateTo, OwnFile, HasCopy, Kill
    <2>6. \A q \in Proc : OwnData(q)'
      BY <1>4, <2>1, <2>2 DEF MTypeOK, Flow, FlowOf,
         Private, PrivateTo, OwnData, OwnFile, Kill
    <2>7. \A q \in Proc : OwnRead(q)'
      BY <1>4, <2>1, <2>2 DEF MTypeOK, Private, PrivateTo,
         OwnRead, Reading, Kill
    <2> QED BY <2>3, <2>4, <2>5, <2>6, <2>7 DEF Private, PrivateTo
  <1> QED BY <1>1, <1>2, <1>3, <1>4 DEF IInv

(* IInv is inductive. *)
LEMMA MNextInv == IInv /\ [MNext]_mVars => IInv'
  <1> SUFFICES ASSUME IInv, [MNext]_mVars PROVE IInv'
    OBVIOUS
  <1>1. ASSUME NEW p \in Proc, MStart(p) PROVE IInv'
    BY <1>1, ParseCommandLineInv, ConvertSourceInv, OpenSourceInv DEF MStart
  <1>2. ASSUME NEW p \in Proc, MStep(p) PROVE IInv'
    BY <1>2, CreateDirectoryInv, ProbeNameInv, CreateCopyInv, CreateCopyFailsInv,
       WriteCopyInv, WriteCopyFailsInv, CloseCopyInv, ReopenCopyInv,
       ReopenCopyFailsInv, GetNextCharInv, ParseSignatureInv, ParseEndsInv,
       ParseThrowsInv, RemoveCopyInv, WriteTargetInv, ReleaseInv,
       RemoveDirectoryInv
    DEF MStep
  <1>3. ASSUME NEW p \in Proc, Kill(p) PROVE IInv'
    BY <1>3, KillInv
  <1>4. CASE UNCHANGED mVars
    BY <1>4
    DEF IInv, MTypeOK, Flow, FlowOf, EntriesInDirs, NoneTurnedAway, Settled,
        Private, PrivateTo, OwnDir, OwnFile, OwnData, OwnRead, Apart, Live,
        HasCopy, Reading, mVars
  <1> QED BY <1>1, <1>2, <1>3, <1>4 DEF MNext, MIdle

(* All variables of the driver keep their types: no offset, suffix or slot *)
(* leaves the range of the loops of TempFileName.                          *)
THEOREM MTypeCorrect == MSpec => []MTypeOK
  <1>1. IInv => MTypeOK
    BY DEF IInv
  <1> QED BY <1>1, MInitInv, MNextInv, PTL DEF MSpec

(* As long as TempFileName (utils.cpp:185) has found a free directory for  *)
(* every process, no two processes at work have the same one.              *)
THEOREM MDirectoriesUnique == MSpec => []DirectoriesUnique
  <1>1. IInv => DirectoriesUnique
    BY DEF IInv, DirectoriesUnique, Private, Apart, Live, NoneTurnedAway
  <1> QED BY <1>1, MInitInv, MNextInv, PTL DEF MSpec

(* Then ParseSource (makesis.cpp:106) parses what its own process has      *)
(* converted, whole.                                                       *)
THEOREM MReadsOwnCopy == MSpec => []ReadsOwnCopy
  <1>1. IInv => ReadsOwnCopy
    BY DEF IInv, ReadsOwnCopy, Private, PrivateTo, OwnRead
  <1> QED BY <1>1, MInitInv, MNextInv, PTL DEF MSpec

-----------------------------------------------------------------------------
(***************************************************************************)
(* No directory is stray, also when processes share one.  RemoveDirectory  *)
(* only fails for a directory that holds a file, and a file that is there  *)
(* has one who will still remove it or who will never: LeavesAt.           *)
(***************************************************************************)

(* p accounts for the directory s. *)
Holds(p, s) ==
  /\ Settled(p)
  /\ mSlot[p] = s
  /\ mpc[p] = "done" => mErr[p] = "utils"

(* p made, or truncated, the file of this name and has not unlinked it. *)
LeavesAt(p, s, x) ==
  /\ mSlot[p] = s /\ mSuffix[p] = x /\ mFile[p] # None
  /\ \/ mpc[p] \in {"write", "reopen", "read", "unlink", "killed"}
     \/ mpc[p] \in {"release", "rmdir", "done"} /\ mErr[p] = "utils"

EntriesLeft ==
  \A s \in Slots, x \in Suffixes :
    entry[s][x] # None => \E p \in Proc : LeavesAt(p, s, x)

(* What a step of p does to directories and files, and to what p accounts  *)
(* for: a directory is given up only by RemoveDirectory, a name only once  *)
(* nothing has it.                                                         *)
KeepsAccount(p) ==
  /\ \A q \in Proc \ {p} :
       /\ mpc'[q] = mpc[q] /\ mSlot'[q] = mSlot[q] /\ mSuffix'[q] = mSuffix[q]
       /\ mFile'[q] = mFile[q] /\ mErr'[q] = mErr[q]
  /\ \A s \in Slots : s \in dirs' => s \in dirs \/ Holds(p, s)'
  /\ \A s \in Slots : Holds(p, s) =>
       \/ Holds(p, s)'
       \/ s \notin dirs'
       \/ ~Empty(s) /\ entry' = entry
  /\ \A s \in Slots, x \in Suffixes : entry'[s][x] # None =>
       entry[s][x] # None \/ LeavesAt(p, s, x)'
  /\ \A s \in Slots, x \in Suffixes : LeavesAt(p, s, x) =>
       LeavesAt(p, s, x)' \/ entry'[s][x] = None

(* Every step of a process keeps its account. *)
LEMMA StepsKeepAccount ==
  ASSUME NEW p \in Proc, IInv, MStart(p) \/ MStep(p) \/ Kill(p)
  PROVE  KeepsAccount(p)
  <1> MTypeOK /\ Flow /\ EntriesInDirs
    BY DEF IInv
  <1> USE MakeSisAssumption, Ranges
  <1>1. CASE ParseCommandLine(p)
    <2>1. \A q \in Proc \ {p} :
            /\ mpc'[q] = mpc[q] /\ mSlot'[q] = mSlot[q] /\ mSuffix'[q] = mSuffix[q]
            /\ mFile'[q] = mFile[q] /\ mErr'[q] = mErr[q]
      BY <1>1 DEF MTypeOK, ParseCommandLine, ThrowUtils
    <2>2. \A s \in Slots : s \in dirs' => s \in dirs \/ Holds(p, s)'
      BY <1>1 DEF MTypeOK, Flow, FlowOf, Holds, Settled, ParseCommandLine, ThrowUtils
    <2>3. \A s \in Slots : Holds(p, s) =>
            Holds(p, s)' \/ s \notin dirs' \/ (~Empty(s) /\ entry' = entry)
      BY <1>1 DEF MTypeOK, Flow, FlowOf, Holds, Settled, ParseCommandLine, ThrowUtils
    <2>4. \A s \in Slots, x \in Suffixes : entry'[s][x] # None =>
            entry[s][x] # None \/ LeavesAt(p, s, x)'
      BY <1>1 DEF MTypeOK, Flow, FlowOf, LeavesAt, ParseCommandLine, ThrowUtils
    <2>5. \A s \in Slots, x \in Suffixes : LeavesAt(p, s, x) =>
            LeavesAt(p, s, x)' \/ entry'[s][x] = None
      BY <1>1 DEF MTypeOK, Flow, FlowOf, LeavesAt, ParseCommandLine, ThrowUtils
    <2> QED BY <2>1, <2>2, <2>3, <2>4, <2>5 DEF KeepsAccount
  <1>2. CASE ConvertSource(p)
    <2>1. \A q \in Proc \ {p} :
            /\ mpc'[q] = mpc[q] /\ mSlot'[q] = mSlot[q] /\ mSuffix'[q] = mSuffix[q]
            /\ mFile'[q] = mFile[q] /\ mErr'[q] = mErr[q]
      BY <1>2 DEF MTypeOK, ConvertSource, TempFileName
    <2>2. \A s \in Slots : s \in dirs' => s \in dirs \/ Holds(p, s)'
      BY <1>2 DEF MTypeOK, Flow, FlowOf, Holds, Settled, ConvertSource, TempFileName
    <2>3. \A s \in Slots : Holds(p, s) =>
            Holds(p, s)' \/ s \notin dirs' \/ (~Empty(s) /\ entry' = entry)
      BY <1>2 DEF MTypeOK, Flow, FlowOf, Holds, Settled, ConvertSource, TempFileName
    <2>4. \A s \in Slots, x \in Suffixes : entry'[s][x] # None =>
            entry[s][x] # None \/ LeavesAt(p, s, x)'
      BY <1>2 DEF MTypeOK, Flow, FlowOf, LeavesAt, ConvertSource, TempFileName
    <2>5. \A s \in Slots, x \in Suffixes : LeavesAt(p, s, x) =>
            LeavesAt(p, s, x)' \/ entry'[s][x] = None
      BY <1>2 DEF MTypeOK, Flow, FlowOf, LeavesAt, ConvertSource, TempFileName
    <2> QED BY <2>1, <2>2, <2>3, <2>4, <2>5 DEF KeepsAccount
  <1>3. CASE OpenSource(p)
    <2>1. \A q \in Proc \ {p} :
            /\ mpc'[q] = mpc[q] /\ mSlot'[q] = mSlot[q] /\ mSuffix'[q] = mSuffix[q]
            /\ mFile'[q] = mFile[q] /\ mErr'[q] = mErr[q]
      BY <1>3 DEF MTypeOK, OpenSource
    <2>2. \A s \in Slots : s \in dirs' => s \in dirs \/ Holds(p, s)'
      BY <1>3 DEF MTypeOK, Flow, FlowOf, Holds, Settled, OpenSource
    <2>3. \A s \in Slots : Holds(p, s) =>
            Holds(p, s)' \/ s \notin dirs' \/ (~Empty(s) /\ entry' = entry)
      BY <1>3 DEF MTypeOK, Flow, FlowOf, Holds, Settled, OpenSource
    <2>4. \A s \in Slots, x \in Suffixes : entry'[s][x] # None =>
            entry[s][x] # None \/ LeavesAt(p, s, x)'
      BY <1>3 DEF MTypeOK, Flow, FlowOf, LeavesAt, OpenSource
    <2>5. \A s \in Slots, x \in Suffixes : LeavesAt(p, s, x) =>
            LeavesAt(p, s, x)' \/ entry'[s][x] = None
      BY <1>3 DEF MTypeOK, Flow, FlowOf, LeavesAt, OpenSource
    <2> QED BY <2>1, <2>2, <2>3, <2>4, <2>5 DEF KeepsAccount
  <1>4. CASE CreateDirectory(p)
    <2>1. \A q \in Proc \ {p} :
            /\ mpc'[q] = mpc[q] /\ mSlot'[q] = mSlot[q] /\ mSuffix'[q] = mSuffix[q]
            /\ mFile'[q] = mFile[q] /\ mErr'[q] = mErr[q]
      BY <1>4 DEF MTypeOK, CreateDirectory
    <2>2. \A s \in Slots : s \in dirs' => s \in dirs \/ Holds(p, s)'
      <3> SUFFICES ASSUME NEW s \in Slots, s \in dirs', s \notin dirs
                   PROVE  Holds(p, s)'
        OBVIOUS
      <3>1. /\ s = mSlot[p] /\ mSlot' = mSlot
            /\ mpc' = [mpc EXCEPT ![p] = mRet[p]]
        BY <1>4 DEF CreateDirectory
      <3>2. mRet[p] \in {"probe", "read", "rmdir"}
        BY <1>4 DEF CreateDirectory, MTypeOK, Flow, FlowOf
      <3> QED BY <3>1, <3>2 DEF MTypeOK, Holds, Settled
    <2>3. \A s \in Slots : Holds(p, s) =>
            Holds(p, s)' \/ s \notin dirs' \/ (~Empty(s) /\ entry' = entry)
      BY <1>4 DEF MTypeOK, Flow, FlowOf, Holds, Settled, CreateDirectory
    <2>4. \A s \in Slots, x \in Suffixes : entry'[s][x] # None =>
            entry[s][x] # None \/ LeavesAt(p, s, x)'
      BY <1>4 DEF MTypeOK, Flow, FlowOf, LeavesAt, CreateDirectory
    <2>5. \A s \in Slots, x \in Suffixes : LeavesAt(p, s, x) =>
            LeavesAt(p, s, x)' \/ entry'[s][x] = None
      BY <1>4 DEF MTypeOK, Flow, FlowOf, LeavesAt, CreateDirectory
    <2> QED BY <2>1, <2>2, <2>3, <2>4, <2>5 DEF KeepsAccount
  <1>5. CASE ProbeName(p)
    <2>1. \A q \in Proc \ {p} :
            /\ mpc'[q] = mpc[q] /\ mSlot'[q] = mSlot[q] /\ mSuffix'[q] = mSuffix[q]
            /\ mFile'[q] = mFile[q] /\ mErr'[q] = mErr[q]
      BY <1>5 DEF MTypeOK, ProbeName
    <2>2. \A s \in Slots : s \in dirs' => s \in dirs \/ Holds(p, s)'
      BY <1>5 DEF MTypeOK, Flow, FlowOf, Holds, Settled, ProbeName
    <2>3. \A s \in Slots : Holds(p, s) =>
            Holds(p, s)' \/ s \notin dirs' \/ (~Empty(s) /\ entry' = entry)
      BY <1>5 DEF MTypeOK, Flow, FlowOf, Holds, Settled, ProbeName
    <2>4. \A s \in Slots, x \in Suffixes : entry'[s][x] # None =>
            entry[s][x] # None \/ LeavesAt(p, s, x)'
      BY <1>5 DEF MTypeOK, Flow, FlowOf, LeavesAt, ProbeName
    <2>5. \A s \in Slots, x \in Suffixes : LeavesAt(p, s, x) =>
            LeavesAt(p, s, x)' \/ entry'[s][x] = None
      BY <1>5 DEF MTypeOK, Flow, FlowOf, LeavesAt, ProbeName
    <2> QED BY <2>1, <2>2, <2>3, <2>4, <2>5 DEF KeepsAccount
  <1>6. CASE CreateCopy(p)
    <2>1. \A q \in Proc \ {p} :
            /\ mpc'[q] = mpc[q] /\ mSlot'[q] = mSlot[q] /\ mSuffix'[q] = mSuffix[q]
            /\ mFile'[q] = mFile[q] /\ mErr'[q] = mErr[q]
      BY <1>6 DEF MTypeOK, CreateCopy
    <2>2. \A s \in Slots : s \in dirs' => s \in dirs \/ Holds(p, s)'
      BY <1>6 DEF MTypeOK, Flow, FlowOf, Holds, Settled, CreateCopy
    <2>3. \A s \in Slots : Holds(p, s) =>
            Holds(p, s)' \/ s \notin dirs' \/ (~Empty(s) /\ entry' = entry)
      BY <1>6 DEF MTypeOK, Flow, FlowOf, Holds, Settled, CreateCopy
    <2>4. \A s \in Slots, x \in Suffixes : entry'[s][x] # None =>
            entry[s][x] # None \/ LeavesAt(p, s, x)'
      BY <1>6 DEF MTypeOK, Flow, FlowOf, LeavesAt, CreateCopy
    <2>5. \A s \in Slots, x \in Suffixes : LeavesAt(p, s, x) =>
            LeavesAt(p, s, x)' \/ entry'[s][x] = None
      BY <1>6 DEF MTypeOK, Flow, FlowOf, LeavesAt, CreateCopy
    <2> QED BY <2>1, <2>2, <2>3, <2>4, <2>5 DEF KeepsAccount
  <1>7. CASE CreateCopyFails(p)
    <2>1. \A q \in Proc \ {p} :
            /\ mpc'[q] = mpc[q] /\ mSlot'[q] = mSlot[q] /\ mSuffix'[q] = mSuffix[q]
            /\ mFile'[q] = mFile[q] /\ mErr'[q] = mErr[q]
      BY <1>7 DEF MTypeOK, CreateCopyFails, ThrowUtils
    <2>2. \A s \in Slots : s \in dirs' => s \in dirs \/ Holds(p, s)'
      BY <1>7 DEF MTypeOK, Flow, FlowOf, Holds, Settled, CreateCopyFails, ThrowUtils
    <2>3. \A s \in Slots : Holds(p, s) =>
            Holds(p, s)' \/ s \notin dirs' \/ (~Empty(s) /\ entry' = entry)
      BY <1>7 DEF MTypeOK, Flow, FlowOf, Holds, Settled, CreateCopyFails, ThrowUtils
    <2>4. \A s \in Slots, x \in Suffixes : entry'[s][x] # None =>
            entry[s][x] # None \/ LeavesAt(p, s, x)'
      BY <1>7 DEF MTypeOK, Flow, FlowOf, LeavesAt, CreateCopyFails, ThrowUtils
    <2>5. \A s \in Slots, x \in Suffixes : LeavesAt(p, s, x) =>
            LeavesAt(p, s, x)' \/ entry'[s][x] = None
      BY <1>7 DEF MTypeOK, Flow, FlowOf, LeavesAt, CreateCopyFails, ThrowUtils
    <2> QED BY <2>1, <2>2, <2>3, <2>4, <2>5 DEF KeepsAccount
  <1>8. CASE WriteCopy(p)
    <2>1. \A q \in Proc \ {p} :
            /\ mpc'[q] = mpc[q] /\ mSlot'[q] = mSlot[q] /\ mSuffix'[q] = mSuffix[q]
            /\ mFile'[q] = mFile[q] /\ mErr'[q] = mErr[q]
      BY <1>8 DEF MTypeOK, WriteCopy
    <2>2. \A s \in Slots : s \in dirs' => s \in dirs \/ Holds(p, s)'
      BY <1>8 DEF MTypeOK, Flow, FlowOf, Holds, Settled, WriteCopy
    <2>3. \A s \in Slots : Holds(p, s) =>
            Holds(p, s)' \/ s \notin dirs' \/ (~Empty(s) /\ entry' = entry)
      BY <1>8 DEF MTypeOK, Flow, FlowOf, Holds, Settled, WriteCopy
    <2>4. \A s \in Slots, x \in Suffixes : entry'[s][x] # None =>
            entry[s][x] # None \/ LeavesAt(p, s, x)'
      BY <1>8 DEF MTypeOK, Flow, FlowOf, LeavesAt, WriteCopy
    <2>5. \A s \in Slots, x \in Suffixes : LeavesAt(p, s, x) =>
            LeavesAt(p, s, x)' \/ entry'[s][x] = None
      BY <1>8 DEF MTypeOK, Flow, FlowOf, LeavesAt, WriteCopy
    <2> QED BY <2>1, <2>2, <2>3, <2>4, <2>5 DEF KeepsAccount
  <1>9. CASE WriteCopyFails(p)
    <2>1. \A q \in Proc \ {p} :
            /\ mpc'[q] = mpc[q] /\ mSlot'[q] = mSlot[q] /\ mSuffix'[q] = mSuffix[q]
            /\ mFile'[q] = mFile[q] /\ mErr'[q] = mErr[q]
      BY <1>9 DEF MTypeOK, WriteCopyFails, ThrowUtils
    <2>2. \A s \in Slots : s \in dirs' => s \in dirs \/ Holds(p, s)'
      BY <1>9 DEF MTypeOK, Flow, FlowOf, Holds, Settled, WriteCopyFails, ThrowUtils
    <2>3. \A s \in Slots : Holds(p, s) =>
            Holds(p, s)' \/ s \notin dirs' \/ (~Empty(s) /\ entry' = entry)
      BY <1>9 DEF MTypeOK, Flow, FlowOf, Holds, Settled, WriteCopyFails, ThrowUtils
    <2>4. \A s \in Slots, x \in Suffixes : entry'[s][x] # None =>
            entry[s][x] # None \/ LeavesAt(p, s, x)'
      BY <1>9 DEF MTypeOK, Flow, FlowOf, LeavesAt, WriteCopyFails, ThrowUtils
    <2>5. \A s \in Slots, x \in Suffixes : LeavesAt(p, s, x) =>
            LeavesAt(p, s, x)' \/ entry'[s][x] = None
      BY <1>9 DEF MTypeOK, Flow, FlowOf, LeavesAt, WriteCopyFails, ThrowUtils
    <2> QED BY <2>1, <2>2, <2>3, <2>4, <2>5 DEF KeepsAccount
  <1>10. CASE CloseCopy(p)
    <2>1. \A q \in Proc \ {p} :
            /\ mpc'[q] = mpc[q] /\ mSlot'[q] = mSlot[q] /\ mSuffix'[q] = mSuffix[q]
            /\ mFile'[q] = mFile[q] /\ mErr'[q] = mErr[q]
      BY <1>10 DEF MTypeOK, CloseCopy
    <2>2. \A s \in Slots : s \in dirs' => s \in dirs \/ Holds(p, s)'
      BY <1>10 DEF MTypeOK, Flow, FlowOf, Holds, Settled, CloseCopy
    <2>3. \A s \in Slots : Holds(p, s) =>
            Holds(p, s)' \/ s \notin dirs' \/ (~Empty(s) /\ entry' = entry)
      BY <1>10 DEF MTypeOK, Flow, FlowOf, Holds, Settled, CloseCopy
    <2>4. \A s \in Slots, x \in Suffixes : entry'[s][x] # None =>
            entry[s][x] # None \/ LeavesAt(p, s, x)'
      BY <1>10 DEF MTypeOK, Flow, FlowOf, LeavesAt, CloseCopy
    <2>5. \A s \in Slots, x \in Suffixes : LeavesAt(p, s, x) =>
            LeavesAt(p, s, x)' \/ entry'[s][x] = None
      BY <1>10 DEF MTypeOK, Flow, FlowOf, LeavesAt, CloseCopy
    <2> QED BY <2>1, <2>2, <2>3, <2>4, <2>5 DEF KeepsAccount
  <1>11. CASE ReopenCopy(p)
    <2>1. \A q \in Proc \ {p} :
            /\ mpc'[q] = mpc[q] /\ mSlot'[q] = mSlot[q] /\ mSuffix'[q] = mSuffix[q]
            /\ mFile'[q] = mFile[q] /\ mErr'[q] = mErr[q]
      BY <1>11 DEF MTypeOK, ReopenCopy
    <2>2. \A s \in Slots : s \in dirs' => s \in dirs \/ Holds(p, s)'
      BY <1>11 DEF MTypeOK, Flow, FlowOf, Holds, Settled, ReopenCopy
    <2>3. \A s \in Slots : Holds(p, s) =>
            Holds(p, s)' \/ s \notin dirs' \/ (~Empty(s) /\ entry' = entry)
      BY <1>11 DEF MTypeOK, Flow, FlowOf, Holds, Settled, ReopenCopy
    <2>4. \A s \in Slots, x \in Suffixes : entry'[s][x] # None =>
            entry[s][x] # None \/ LeavesAt(p, s, x)'
      BY <1>11 DEF MTypeOK, Flow, FlowOf, LeavesAt, ReopenCopy
    <2>5. \A s \in Slots, x \in Suffixes : LeavesAt(p, s, x) =>
            LeavesAt(p, s, x)' \/ entry'[s][x] = None
      BY <1>11 DEF MTypeOK, Flow, FlowOf, LeavesAt, ReopenCopy
    <2> QED BY <2>1, <2>2, <2>3, <2>4, <2>5 DEF KeepsAccount
  <1>12. CASE ReopenCopyFails(p)
    <2>1. \A q \in Proc \ {p} :
            /\ mpc'[q] = mpc[q] /\ mSlot'[q] = mSlot[q] /\ mSuffix'[q] = mSuffix[q]
            /\ mFile'[q] = mFile[q] /\ mErr'[q] = mErr[q]
      BY <1>12 DEF MTypeOK, ReopenCopyFails, ThrowUtils
    <2>2. \A s \in Slots : s \in dirs' => s \in dirs \/ Holds(p, s)'
      BY <1>12 DEF MTypeOK, Flow, FlowOf, Holds, Settled, ReopenCopyFails, ThrowUtils
    <2>3. \A s \in Slots : Holds(p, s) =>
            Holds(p, s)' \/ s \notin dirs' \/ (~Empty(s) /\ entry' = entry)
      BY <1>12 DEF MTypeOK, Flow, FlowOf, Holds, Settled, ReopenCopyFails, ThrowUtils
    <2>4. \A s \in Slots, x \in Suffixes : entry'[s][x] # None =>
            entry[s][x] # None \/ LeavesAt(p, s, x)'
      BY <1>12 DEF MTypeOK, Flow, FlowOf, LeavesAt, ReopenCopyFails, ThrowUtils
    <2>5. \A s \in Slots, x \in Suffixes : LeavesAt(p, s, x) =>
            LeavesAt(p, s, x)' \/ entry'[s][x] = None
      BY <1>12 DEF MTypeOK, Flow, FlowOf, LeavesAt, ReopenCopyFails, ThrowUtils
    <2> QED BY <2>1, <2>2, <2>3, <2>4, <2>5 DEF KeepsAccount
  <1>13. CASE GetNextChar(p)
    <2>1. \A q \in Proc \ {p} :
            /\ mpc'[q] = mpc[q] /\ mSlot'[q] = mSlot[q] /\ mSuffix'[q] = mSuffix[q]
            /\ mFile'[q] = mFile[q] /\ mErr'[q] = mErr[q]
      BY <1>13 DEF MTypeOK, GetNextChar
    <2>2. \A s \in Slots : s \in dirs' => s \in dirs \/ Holds(p, s)'
      BY <1>13 DEF MTypeOK, Flow, FlowOf, Holds, Settled, GetNextChar
    <2>3. \A s \in Slots : Holds(p, s) =>
            Holds(p, s)' \/ s \notin dirs' \/ (~Empty(s) /\ entry' = entry)
      BY <1>13 DEF MTypeOK, Flow, FlowOf, Holds, Settled, GetNextChar
    <2>4. \A s \in Slots, x \in Suffixes : entry'[s][x] # None =>
            entry[s][x] # None \/ LeavesAt(p, s, x)'
      BY <1>13 DEF MTypeOK, Flow, FlowOf, LeavesAt, GetNextChar
    <2>5. \A s \in Slots, x \in Suffixes : LeavesAt(p, s, x) =>
            LeavesAt(p, s, x)' \/ entry'[s][x] = None
      BY <1>13 DEF MTypeOK, Flow, FlowOf, LeavesAt, GetNextChar
    <2> QED BY <2>1, <2>2, <2>3, <2>4, <2>5 DEF KeepsAccount
  <1>14. CASE ParseSignature(p)
    <2>1. \A q \in Proc \ {p} :
            /\ mpc'[q] = mpc[q] /\ mSlot'[q] = mSlot[q] /\ mSuffix'[q] = mSuffix[q]
            /\ mFile'[q] = mFile[q] /\ mErr'[q] = mErr[q]
      BY <1>14 DEF MTypeOK, ParseSignature, TempFileName
    <2>2. \A s \in Slots : s \in dirs' => s \in dirs \/ Holds(p, s)'
      BY <1>14 DEF MTypeOK, Flow, FlowOf, Holds, Settled, ParseSignature, TempFileName
    <2>3. \A s \in Slots : Holds(p, s) =>
            Holds(p, s)' \/ s \notin dirs' \/ (~Empty(s) /\ entry' = entry)
      BY <1>14 DEF MTypeOK, Flow, FlowOf, Holds, Settled, ParseSignature, TempFileName
    <2>4. \A s \in Slots, x \in Suffixes : entry'[s][x] # None =>
            entry[s][x] # None \/ LeavesAt(p, s, x)'
      BY <1>14 DEF MTypeOK, Flow, FlowOf, LeavesAt, ParseSignature, TempFileName
    <2>5. \A s \in Slots, x \in Suffixes : LeavesAt(p, s, x) =>
            LeavesAt(p, s, x)' \/ entry'[s][x] = None
      BY <1>14 DEF MTypeOK, Flow, FlowOf, LeavesAt, ParseSignature, TempFileName
    <2> QED BY <2>1, <2>2, <2>3, <2>4, <2>5 DEF KeepsAccount
  <1>15. CASE ParseEnds(p)
    <2>1. \A q \in Proc \ {p} :
            /\ mpc'[q] = mpc[q] /\ mSlot'[q] = mSlot[q] /\ mSuffix'[q] = mSuffix[q]
            /\ mFile'[q] = mFile[q] /\ mErr'[q] = mErr[q]
      BY <1>15 DEF MTypeOK, ParseEnds, AfterParsing, Converted
    <2>2. \A s \in Slots : s \in dirs' => s \in dirs \/ Holds(p, s)'
      BY <1>15 DEF MTypeOK, Flow, FlowOf, Holds, Settled, ParseEnds, AfterParsing, Converted
    <2>3. \A s \in Slots : Holds(p, s) =>
            Holds(p, s)' \/ s \notin dirs' \/ (~Empty(s) /\ entry' = entry)
      BY <1>15 DEF MTypeOK, Flow, FlowOf, Holds, Settled, ParseEnds, AfterParsing, Converted
    <2>4. \A s \in Slots, x \in Suffixes : entry'[s][x] # None =>
            entry[s][x] # None \/ LeavesAt(p, s, x)'
      BY <1>15 DEF MTypeOK, Flow, FlowOf, LeavesAt, ParseEnds, AfterParsing, Converted
    <2>5. \A s \in Slots, x \in Suffixes : LeavesAt(p, s, x) =>
            LeavesAt(p, s, x)' \/ entry'[s][x] = None
      BY <1>15 DEF MTypeOK, Flow, FlowOf, LeavesAt, ParseEnds, AfterParsing, Converted
    <2> QED BY <2>1, <2>2, <2>3, <2>4, <2>5 DEF KeepsAccount
  <1>16. CASE ParseThrows(p)
    <2>1. \A q \in Proc \ {p} :
            /\ mpc'[q] = mpc[q] /\ mSlot'[q] = mSlot[q] /\ mSuffix'[q] = mSuffix[q]
            /\ mFile'[q] = mFile[q] /\ mErr'[q] = mErr[q]
      BY <1>16 DEF MTypeOK, ParseThrows, AfterParsing, Converted
    <2>2. \A s \in Slots : s \in dirs' => s \in dirs \/ Holds(p, s)'
      BY <1>16 DEF MTypeOK, Flow, FlowOf, Holds, Settled, ParseThrows, AfterParsing, Converted
    <2>3. \A s \in Slots : Holds(p, s) =>
            Holds(p, s)' \/ s \notin dirs' \/ (~Empty(s) /\ entry' = entry)
      BY <1>16 DEF MTypeOK, Flow, FlowOf, Holds, Settled, ParseThrows, AfterParsing, Converted
    <2>4. \A s \in Slots, x \in Suffixes : entry'[s][x] # None =>
            entry[s][x] # None \/ LeavesAt(p, s, x)'
      BY <1>16 DEF MTypeOK, Flow, FlowOf, LeavesAt, ParseThrows, AfterParsing, Converted
    <2>5. \A s \in Slots, x \in Suffixes : LeavesAt(p, s, x) =>
            LeavesAt(p, s, x)' \/ entry'[s][x] = None
      BY <1>16 DEF MTypeOK, Flow, FlowOf, LeavesAt, ParseThrows, AfterParsing, Converted
    <2> QED BY <2>1, <2>2, <2>3, <2>4, <2>5 DEF KeepsAccount
  <1>17. CASE RemoveCopy(p)
    <2>1. \A q \in Proc \ {p} :
            /\ mpc'[q] = mpc[q] /\ mSlot'[q] = mSlot[q] /\ mSuffix'[q] = mSuffix[q]
            /\ mFile'[q] = mFile[q] /\ mErr'[q] = mErr[q]
      BY <1>17 DEF MTypeOK, RemoveCopy
    <2>2. \A s \in Slots : s \in dirs' => s \in dirs \/ Holds(p, s)'
      BY <1>17 DEF MTypeOK, Flow, FlowOf, Holds, Settled, RemoveCopy
    <2>3. \A s \in Slots : Holds(p, s) =>
            Holds(p, s)' \/ s \notin dirs' \/ (~Empty(s) /\ entry' = entry)
      BY <1>17 DEF MTypeOK, Flow, FlowOf, Holds, Settled, RemoveCopy
    <2>4. \A s \in Slots, x \in Suffixes : entry'[s][x] # None =>
            entry[s][x] # None \/ LeavesAt(p, s, x)'
      BY <1>17 DEF MTypeOK, Flow, FlowOf, LeavesAt, RemoveCopy
    <2>5. \A s \in Slots, x \in Suffixes : LeavesAt(p, s, x) =>
            LeavesAt(p, s, x)' \/ entry'[s][x] = None
      BY <1>17 DEF MTypeOK, Flow, FlowOf, LeavesAt, RemoveCopy
    <2> QED BY <2>1, <2>2, <2>3, <2>4, <2>5 DEF KeepsAccount
  <1>18. CASE WriteTarget(p)
    <2>1. \A q \in Proc \ {p} :
            /\ mpc'[q] = mpc[q] /\ mSlot'[q] = mSlot[q] /\ mSuffix'[q] = mSuffix[q]
            /\ mFile'[q] = mFile[q] /\ mErr'[q] = mErr[q]
      BY <1>18 DEF MTypeOK, WriteTarget
    <2>2. \A s \in Slots : s \in dirs' => s \in dirs \/ Holds(p, s)'
      BY <1>18 DEF MTypeOK, Flow, FlowOf, Holds, Settled, WriteTarget
    <2>3. \A s \in Slots : Holds(p, s) =>
            Holds(p, s)' \/ s \notin dirs' \/ (~Empty(s) /\ entry' = entry)
      BY <1>18 DEF MTypeOK, Flow, FlowOf, Holds, Settled, WriteTarget
    <2>4. \A s \in Slots, x \in Suffixes : entry'[s][x] # None =>
            entry[s][x] # None \/ LeavesAt(p, s, x)'
      BY <1>18 DEF MTypeOK, Flow, FlowOf, LeavesAt, WriteTarget
    <2>5. \A s \in Slots, x \in Suffixes : LeavesAt(p, s, x) =>
            LeavesAt(p, s, x)' \/ entry'[s][x] = None
      BY <1>18 DEF MTypeOK, Flow, FlowOf, LeavesAt, WriteTarget
    <2> QED BY <2>1, <2>2, <2>3, <2>4, <2>5 DEF KeepsAccount
  <1>19. CASE Release(p)
    <2>1. \A q \in Proc \ {p} :
            /\ mpc'[q] = mpc[q] /\ mSlot'[q] = mSlot[q] /\ mSuffix'[q] = mSuffix[q]
            /\ mFile'[q] = mFile[q] /\ mErr'[q] = mErr[q]
      BY <1>19 DEF MTypeOK, Release, TempFileName
    <2>2. \A s \in Slots : s \in dirs' => s \in dirs \/ Holds(p, s)'
      BY <1>19 DEF MTypeOK, Flow, FlowOf, Holds, Settled, Release, TempFileName
    <2>3. \A s \in Slots : Holds(p, s) =>
            Holds(p, s)' \/ s \notin dirs' \/ (~Empty(s) /\ entry' = entry)
      BY <1>19 DEF MTypeOK, Flow, FlowOf, Holds, Settled, Release, TempFileName
    <2>4. \A s \in Slots, x \in Suffixes : entry'[s][x] # None =>
            entry[s][x] # None \/ LeavesAt(p, s, x)'
      BY <1>19 DEF MTypeOK, Flow, FlowOf, LeavesAt, Release, TempFileName
    <2>5. \A s \in Slots, x \in Suffixes : LeavesAt(p, s, x) =>
            LeavesAt(p, s, x)' \/ entry'[s][x] = None
      BY <1>19 DEF MTypeOK, Flow, FlowOf, LeavesAt, Release, TempFileName
    <2> QED BY <2>1, <2>2, <2>3, <2>4, <2>5 DEF KeepsAccount
  <1>20. CASE RemoveDirectory(p)
    <2>1. \A q \in Proc \ {p} :
            /\ mpc'[q] = mpc[q] /\ mSlot'[q] = mSlot[q] /\ mSuffix'[q] = mSuffix[q]
            /\ mFile'[q] = mFile[q] /\ mErr'[q] = mErr[q]
      BY <1>20 DEF MTypeOK, RemoveDirectory, Empty
    <2>2. \A s \in Slots : s \in dirs' => s \in dirs \/ Holds(p, s)'
      BY <1>20 DEF MTypeOK, Flow, FlowOf, Holds, Settled, RemoveDirectory, Empty
    <2>3. \A s \in Slots : Holds(p, s) =>
            Holds(p, s)' \/ s \notin dirs' \/ (~Empty(s) /\ entry' = entry)
      BY <1>20 DEF MTypeOK, Flow, FlowOf, Holds, Settled, RemoveDirectory, Empty
    <2>4. \A s \in Slots, x \in Suffixes : entry'[s][x] # None =>
            entry[s][x] # None \/ LeavesAt(p, s, x)'
      BY <1>20 DEF MTypeOK, Flow, FlowOf, LeavesAt, RemoveDirectory, Empty
    <2>5. \A s \in Slots, x \in Suffixes : LeavesAt(p, s, x) =>
            LeavesAt(p, s, x)' \/ entry'[s][x] = None
      BY <1>20 DEF MTypeOK, Flow, FlowOf, LeavesAt, RemoveDirectory, Empty
    <2> QED BY <2>1, <2>2, <2>3, <2>4, <2>5 DEF KeepsAccount
  <1>21. CASE Kill(p)
    <2>1. \A q \in Proc \ {p} :
            /\ mpc'[q] = mpc[q] /\ mSlot'[q] = mSlot[q] /\ mSuffix'[q] = mSuffix[q]
            /\ mFile'[q] = mFile[q] /\ mErr'[q] = mErr[q]
      BY <1>21 DEF MTypeOK, Kill
    <2>2. \A s \in Slots : s \in dirs' => s \in dirs \/ Holds(p, s)'
      BY <1>21 DEF MTypeOK, Flow, FlowOf, Holds, Settled, Kill
    <2>3. \A s \in Slots : Holds(p, s) =>
            Holds(p, s)' \/ s \notin dirs' \/ (~Empty(s) /\ entry' = entry)
      BY <1>21 DEF MTypeOK, Flow, FlowOf, Holds, Settled, Kill
    <2>4. \A s \in Slots, x \in Suffixes : entry'[s][x] # None =>
            entry[s][x] # None \/ LeavesAt(p, s, x)'
      BY <1>21 DEF MTypeOK, Flow, FlowOf, LeavesAt, Kill
    <2>5. \A s \in Slots, x \in Suffixes : LeavesAt(p, s, x) =>
            LeavesAt(p, s, x)' \/ entry'[s][x] = None
      BY <1>21 DEF MTypeOK, Flow, FlowOf, LeavesAt, Kill
    <2> QED BY <2>1, <2>2, <2>3, <2>4, <2>5 DEF KeepsAccount
  <1> QED BY <1>1, <1>2, <1>3, <1>4, <1>5, <1>6, <1>7, <1>8, <1>9, <1>10, <1>11, <1>12, <1>13, <1>14, <1>15, <1>16, <1>17, <1>18, <1>19, <1>20, <1>21 DEF MStart, MStep

(* So directories and files stay accounted for. *)
LEMMA AccountsKept ==
  ASSUME NEW p \in Proc, MTypeOK', NoStrayDirectory, EntriesLeft, KeepsAccount(p)
  PROVE  NoStrayDirectory' /\ EntriesLeft'
  <1>1. EntriesLeft'
    <2> SUFFICES ASSUME NEW s \in Slots, NEW x \in Suffixes, entry'[s][x] # None
                 PROVE  \E q \in Proc : LeavesAt(q, s, x)'
      BY DEF EntriesLeft
    <2>1. CASE entry[s][x] # None
      <3>1. PICK q \in Proc : LeavesAt(q, s, x)
        BY <2>1 DEF EntriesLeft
      <3>2. LeavesAt(q, s, x)'
        BY <3>1 DEF KeepsAccount, LeavesAt
      <3> QED BY <3>2
    <2>2. CASE LeavesAt(p, s, x)'
      BY <2>2
    <2> QED BY <2>1, <2>2 DEF KeepsAccount
  <1>2. NoStrayDirectory'
    <2> SUFFICES ASSUME NEW s \in dirs' PROVE \E q \in Proc : Holds(q, s)'
      BY DEF NoStrayDirectory, Holds
    <2>0. s \in Slots
      BY DEF MTypeOK
    <2>1. CASE Holds(p, s)'
      BY <2>1
    <2>2. CASE s \in dirs
      <3>1. PICK q \in Proc : Holds(q, s)
        BY <2>2 DEF NoStrayDirectory, Holds
      <3>2. CASE Holds(q, s)'
        BY <3>2
      <3>3. CASE ~Empty(s) /\ entry' = entry
        <4>1. PICK x \in Suffixes : entry'[s][x] # None
          BY <3>3 DEF Empty
        <4>2. PICK r \in Proc : LeavesAt(r, s, x)'
          BY <1>1, <2>0, <4>1 DEF EntriesLeft
        <4>3. Holds(r, s)'
          BY <2>0, <4>2, Ranges DEF LeavesAt, Holds, Settled
        <4> QED BY <4>3
      <3> QED BY <2>0, <3>1, <3>2, <3>3 DEF KeepsAccount, Holds, Settled
    <2> QED BY <2>0, <2>1, <2>2 DEF KeepsAccount
  <1> QED BY <1>1, <1>2

(* And a step that changes nothing keeps them. *)
LEMMA StutterKeepsAccounts ==
  ASSUME UNCHANGED mVars, NoStrayDirectory, EntriesLeft
  PROVE  NoStrayDirectory' /\ EntriesLeft'
  <1>1. NoStrayDirectory'
    BY DEF mVars, NoStrayDirectory, Settled
  <1>2. EntriesLeft'
    <2> SUFFICES ASSUME NEW s \in Slots, NEW x \in Suffixes, entry'[s][x] # None
                 PROVE  \E p \in Proc : LeavesAt(p, s, x)'
      BY DEF EntriesLeft
    <2>1. PICK p \in Proc : LeavesAt(p, s, x)
      BY DEF mVars, EntriesLeft
    <2>2. LeavesAt(p, s, x)'
      BY <2>1 DEF mVars, LeavesAt
    <2> QED BY <2>2
  <1> QED BY <1>1, <1>2

(* A directory in /tmp is in use, or was left by a run that was killed,    *)
(* terminated or threw a TUtilsException (makesis.cpp Run, CleanupTemp):   *)
(* whatever number of processes share it.                                  *)
THEOREM MNoStrayDirectory == MSpec => []NoStrayDirectory
  <1> DEFINE Inv == IInv /\ NoStrayDirectory /\ EntriesLeft
  <1>1. MInit => Inv
    BY MInitInv DEF MInit, NoStrayDirectory, EntriesLeft
  <1>2. Inv /\ [MNext]_mVars => Inv'
    <2> SUFFICES ASSUME IInv, NoStrayDirectory, EntriesLeft, [MNext]_mVars
                 PROVE  Inv'
      OBVIOUS
    <2>1. IInv'
      BY MNextInv
    <2>2. ASSUME NEW p \in Proc, MStart(p) \/ MStep(p) \/ Kill(p)
          PROVE  NoStrayDirectory' /\ EntriesLeft'
      BY <2>1, <2>2, StepsKeepAccount, AccountsKept DEF IInv
    <2>3. CASE UNCHANGED mVars
      BY <2>1, <2>3, StutterKeepsAccounts
    <2> QED BY <2>1, <2>2, <2>3 DEF MNext, MIdle
  <1>3. Inv => NoStrayDirectory
    OBVIOUS
  <1> QED BY <1>1, <1>2, <1>3, PTL DEF MSpec

=============================================================================
