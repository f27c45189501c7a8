------------------------------ MODULE MakeSis ------------------------------
(***************************************************************************)
(* The driver of makesis (makesis.cpp, parsecmd.cpp) with the temporary    *)
(* files of utils.cpp, for several makesis processes at once, as a         *)
(* parallel make runs them.  They share nothing but /tmp: each process     *)
(* takes the first directory MKS0, MKS1, ... that mkdir can create,        *)
(* converts its PKG file into a UTF-16 copy there, parses the copy,        *)
(* removes it, writes the target and removes the directory.                *)
(*                                                                         *)
(* What parser and generator do is in PkgParser and SISFileGen; here they  *)
(* only end in one of the ways in which they can end.  All PKG files have  *)
(* the same last path component, the case in which copies can collide.     *)
(***************************************************************************)
EXTENDS Naturals, FiniteSets

CONSTANTS
  Proc,       \* the runs of makesis
  None,       \* no process: an unused name, a piece that was not written
  LastSlot,   \* the number of the last directory that is tried (9999)
  MaxSuffix,  \* the last name that is tried in a directory (10000)
  Chunks      \* a PKG file is read and written in so many pieces

ASSUME MakeSisAssumption ==
  /\ None \notin Proc
  /\ LastSlot \in Nat
  /\ MaxSuffix \in Nat \ {0}
  /\ Chunks \in Nat \ {0}

Slots == 0 .. LastSlot
Suffixes == 0 .. MaxSuffix
Pieces == 1 .. Chunks

NoSlot == LastSlot + 1

VARIABLES
  dirs,      \* the directories MKSn that exist
  entry,     \* the directory entries: which file has a name
  data,      \* the pieces of each file; a file is named after its creator
  mpc,       \* where each process is
  mSlot,     \* its tmpPath (TempFileName)
  mOwn,      \* whether its CreateDirectory succeeded
  mRet,      \* where it called TempFileName from
  mSuffix,   \* which name its tmpFileName has
  mFile,     \* the file behind its open handle
  mOff,      \* the offset of that handle
  mRead,     \* the pieces that its parser has read
  mErr       \* how its parser ended, or what it threw

tmpVars == <<dirs, entry, data>>
ownVars == <<mSlot, mOwn, mRet, mSuffix>>
fileVars == <<mFile, mOff, mRead>>
mVars == <<dirs, entry, data, mpc, mSlot, mOwn, mRet, mSuffix, mFile, mOff,
           mRead, mErr>>

(* Ended: the process has returned from main, was terminated because       *)
(* nothing catches its exception, or was killed.                           *)
Ended == {"done", "aborted", "killed"}

Places == {"idle", "mkdir", "probe", "creat", "write", "reopen", "read",
           "unlink", "target", "release", "rmdir"} \cup Ended

NoPieces == [i \in Pieces |-> None]

MInit ==
  /\ dirs = {}
  /\ entry = [s \in Slots |-> [x \in Suffixes |-> None]]
  /\ data = [f \in Proc |-> NoPieces]
  /\ mpc = [p \in Proc |-> "idle"]
  /\ mSlot = [p \in Proc |-> NoSlot]
  /\ mOwn = [p \in Proc |-> FALSE]
  /\ mRet = [p \in Proc |-> "idle"]
  /\ mSuffix = [p \in Proc |-> 0]
  /\ mFile = [p \in Proc |-> None]
  /\ mOff = [p \in Proc |-> 0]
  /\ mRead = [p \in Proc |-> NoPieces]
  /\ mErr = [p \in Proc |-> "none"]

Goto(p, place) == mpc' = [mpc EXCEPT ![p] = place]

(* An exception that leaves ParseSource: Run catches TUtilsException and   *)
(* goes on to Release; the copy, if there is one, stays.                   *)
ThrowUtils(p) ==
  /\ Goto(p, "release")
  /\ mErr' = [mErr EXCEPT ![p] = "utils"]

(***************************************************************************)
(* Run and ParseSource up to the conversion.  A bad command line is        *)
(* caught in Run and goes to Release; -h returns without it; a PKG file    *)
(* that cannot be opened makes FileIsUnicode throw.                        *)
(***************************************************************************)
ParseCommandLine(p) ==
  /\ mpc[p] = "idle"
  /\ \/ Goto(p, "release") /\ mErr' = [mErr EXCEPT ![p] = "usage"]
     \/ Goto(p, "done") /\ UNCHANGED mErr
     \/ ThrowUtils(p)
  /\ UNCHANGED <<tmpVars, ownVars, fileVars>>

(* TempFileName makes the directory when it is first called. *)
TempFileName(p, ret) ==
  IF mSlot[p] = NoSlot
  THEN /\ Goto(p, "mkdir")
       /\ mSlot' = [mSlot EXCEPT ![p] = 0]
       /\ mRet' = [mRet EXCEPT ![p] = ret]
  ELSE /\ Goto(p, ret)
       /\ UNCHANGED <<mSlot, mRet>>

(* A PKG file in UTF-8 or big-endian UTF-16 is converted. *)
ConvertSource(p) ==
  /\ mpc[p] = "idle"
  /\ TempFileName(p, "probe")
  /\ UNCHANGED <<tmpVars, fileVars, mErr, mOwn, mSuffix>>

(* A PKG file in little-endian UTF-16 is parsed where it is. *)
OpenSource(p) ==
  /\ mpc[p] = "idle"
  /\ Goto(p, "read")
  /\ UNCHANGED <<tmpVars, ownVars, fileVars, mErr>>

Converted(p) == mFile[p] # None

(* A mutated form: EEXIST passes for success. *)
CreateDirectoryIfNeeded(p) ==
  /\ mpc[p] = "mkdir"
  /\ dirs' = dirs \cup {mSlot[p]}
  /\ mOwn' = [mOwn EXCEPT ![p] = TRUE]
  /\ Goto(p, mRet[p])
  /\ UNCHANGED <<entry, data, mSlot, mRet, mSuffix, fileVars, mErr>>

(* A mutated form: the loop starts again. *)
CreateDirectoryAgain(p) ==
  /\ mpc[p] = "mkdir"
  /\ IF mSlot[p] \notin dirs
     THEN /\ dirs' = dirs \cup {mSlot[p]}
          /\ mOwn' = [mOwn EXCEPT ![p] = TRUE]
          /\ Goto(p, mRet[p])
          /\ UNCHANGED mSlot
     ELSE /\ mSlot' = [mSlot EXCEPT ![p] = (@ + 1) % (LastSlot + 1)]
          /\ UNCHANGED <<dirs, mOwn, mpc>>
  /\ UNCHANGED <<entry, data, mRet, mSuffix, fileVars, mErr>>

(***************************************************************************)
(* TempFileName: one mkdir a step.  When the last one fails too, the loop  *)
(* ends and its name is used all the same.                                 *)
(***************************************************************************)
CreateDirectory(p) ==
  /\ mpc[p] = "mkdir"
  /\ \/ /\ mSlot[p] \notin dirs
        /\ dirs' = dirs \cup {mSlot[p]}
        /\ mOwn' = [mOwn EXCEPT ![p] = TRUE]
        /\ Goto(p, mRet[p])
        /\ UNCHANGED mSlot
     \/ /\ mSlot[p] \in dirs
        /\ mSlot[p] < LastSlot
        /\ mSlot' = [mSlot EXCEPT ![p] = @ + 1]
        /\ UNCHANGED <<dirs, mOwn, mpc>>
     \/ /\ mSlot[p] \in dirs
        /\ mSlot[p] = LastSlot
        /\ Goto(p, mRet[p])
        /\ UNCHANGED <<dirs, mOwn, mSlot>>
  /\ UNCHANGED <<entry, data, mRet, mSuffix, fileVars, mErr>>

(* The name is tried with 0, 1, ... behind it until it cannot be opened;   *)
(* the last one is not tried.                                              *)
ProbeName(p) ==
  /\ mpc[p] = "probe"
  /\ IF mSuffix[p] < MaxSuffix /\ entry[mSlot[p]][mSuffix[p]] # None
     THEN mSuffix' = [mSuffix EXCEPT ![p] = @ + 1] /\ UNCHANGED mpc
     ELSE Goto(p, "creat") /\ UNCHANGED mSuffix
  /\ UNCHANGED <<tmpVars, mSlot, mOwn, mRet, fileVars, mErr>>

(* CREATE_NEW is creat() (stub.cpp): it truncates a file that is there. *)
CreateCopy(p) ==
  /\ mpc[p] = "creat"
  /\ mSlot[p] \in dirs
  /\ LET old == entry[mSlot[p]][mSuffix[p]]
         f == IF old = None THEN p ELSE old
     IN  /\ entry' = [entry EXCEPT ![mSlot[p]][mSuffix[p]] = f]
         /\ data' = [data EXCEPT ![f] = NoPieces]
         /\ mFile' = [mFile EXCEPT ![p] = f]
  /\ mOff' = [mOff EXCEPT ![p] = 0]
  /\ Goto(p, "write")
  /\ UNCHANGED <<dirs, ownVars, mRead, mErr>>

(* Without its directory the copy cannot be made: ErrCannotOpenFile. *)
CreateCopyFails(p) ==
  /\ mpc[p] = "creat"
  /\ mSlot[p] \notin dirs
  /\ ThrowUtils(p)
  /\ UNCHANGED <<tmpVars, ownVars, fileVars>>

WriteCopy(p) ==
  /\ mpc[p] = "write"
  /\ mOff[p] < Chunks
  /\ data' = [data EXCEPT ![mFile[p]][mOff[p] + 1] = p]
  /\ mOff' = [mOff EXCEPT ![p] = @ + 1]
  /\ UNCHANGED <<dirs, entry, mpc, ownVars, mFile, mRead, mErr>>

(* A mutated form: the result of WriteFile is ignored. *)
WriteCopyFailsUnseen(p) ==
  /\ mpc[p] = "write"
  /\ mOff[p] < Chunks
  /\ mOff' = [mOff EXCEPT ![p] = @ + 1]
  /\ UNCHANGED <<tmpVars, mpc, ownVars, mFile, mRead, mErr>>

(* A full disk: ErrCannotWriteFile, ErrCannotConvertFile. *)
WriteCopyFails(p) ==
  /\ mpc[p] = "write"
  /\ mOff[p] < Chunks
  /\ ThrowUtils(p)
  /\ UNCHANGED <<tmpVars, ownVars, fileVars>>

CloseCopy(p) ==
  /\ mpc[p] = "write"
  /\ mOff[p] = Chunks
  /\ Goto(p, "reopen")
  /\ UNCHANGED <<tmpVars, ownVars, fileVars, mErr>>

(* ParseSource opens the copy by its name again. *)
ReopenCopy(p) ==
  /\ mpc[p] = "reopen"
  /\ entry[mSlot[p]][mSuffix[p]] # None
  /\ mFile' = [mFile EXCEPT ![p] = entry[mSlot[p]][mSuffix[p]]]
  /\ mOff' = [mOff EXCEPT ![p] = 0]
  /\ Goto(p, "read")
  /\ UNCHANGED <<tmpVars, ownVars, mRead, mErr>>

ReopenCopyFails(p) ==
  /\ mpc[p] = "reopen"
  /\ entry[mSlot[p]][mSuffix[p]] = None
  /\ ThrowUtils(p)
  /\ UNCHANGED <<tmpVars, ownVars, fileVars>>

(***************************************************************************)
(* The parser reads two bytes at a time (GetNextChar) until the end of     *)
(* the file, which a hole in the file looks like too.                      *)
(***************************************************************************)
SourceEnds(p) ==
  \/ mOff[p] = Chunks
  \/ mOff[p] < Chunks /\ Converted(p) /\ data[mFile[p]][mOff[p] + 1] = None

GetNextChar(p) ==
  /\ mpc[p] = "read"
  /\ ~SourceEnds(p)
  /\ LET c == IF Converted(p) THEN data[mFile[p]][mOff[p] + 1] ELSE p
     IN  mRead' = [mRead EXCEPT ![p][mOff[p] + 1] = c]
  /\ mOff' = [mOff EXCEPT ![p] = @ + 1]
  /\ UNCHANGED <<tmpVars, mpc, ownVars, mFile, mErr>>

(* ParseSignatureL asks for two temporary names that nobody uses. *)
ParseSignature(p) ==
  /\ mpc[p] = "read"
  /\ mSlot[p] = NoSlot
  /\ TempFileName(p, "read")
  /\ UNCHANGED <<tmpVars, fileVars, mErr, mOwn, mSuffix>>

(* A mutated form: the copy is only removed when it was parsed. *)
AfterParsingEarlyReturn(p, err) ==
  /\ mErr' = [mErr EXCEPT ![p] = err]
  /\ Goto(p, IF err = "parse" THEN "release"
             ELSE IF Converted(p) THEN "unlink" ELSE "target")
  /\ UNCHANGED <<tmpVars, ownVars, fileVars>>

AfterParsing(p, err) ==
  /\ mErr' = [mErr EXCEPT ![p] = err]
  /\ Goto(p, IF Converted(p) THEN "unlink"
             ELSE IF err = "parse" THEN "release" ELSE "target")
  /\ UNCHANGED <<tmpVars, ownVars, fileVars>>

ParseEnds(p) ==
  /\ mpc[p] = "read"
  /\ SourceEnds(p)
  /\ AfterParsing(p, "none")

(* A TParseException, at any place, is caught in ParseSource. *)
ParseThrows(p) ==
  /\ mpc[p] = "read"
  /\ AfterParsing(p, "parse")

(* _wunlink removes whatever has the name now. *)
RemoveCopy(p) ==
  /\ mpc[p] = "unlink"
  /\ entry' = [entry EXCEPT ![mSlot[p]][mSuffix[p]] = None]
  /\ Goto(p, IF mErr[p] = "parse" THEN "release" ELSE "target")
  /\ UNCHANGED <<dirs, data, ownVars, fileVars, mErr>>

(* WriteTarget catches TSISFileGeneratorException.  A SISFieldError, or    *)
(* the TParseException ErrUIDMismatch of LoadSISFile, is caught by nobody. *)
WriteTarget(p) ==
  /\ mpc[p] = "target"
  /\ \/ Goto(p, "release") /\ UNCHANGED mErr
     \/ Goto(p, "release") /\ mErr' = [mErr EXCEPT ![p] = "generator"]
     \/ Goto(p, "aborted") /\ UNCHANGED mErr
  /\ UNCHANGED <<tmpVars, ownVars, fileVars>>

(***************************************************************************)
(* Release calls CleanupTemp, which asks TempFileName for the directory    *)
(* (and so makes one if there is none yet) and removes it, which fails     *)
(* when a file is left in it.                                              *)
(***************************************************************************)
Release(p) ==
  /\ mpc[p] = "release"
  /\ TempFileName(p, "rmdir")
  /\ UNCHANGED <<tmpVars, fileVars, mErr, mOwn, mSuffix>>

Empty(s) == \A x \in Suffixes : entry[s][x] = None

RemoveDirectory(p) ==
  /\ mpc[p] = "rmdir"
  /\ dirs' = IF Empty(mSlot[p]) THEN dirs \ {mSlot[p]} ELSE dirs
  /\ Goto(p, "done")
  /\ UNCHANGED <<entry, data, ownVars, fileVars, mErr>>

(* The user or make kills the process; no handler cleans up. *)
Kill(p) ==
  /\ mpc[p] \notin Ended \cup {"idle"}
  /\ Goto(p, "killed")
  /\ UNCHANGED <<tmpVars, ownVars, fileVars, mErr>>

(* What a process does once it is started. *)
MStep(p) ==
  \/ CreateDirectory(p) \/ ProbeName(p)
  \/ CreateCopy(p) \/ CreateCopyFails(p)
  \/ WriteCopy(p) \/ WriteCopyFails(p) \/ CloseCopy(p)
  \/ ReopenCopy(p) \/ ReopenCopyFails(p)
  \/ GetNextChar(p) \/ ParseSignature(p) \/ ParseEnds(p) \/ ParseThrows(p)
  \/ RemoveCopy(p) \/ WriteTarget(p)
  \/ Release(p) \/ RemoveDirectory(p)

MStart(p) == ParseCommandLine(p) \/ ConvertSource(p) \/ OpenSource(p)

(* All runs are over. *)
MIdle ==
  /\ \A p \in Proc : mpc[p] \in Ended
  /\ UNCHANGED mVars

MNext == (\E p \in Proc : MStart(p) \/ MStep(p) \/ Kill(p)) \/ MIdle

(* A started process keeps running. *)
MSpec == MInit /\ [][MNext]_mVars /\ \A p \in Proc : WF_mVars(MStep(p))

(***************************************************************************)
(* Properties.                                                             *)
(***************************************************************************)

MTypeOK ==
  /\ dirs \subseteq Slots
  /\ entry \in [Slots -> [Suffixes -> Proc \cup {None}]]
  /\ data \in [Proc -> [Pieces -> Proc \cup {None}]]
  /\ mpc \in [Proc -> Places]
  /\ mSlot \in [Proc -> Slots \cup {NoSlot}]
  /\ mOwn \in [Proc -> BOOLEAN]
  /\ mRet \in [Proc -> {"idle", "probe", "read", "rmdir"}]
  /\ mSuffix \in [Proc -> Suffixes]
  /\ mFile \in [Proc -> Proc \cup {None}]
  /\ mOff \in [Proc -> 0 .. Chunks]
  /\ mRead \in [Proc -> [Pieces -> Proc \cup {None}]]
  /\ mErr \in [Proc -> {"none", "usage", "parse", "generator", "utils"}]

(* p has left the loop over the directories. *)
Settled(p) == mSlot[p] # NoSlot /\ mpc[p] # "mkdir"

(* No process has found all directories taken. *)
NoneTurnedAway == \A p \in Proc : Settled(p) => mOwn[p]

(* As long as TempFileName has found a free directory for every process,   *)
(* no two processes that are at work are in the same one, whatever         *)
(* processes were killed, terminated or failed before.                     *)
DirectoriesUnique ==
  NoneTurnedAway =>
    \A p, q \in Proc :
      /\ p # q
      /\ Settled(p) /\ mpc[p] # "done"
      /\ Settled(q) /\ mpc[q] # "done"
      => mSlot[p] # mSlot[q]

(* Then every parser reads only what its own process wrote: the copy that  *)
(* is written, closed, looked up by its name and opened again is the same. *)
ReadsOwnCopy ==
  NoneTurnedAway =>
    \A p \in Proc :
      /\ \A i \in Pieces : mRead[p][i] \in {p, None}
      /\ mpc[p] \in {"unlink", "target"} /\ mErr[p] = "none"
           => \A i \in Pieces : mRead[p][i] = p

(* A directory in /tmp is in use by a run that is at work, or was left by  *)
(* one that was killed, that nothing caught the exception of, or that      *)
(* threw a TUtilsException: also when directories are shared.              *)
NoStrayDirectory ==
  \A s \in dirs : \E p \in Proc :
    /\ Settled(p)
    /\ mSlot[p] = s
    /\ mpc[p] = "done" => mErr[p] = "utils"

(* Every run that is not killed ends: the two loops of TempFileName stop   *)
(* even when every directory and every name is taken.                      *)
RunEnds == \A p \in Proc : mpc[p] # "idle" ~> mpc[p] \in Ended

=============================================================================
