------------------------------ MODULE SISDisk ------------------------------
(***************************************************************************)
(* The directory in which makesis and signsis meet: the only state the two *)
(* programs share.                                                         *)
(***************************************************************************)
EXTENDS SISFormat, FiniteSets

CONSTANTS
  File,         (* the names of SIS files *)
  Foreign,      (* SIS files of other tools that may be there to begin with *)
  MaxRuns       (* bound: the runs of makesis and of signsis that may write *)

(* Other tools make sound files, with data that can be read: signsis       *)
(* checks no signature that it finds, and makesis no file that it embeds.  *)
ASSUME ForeignAssumption ==
  \A f \in Foreign :
    IsSis(f) /\ FileSound(f) /\ HasElement(f.contents, "SISData") /\ UnitsReadable(UnitsOf(f))

VARIABLES
  disk,       (* the content of every file *)
  published,  (* history: every package that was ever completely written *)
  runs        (* the number of runs started, for the bound *)

diskVars == <<disk, published, runs>>

StartRun == runs < MaxRuns /\ runs' = runs + 1

(* Opening a file for writing truncates it. *)
Truncate(f) ==
  /\ disk' = [disk EXCEPT ![f] = PartialFile]
  /\ UNCHANGED published

(* The last of the writes: the file is complete. *)
WriteSis(f, uid, contents) ==
  /\ disk' = [disk EXCEPT ![f] = SisFile(uid, contents)]
  /\ published' = published \cup
       {Package(ControllerOf(disk'[f]), UnitsOf(disk'[f]))}
  /\ UNCHANGED runs

WriteStub(f, controller) ==
  /\ disk' = [disk EXCEPT ![f] = StubFile(controller)]
  /\ UNCHANGED <<published, runs>>

DiskInit ==
  /\ disk \in [File -> Foreign \cup {NoFile}]
  /\ published = {Package(ControllerOf(f), UnitsOf(f)) :
                    f \in {disk[n] : n \in {m \in File : IsSis(disk[m])}}}
  /\ runs = 0

SisFiles == {disk[n] : n \in {m \in File : IsSis(disk[m])}}

-----------------------------------------------------------------------------
(***************************************************************************)
(* Properties of the files.                                                *)
(***************************************************************************)

(* Signing, removing a signature and embedding keep every signature of a  *)
(* file's controller over exactly the elements in front of it, and keep    *)
(* the unsigned data index behind all of them (signsis.cpp main,           *)
(* sisfilegen.cpp GenerateSISFile).                                        *)
SignaturesIntact ==
  \A f \in SisFiles : /\ SignaturesCoverPrefix(ControllerOf(f))
                      /\ DataIndexLast(ControllerOf(f))

(* A package embedded at any depth is, but for its own data index, one    *)
(* that was written as a file: nothing its signatures cover was touched by *)
(* embedding it, nor by embedding or signing the package around it.  And   *)
(* the data units from its index on are that package's own units, in       *)
(* order (sisfilegen.cpp LoadEmbeddedSis).                                 *)
EmbeddedIntact ==
  \A p \in published : \A e \in Embedded(p.signable) :
    \E q \in published :
      /\ q.signable = Signable(e)
      /\ DataIndexOf(e) + Len(q.data) <= Len(p.data)
      /\ q.data = SubSeq(p.data, DataIndexOf(e) + 1,
                         DataIndexOf(e) + Len(q.data))

ControllerChecksumRight(f) ==
  HasElement(f.contents, "SISControllerChecksum") =>
    FindElement(f.contents, "SISControllerChecksum").iValue =
      crcSlow(FindElement(f.contents, "SISCompressed"))

DataChecksumRight(f) ==
  HasElement(f.contents, "SISDataChecksum") =>
    FindElement(f.contents, "SISDataChecksum").iValue =
      crcSlow(FindElement(f.contents, "SISData"))

FileConsistent(f) ==
  /\ Readable(FindElement(f.contents, "SISCompressed"))
  /\ \A u \in 1 .. Len(UnitsOf(f)) :
       \A k \in 1 .. Len(UnitsOf(f)[u]) : Readable(UnitsOf(f)[u][k])
  /\ ControllerChecksumRight(f)
  /\ DataChecksumRight(f)

(* What the two programs write agrees with itself, whatever was edited,    *)
(* recompressed and written again: the algorithm in front of a compressed  *)
(* field is the one its bytes are encoded with (sisfield.h SISCompressed), *)
(* and both checksums are those of the controller and of the data that are *)
(* in the file now, not of the ones that were read (signsis.cpp            *)
(* updateChecksum, sisfilegen.cpp GenerateSISFile).                        *)
FilesConsistent == \A f \in SisFiles : FileConsistent(f)

(* The checksum that signsis adds where the file had none is the CRC of    *)
(* the data: crc.c says crcFast computes "the CRC of the message".         *)
DataChecksumsRight == \A f \in SisFiles : DataChecksumRight(f)

=============================================================================
