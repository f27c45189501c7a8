------------------------------ MODULE SignSis ------------------------------
(***************************************************************************)
(* signsis (makesis-4/src/signsis.cpp): adds a signature to a SIS file,    *)
(* removes the last one, or displays them.                                 *)
(*                                                                         *)
(* One run of the program loads the input, takes the controller out of     *)
(* its compressed field, edits its list of elements, puts it back,         *)
(* refreshes the checksums and writes the output, which is the input       *)
(* itself unless another name is given.  The actions are the stretches of  *)
(* main between which the program can fail, loop, or touch the disk.       *)
(***************************************************************************)
EXTENDS SISDisk

CONSTANT Key      (* the keys a package may be signed with *)

VARIABLES
  spc,            (* where signsis is; "idle" between runs *)
  sArgs,          (* its arguments: input, output and mode *)
  sUid,           (* the UID in the file header, copied as it is *)
  sContents,      (* the elements of the SISContents field *)
  sController,    (* the SISCompressed object of the controller *)
  sAlgorithm      (* the algorithm the controller was compressed with *)

signVars == <<spc, sArgs, sUid, sContents, sController, sAlgorithm>>

Modes == {"sign", "remove", "display"}

NoArgs == [input |-> NULL, output |-> NULL, mode |-> "none"]

NoRun ==
  /\ sArgs' = NoArgs
  /\ sUid' = "none"
  /\ sContents' = << >>
  /\ sController' = NULL
  /\ sAlgorithm' = "none"

SignInit ==
  /\ spc = "idle"
  /\ sArgs = NoArgs
  /\ sUid = "none"
  /\ sContents = << >>
  /\ sController = NULL
  /\ sAlgorithm = "none"

-----------------------------------------------------------------------------
(* loadSISFile, and the controller taken out of its compressed field. *)
SignLoad(in, out, mode) ==
  /\ spc = "idle"
  /\ IF mode = "display" THEN UNCHANGED runs ELSE StartRun
  /\ IsSis(disk[in])
  /\ LET c == Load(FindElement(disk[in].contents, "SISCompressed"))
     IN  /\ sAlgorithm' = c.iAlgorithm
         /\ sController' = LoadChild(Uncompress(c))
  /\ sUid' = disk[in].uid
  /\ sContents' = disk[in].contents
  /\ sArgs' = [input |-> in, output |-> out, mode |-> mode]
  /\ spc' = mode
  /\ UNCHANGED <<disk, published>>

(* No such file, or not a SISContents field: exit(1). *)
SignLoadFails(in) ==
  /\ spc = "idle"
  /\ ~ IsSis(disk[in])
  /\ UNCHANGED <<diskVars, signVars>>

(* Mutated form: the first signature goes. *)
SignRemoveFirst ==
  /\ spc = "remove"
  /\ sController' =
       [sController EXCEPT !.iField = FindRemoveElement(@, SigChain)]
  /\ spc' = "rebuild"
  /\ UNCHANGED <<diskVars, sArgs, sUid, sContents, sAlgorithm>>

(* -u: the last signature goes.  Without any, a warning is printed and the *)
(* file is rewritten all the same.                                         *)
SignRemove ==
  /\ spc = "remove"
  /\ sController' =
       [sController EXCEPT !.iField = FindRemoveLastElement(@, SigChain)]
  /\ spc' = "rebuild"
  /\ UNCHANGED <<diskVars, sArgs, sUid, sContents, sAlgorithm>>

(* Mutated form: the signature is found, but not removed. *)
SignDisplayPeek ==
  /\ spc = "display"
  /\ HasElement(sController.iField, SigChain)
  /\ UNCHANGED <<diskVars, signVars>>

(* -o: each signature is taken out of the list in memory and displayed. *)
SignDisplay ==
  /\ spc = "display"
  /\ HasElement(sController.iField, SigChain)
  /\ sController' =
       [sController EXCEPT !.iField = FindRemoveElement(@, SigChain)]
  /\ UNCHANGED <<diskVars, spc, sArgs, sUid, sContents, sAlgorithm>>

SignDisplayDone ==
  /\ spc = "display"
  /\ ~ HasElement(sController.iField, SigChain)
  /\ spc' = "idle"
  /\ NoRun
  /\ UNCHANGED diskVars

(* Mutated forms: the data index stays where it is; the signature is put   *)
(* one place too early.                                                    *)
SignedOverDataIndex(controller, key) ==
  AddElement(controller, SISSignatureCertificateChain(key, controller))

SignedTooEarly(controller, key) ==
  LET covered == FindRemoveElement(controller, "SISDataIndex")
  IN  AddElement(AddElementAt(covered, SISSignatureCertificateChain(key, covered),
                              Len(covered) - 1),
                 FindElement(controller, "SISDataIndex"))

(* The data index is set aside, the chain is made over what is left and    *)
(* appended, and the data index goes back to the end.                      *)
Signed(controller, key) ==
  LET dataIndex == FindElement(controller, "SISDataIndex")
      covered   == FindRemoveElement(controller, "SISDataIndex")
  IN  AddElement(AddElement(covered,
                            SISSignatureCertificateChain(key, covered)),
                 dataIndex)

SignAdd(key) ==
  /\ spc = "sign"
  /\ sController' = [sController EXCEPT !.iField = Signed(@, key)]
  /\ spc' = "rebuild"
  /\ UNCHANGED <<diskVars, sArgs, sUid, sContents, sAlgorithm>>

(* A certificate or key that is missing, unreadable or does not match:     *)
(* SignUtilError, and main returns before it opens the output.             *)
SignAddFails ==
  /\ spc = "sign"
  /\ spc' = "idle"
  /\ NoRun
  /\ UNCHANGED diskVars

-----------------------------------------------------------------------------
(* Mutated form: a checksum that is there is left as it is. *)
WithControllerChecksumOnce(contents, compressed) ==
  IF HasElement(contents, "SISControllerChecksum")
  THEN contents
  ELSE AddElementAt(contents, SISControllerChecksum(crcSlow(compressed)), 0)

(* The checksum is added where there is none, and brought up to date. *)
WithControllerChecksum(contents, compressed) ==
  LET csum   == SISControllerChecksum(crcSlow(compressed))
      filled == IF HasElement(contents, "SISControllerChecksum")
                THEN contents
                ELSE AddElementAt(contents, csum, 0)
  IN  [filled EXCEPT ![FirstPosition(filled, "SISControllerChecksum")] = csum]

(* signsis never calls crcInit. *)
WithDataChecksum(contents) ==
  IF HasElement(contents, "SISDataChecksum") \/ ~ HasElement(contents, "SISData")
  THEN contents
  ELSE AddElementAt(contents,
                    SISDataChecksum(crcFast(FALSE, FindElement(contents, "SISData"))),
                    1)

(* Mutated forms: the smaller form is chosen anew; the size of the         *)
(* controller that was read is kept.                                       *)
RecompressedAuto(o, alg) == Compress(LoadUncompressed(o), ECompressAuto)

Recompressed(o, alg) == Compress(LoadUncompressed(o), alg)

(* The controller is serialised and compressed as it was before, and both  *)
(* checksums are brought up to date.                                       *)
SignRebuild ==
  /\ spc = "rebuild"
  /\ sController' = Recompressed(sController, sAlgorithm)
  /\ LET compressed == CopyFieldData(sController')
         replaced   == [sContents EXCEPT
                          ![FirstPosition(sContents, "SISCompressed")] = compressed]
     IN  sContents' = WithDataChecksum(WithControllerChecksum(replaced, compressed))
  /\ spc' = "open"
  /\ UNCHANGED <<diskVars, sArgs, sUid, sAlgorithm>>

SignOpenOutput ==
  /\ spc = "open"
  /\ Truncate(sArgs.output)
  /\ spc' = "write"
  /\ UNCHANGED <<runs, sArgs, sUid, sContents, sController, sAlgorithm>>

SignWrite ==
  /\ spc = "write"
  /\ WriteSis(sArgs.output, sUid, sContents)
  /\ spc' = "idle"
  /\ NoRun

(* Steps of a run that has started; each run ends after a few of them. *)
SignStep ==
  \/ SignRemove
  \/ SignDisplay
  \/ SignDisplayDone
  \/ \E k \in Key : SignAdd(k)
  \/ SignAddFails
  \/ SignRebuild
  \/ SignOpenOutput
  \/ SignWrite

SignNext ==
  \/ \E in, out \in File, mode \in Modes : SignLoad(in, out, mode)
  \/ \E in \in File : SignLoadFails(in)
  \/ SignStep

SignAloneInit == DiskInit /\ SignInit

SignSpec ==
  SignAloneInit /\ [][SignNext]_<<diskVars, signVars>>
                /\ WF_<<diskVars, signVars>>(SignStep)

-----------------------------------------------------------------------------
(* The types of what a run holds: once loaded, the controller is an object *)
(* of class SISCompressed, read with an algorithm that signsis can write.  *)
SignTypeOK ==
  /\ disk = [f \in File |-> disk[f]]
  /\ \A f \in File : disk[f].kind \in {"none", "partial", "stub", "sis"}
  /\ spc \in {"idle", "rebuild", "open", "write"} \cup Modes
  /\ spc = "idle" => sArgs = NoArgs
  /\ spc # "idle" =>
       /\ sArgs \in [input : File, output : File, mode : Modes]
       /\ IsObject(sController)
       /\ sAlgorithm \in {ECompressNone, ECompressDeflate}
       /\ IsList(sContents)

(* No run leaves a truncated file behind: signsis opens its output after  *)
(* the last thing that can fail, so a file is only incomplete while a run  *)
(* is about to complete it.                                                *)
NoTruncatedLeftover ==
  \A f \in File : disk[f].kind = "partial" => spc = "write" /\ sArgs.output = f

(* A signature that is added by a run is the one that -u removes again:    *)
(* removing it gives back the controller as it was.                        *)
RemoveUndoesSign ==
  [][spc = "sign" /\ spc' = "rebuild" =>
       FindRemoveLastElement(sController'.iField, SigChain)
         = sController.iField]_<<diskVars, signVars>>

(* A run writes the controller with the compression it found it with, also *)
(* when deflating the longer controller no longer pays.                    *)
CompressionKept ==
  spc \in {"open", "write"} =>
    FindElement(sContents, "SISCompressed").alg = sAlgorithm

=============================================================================
