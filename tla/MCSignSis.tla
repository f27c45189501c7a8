----------------------------- MODULE MCSignSis -----------------------------
(***************************************************************************)
(* signsis on small directories of packages made by other tools.           *)
(***************************************************************************)
EXTENDS SigningRefinement

CONSTANTS Content      (* the contents of installed files *)

(* Deflating pays for the installed files, and for a controller once it    *)
(* carries a signature.                                                    *)
MCShrinks(bytes) ==
  LET f == LoadOneField(bytes)
  IN  IF f \in Content THEN TRUE ELSE HasElement(f, SigChain)

Stored(v, alg) == CopyFieldData(NewCompressed(v, alg))

Desc(content, index, stored) ==
  [id |-> "SISFileDescription", hash |-> SHA1(content), index |-> index,
   length |-> SizeOf(stored.buffer)]

InstallBlock(descs, embedded) ==
  [id |-> "SISInstallBlock",
   arrays |-> << [type |-> "SISFileDescription", elems |-> descs],
                 [type |-> "SISController", elems |-> embedded],
                 [type |-> "SISIf", elems |-> << >>] >>,
   root |-> [files |-> 1, embedded |-> 2, ifs |-> 3]]

(* A package of one file, unsigned, with or without its checksums. *)
OneFile(content, alg) ==
  LET st == Stored(content, alg)
  IN  [controller |-> << SISInfo("u1"), InstallBlock(<<Desc(content, 0, st)>>, << >>) >>,
       units |-> << <<st>> >>]

Contents(controller, units, alg, ccsum, dcsum) ==
  LET c == Stored(controller, alg)
  IN  (IF ccsum THEN <<SISControllerChecksum(crcSlow(c))>> ELSE << >>) \o
      (IF dcsum THEN <<SISDataChecksum(crcSlow(SISData(units)))>> ELSE << >>) \o
      <<c, SISData(units)>>

(* Signed by a third party, both checksums there, controller deflated. *)
SignedPackage(content) ==
  LET p == OneFile(content, ECompressAuto)
      c == Append(p.controller, SISSignatureCertificateChain("other", p.controller))
  IN  SisFile("u1", Contents(Append(c, SISDataIndex(0)), p.units, ECompressAuto,
                             TRUE, TRUE))

(* Not signed, no checksum of the controller, nothing compressed. *)
PlainPackage(content, dcsum) ==
  LET p == OneFile(content, ECompressNone)
  IN  SisFile("u1", Contents(Append(p.controller, SISDataIndex(0)), p.units,
                             ECompressNone, FALSE, dcsum))

MCForeign == UNION {{SignedPackage(c), PlainPackage(c, TRUE)} : c \in Content}

MCForeignNoChecksum == {PlainPackage(c, FALSE) : c \in Content}

=============================================================================
