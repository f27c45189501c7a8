----------------------------- MODULE SISFormat -----------------------------
(***************************************************************************)
(* The SIS file as makesis writes it and signsis rewrites it: what the     *)
(* fields of makesis-4/src/sisfield.h hold, and what it means for a file   *)
(* to be sound.                                                            *)
(*                                                                         *)
(* A file holds a SISContents field, the sequence                          *)
(*    [checksum of the controller] [checksum of the data]                  *)
(*    compressed controller, data.                                         *)
(* A controller is the sequence of its elements: the information fields,   *)
(* the install block, the signature chains, and the data index.  Data is   *)
(* a sequence of data units, a data unit a sequence of stored files.       *)
(***************************************************************************)
EXTENDS SISCompound, SISCompressed

SISInfo(uid) == [id |-> "SISInfo", uid |-> uid]

SISDataIndex(n) == [id |-> "SISDataIndex", iValue |-> n]

SISControllerChecksum(v) == [id |-> "SISControllerChecksum", iValue |-> v]

SISDataChecksum(v) == [id |-> "SISDataChecksum", iValue |-> v]

SISData(units) == [id |-> "SISData", units |-> units]

(* makeChain: a signature by the key over every element the controller     *)
(* has at that moment (CopyFieldData, so not over the controller's own     *)
(* length).  The digest is represented by what it is computed from.        *)
SISSignatureCertificateChain(key, controller) ==
  [id |-> "SISSignatureCertificateChain", key |-> key, over |-> controller]

SigChain == "SISSignatureCertificateChain"

(* SHA-1 of a file's content. *)
SHA1(content) == [sha1 |-> content]

(***************************************************************************)
(* Checksums.  crcFast computes what crcSlow does once crcInit has filled  *)
(* its table; the table starts all zero, and with it the remainder stays   *)
(* zero whatever the message (module Crc computes both).                   *)
(***************************************************************************)
crcSlow(bytes) == [crc |-> bytes]

ZeroCrc == [zero |-> TRUE]

crcFast(tableFilled, bytes) == IF tableFilled THEN crcSlow(bytes) ELSE ZeroCrc

(***************************************************************************)
(* What can be found under a file name.                                    *)
(***************************************************************************)
NoFile == [kind |-> "none"]

(* Truncated by fopen("wb") and not completely written yet. *)
PartialFile == [kind |-> "partial"]

StubFile(controller) == [kind |-> "stub", controller |-> controller]

SisFile(uid, contents) ==
  [kind |-> "sis", uid |-> uid, contents |-> contents]

IsSis(f) == f.kind = "sis"

ControllerOf(f) == Plain(FindElement(f.contents, "SISCompressed"))

UnitsOf(f) == FindElement(f.contents, "SISData").units

(***************************************************************************)
(* Parts of a controller.  An install block is the family of arrays that   *)
(* the generator allocated, each with its child type, and the root block   *)
(* that names three of them.                                               *)
(***************************************************************************)
Children(c, type) ==
  UNION {UNION {{c[i].arrays[a].elems[k] : k \in 1 .. Len(c[i].arrays[a].elems)} :
                  a \in {x \in DOMAIN c[i].arrays : c[i].arrays[x].type = type}} :
           i \in Positions(c, "SISInstallBlock")}

Embedded(c) == Children(c, "SISController")

Logos(c) == {c[i].desc : i \in Positions(c, "SISLogo")}

Descriptions(c) == Children(c, "SISFileDescription") \cup Logos(c)

DataIndexOf(c) == FindElement(c, "SISDataIndex").iValue

(* The part of a controller that its signatures can cover. *)
Signable(c) == FindRemoveElement(c, "SISDataIndex")

(* What the data units hold once uncompressed. *)
PlainUnits(units) ==
  [u \in 1 .. Len(units) |-> [k \in 1 .. Len(units[u]) |-> Plain(units[u][k])]]

(* A package: a controller without its data index, and the plain data. *)
Package(c, units) == [signable |-> Signable(c), data |-> PlainUnits(units)]

(***************************************************************************)
(* Soundness of a controller.                                              *)
(***************************************************************************)
(* Each signature covers exactly the elements in front of it. *)
SignaturesCoverPrefix(c) ==
  \A i \in Positions(c, SigChain) : c[i].over = SubSeq(c, 1, i - 1)

(* There is one data index, and it is the last element. *)
DataIndexLast(c) == Positions(c, "SISDataIndex") = {Len(c)}

ControllerSound(c) ==
  IsList(c) /\ SignaturesCoverPrefix(c) /\ DataIndexLast(c)

(* A SIS file whose controller can be read and is sound. *)
FileSound(f) ==
  /\ IsList(f.contents)
  /\ HasElement(f.contents, "SISCompressed")
  /\ Readable(FindElement(f.contents, "SISCompressed"))
  /\ ControllerSound(ControllerOf(f))

(* Data units that can be read: lists of readable fields. *)
UnitReadable(unit) == IsList(unit) /\ \A k \in 1 .. Len(unit) : Readable(unit[k])

UnitsReadable(units) ==
  IsList(units) /\ \A u \in 1 .. Len(units) : UnitReadable(units[u])

(* Each description's index leads to the file whose hash it holds. *)
FilesResolve(c, unit) ==
  \A d \in Descriptions(c) :
    d.hash # NULL =>
      /\ d.index + 1 \in DOMAIN unit
      /\ d.hash = SHA1(unit[d.index + 1])

=============================================================================
