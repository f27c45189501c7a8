--------------------------- MODULE SISCompressed ---------------------------
(***************************************************************************)
(* class SISCompressed (makesis-4/src/sisfield.h): a field together with   *)
(* its serialised form, kept in an uncompressed or in a deflated buffer.   *)
(*                                                                         *)
(* An object is a record of the class's members.  The two sizes are always *)
(* the sizes of what the two buffers hold or last held, so a size is       *)
(* represented by the bytes it measures (SizeOf).  Which serialisations    *)
(* get smaller when deflated is a parameter, Shrinks.                      *)
(***************************************************************************)

CONSTANT Shrinks(_)   (* does deflating these bytes make them smaller? *)

(* The null pointer: told apart from every buffer by its encoding. *)
NULL == [encoding |-> "null"]

ECompressAuto    == "Auto"
ECompressNone    == "None"
ECompressDeflate == "Deflate"

(* An object has the members of the class. *)
Members ==
  {"iAlgorithm", "iField", "iUncompressedBuffer", "iCompressedBuffer",
   "iUncompressedSize", "iCompressedSize"}

IsObject(o) == o = [m \in Members |-> o[m]]

(***************************************************************************)
(* Conversions.  CopyHeaderData turns a field into bytes and LoadOneField  *)
(* reads it back; compress and uncompress are zlib's.                      *)
(***************************************************************************)
Serialised(field)   == [encoding |-> "raw", of |-> field]
LoadOneField(bytes) == bytes.of
Deflated(bytes)     == [encoding |-> "zlib", of |-> bytes]
Inflated(bytes)     == bytes.of
SizeOf(bytes)       == [sizeof |-> bytes]

(***************************************************************************)
(* Operations, each returning the object after the call.                   *)
(***************************************************************************)
LoadUncompressed(o) ==
  [o EXCEPT !.iUncompressedBuffer = Serialised(o.iField),
            !.iUncompressedSize   = SizeOf(Serialised(o.iField)),
            !.iCompressedBuffer   = NULL]

Uncompress(o) ==
  IF o.iCompressedBuffer = NULL
  THEN o
  ELSE [o EXCEPT !.iUncompressedBuffer = Inflated(o.iCompressedBuffer),
                 !.iUncompressedSize   = SizeOf(Inflated(o.iCompressedBuffer)),
                 !.iCompressedBuffer   = NULL]

(* Deflate, or try to: ECompressAuto keeps the smaller of the two. *)
CompressSmaller(o, alg) ==
  LET raw == o.iUncompressedBuffer
  IN  IF Shrinks(raw) \/ alg = ECompressDeflate
      THEN [o EXCEPT !.iAlgorithm          = ECompressDeflate,
                     !.iCompressedBuffer   = Deflated(raw),
                     !.iCompressedSize     = SizeOf(Deflated(raw)),
                     !.iUncompressedBuffer = NULL]
      ELSE [o EXCEPT !.iAlgorithm      = ECompressNone,
                     !.iCompressedSize = SizeOf(Deflated(raw))]

Compress(obj, alg) ==
  LET o == IF obj.iUncompressedBuffer = NULL /\ obj.iCompressedBuffer = NULL
           THEN LoadUncompressed(obj)
           ELSE obj
  IN  CASE alg # ECompressNone /\ o.iCompressedBuffer # NULL -> o
        [] alg # ECompressNone /\ o.iCompressedBuffer = NULL ->
             CompressSmaller(o, alg)
        [] OTHER ->
             [(IF o.iUncompressedBuffer = NULL THEN Uncompress(o) ELSE o)
                EXCEPT !.iCompressedBuffer = NULL,
                       !.iAlgorithm = ECompressNone]

(* The constructor from a field. *)
NewCompressed(field, alg) ==
  Compress(LoadUncompressed([iAlgorithm          |-> ECompressAuto,
                             iField              |-> field,
                             iUncompressedBuffer |-> NULL,
                             iCompressedBuffer   |-> NULL,
                             iUncompressedSize   |-> NULL,
                             iCompressedSize     |-> NULL]), alg)

(* Parses the child out of the uncompressed buffer, and drops the buffer. *)
LoadChild(o) ==
  [o EXCEPT !.iField = LoadOneField(o.iUncompressedBuffer),
            !.iUncompressedBuffer = NULL]

CompressedSize(o) ==
  IF o.iCompressedBuffer # NULL THEN o.iCompressedSize ELSE o.iUncompressedSize

(* CopyFieldData: what is written into a file. *)
CopyFieldData(o) ==
  [id     |-> "SISCompressed",
   alg    |-> o.iAlgorithm,
   size   |-> o.iUncompressedSize,
   buffer |-> IF o.iCompressedBuffer # NULL THEN o.iCompressedBuffer
                                            ELSE o.iUncompressedBuffer]

(* Load: what is read back.  The payload belongs to the buffer that the    *)
(* stored algorithm names.                                                 *)
Load(f) ==
  [iAlgorithm          |-> f.alg,
   iField              |-> NULL,
   iUncompressedBuffer |-> IF f.alg = ECompressNone THEN f.buffer ELSE NULL,
   iCompressedBuffer   |-> IF f.alg = ECompressNone THEN NULL ELSE f.buffer,
   iUncompressedSize   |-> f.size,
   iCompressedSize     |-> SizeOf(f.buffer)]

(***************************************************************************)
(* A stored field is readable when its payload is encoded the way the      *)
(* stored algorithm says, deflated once, and its size is the size of the   *)
(* raw bytes: then reading it gives back Plain(f), the field that was      *)
(* stored.                                                                 *)
(***************************************************************************)
Plain(f) ==
  IF f.alg = ECompressNone THEN LoadOneField(f.buffer)
                           ELSE LoadOneField(Inflated(f.buffer))

Readable(f) ==
  \/ /\ f.alg = ECompressNone
     /\ f.buffer.encoding = "raw"
     /\ f.size = SizeOf(f.buffer)
  \/ /\ f.alg = ECompressDeflate
     /\ f.buffer.encoding = "zlib"
     /\ Inflated(f.buffer).encoding = "raw"
     /\ f.size = SizeOf(Inflated(f.buffer))

=============================================================================
