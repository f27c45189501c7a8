----------------------------- MODULE ExportList -----------------------------
(***************************************************************************)
(* The list of a library's exports (elf2e32/reloc.h and reloc.cpp) and     *)
(* what is made from it: the .def file, the import library (.dso) and the  *)
(* export directory of the image.  The position of an export in the list   *)
(* is its ordinal, and the ordinal is all that a program linked to the     *)
(* library keeps of its name.                                              *)
(*                                                                         *)
(* A name is a natural number: only equality and the order of strcmp       *)
(* matter.  The address of an export is the name of the symbol that        *)
(* stands there.                                                           *)
(***************************************************************************)
EXTENDS Naturals, Sequences, Functions

CONSTANTS
  Name,          (* the names of symbols, in the order of strcmp *)
  EpocVersion,   (* the version of the SDK, 91 for 9.1, as detectVersion finds it *)
  Hash(_)        (* elf_hash *)

ASSUME NamesAssumption == Name \subseteq Nat \ {0}

ASSUME VersionAssumption == EpocVersion \in Nat

ASSUME HashAssumption == \A n \in Name : Hash(n) \in Nat

NoName == 0
NoAddress == 0

(* An entry of ExportList::exports. *)
Export == [name : Name \cup {NoName}, address : Name \cup {NoAddress},
           code : BOOLEAN, size : Nat]

Hole == [name |-> NoName, address |-> NoAddress, code |-> TRUE, size |-> 0]

Longest(a, b) == IF a < b THEN b ELSE a

(* The list grows by holes up to the ordinal, and the entry gets its name; *)
(* an entry that is there keeps its address.                               *)
addExportOrdinal(exports, line) ==
  [i \in 1 .. Longest(Len(exports), line.ordinal) |->
     IF i = line.ordinal
     THEN [name    |-> line.name,
           address |-> IF i \in 1 .. Len(exports) THEN exports[i].address ELSE NoAddress,
           code    |-> line.code,
           size    |-> line.size]
     ELSE IF i \in 1 .. Len(exports) THEN exports[i] ELSE Hole]

(* The entry of a name, the first one where there are several. *)
IsFirst(exports, name, i) ==
  /\ i \in 1 .. Len(exports)
  /\ exports[i].name = name
  /\ \A j \in 1 .. i - 1 : exports[j].name # name

Known(exports, name) == \E i \in 1 .. Len(exports) : exports[i].name = name

(* A known name gets its address, and kind and size only if it has no size *)
(* yet; a new name goes to the end.                                        *)
addExport(exports, sym) ==
  IF Known(exports, sym.name)
  THEN [i \in 1 .. Len(exports) |->
          IF ~ IsFirst(exports, sym.name, i) THEN exports[i]
          ELSE IF exports[i].size = 0
               THEN [exports[i] EXCEPT !.address = sym.name, !.code = sym.code,
                                       !.size = sym.size]
               ELSE [exports[i] EXCEPT !.address = sym.name]]
  ELSE Append(exports, [name |-> sym.name, address |-> sym.name,
                        code |-> sym.code, size |-> sym.size])

(* The symbols that findExports takes: global functions and objects with a *)
(* value, type names (_ZTS) excluded.                                      *)
IsExport(sym) == sym.exported

warnMissing(exports) == \E i \in 1 .. Len(exports) : exports[i].address = NoAddress

(* The lists in which the entries from position first on are sorted by     *)
(* name and all others are where they were: what std::sort may leave.      *)
SortedFrom(exports, first) ==
  {[i \in 1 .. Len(exports) |-> IF i < first THEN exports[i] ELSE exports[p[i]]] :
     p \in {q \in Bijection(first .. Len(exports), first .. Len(exports)) :
             \A i, j \in first .. Len(exports) :
               i < j => ~ (exports[q[j]].name < exports[q[i]].name)}}

(* Mutated form: the frozen exports are sorted too. *)
doSortAll(exports, presetOrdinals) == SortedFrom(exports, 1)

(* Only the exports behind the preset ones are sorted. *)
doSort(exports, presetOrdinals) == SortedFrom(exports, presetOrdinals + 1)

-----------------------------------------------------------------------------
(* A line of the .def file, as it is read again.  The style of S60 3.0     *)
(* says only whether an export is code or data; later ones give the size   *)
(* of data.  The line of a missing export starts with a semicolon, which   *)
(* makes it a comment.                                                     *)
DefLine(exports, i) ==
  [name    |-> exports[i].name,
   ordinal |-> i,
   code    |-> exports[i].code,
   size    |-> IF EpocVersion <= 91 \/ exports[i].code THEN 0 ELSE exports[i].size,
   comment |-> exports[i].address = NoAddress]

writeDef(exports) == [i \in 1 .. Len(exports) |-> DefLine(exports, i)]

(* A symbol of the .dso; its value leads to the ordinal, since entry 4*i   *)
(* of the section holds i + 1.                                             *)
DsoSymbol(exports, i) ==
  [name |-> exports[i].name,
   ordinal |-> i,
   type |-> IF EpocVersion < 92 THEN "notype"
            ELSE IF exports[i].code THEN "func" ELSE "object",
   size |-> IF EpocVersion < 92 \/ exports[i].code THEN 4 ELSE exports[i].size]

(* Number of buckets, called prime in the code. *)
Buckets(exports) == IF Len(exports) < 2 THEN 1 ELSE Len(exports) \div 2

Bucket(exports, i) == Hash(exports[i].name) % Buckets(exports)

NoChains(exports) == [table |-> [b \in 0 .. Buckets(exports) - 1 |-> 0],
                      chain |-> [i \in 0 .. Len(exports) |-> 0]]

(* A symbol is put in front of the chain of its bucket. *)
LinkedIn(t, b, i) == [table |-> [t.table EXCEPT ![b] = i],
                      chain |-> [t.chain EXCEPT ![i] = t.table[b]]]

(* The tables after all symbols; holes have no name to look up. *)
HashTables(exports) ==
  LET t[i \in 0 .. Len(exports)] ==
        IF i = 0 THEN NoChains(exports)
        ELSE IF exports[i].name = NoName THEN t[i - 1]
        ELSE LinkedIn(t[i - 1], Bucket(exports, i), i)
  IN  t[Len(exports)]

(* The number of preset ordinals and that of the run are not in the file:  *)
(* they tell which of its symbols were frozen, and when it was made.       *)
writeDso(exports, presetOrdinals, build) ==
  [kind |-> "dso", frozen |-> presetOrdinals, build |-> build,
   symbols |-> [i \in 1 .. Len(exports) |-> DsoSymbol(exports, i)],
   hash |-> HashTables(exports), buckets |-> Buckets(exports)]

(* The export directory of the image: the addresses in the order of the    *)
(* ordinals.                                                               *)
ExportDirectory(exports) == [i \in 1 .. Len(exports) |-> exports[i].address]

-----------------------------------------------------------------------------
(* findSymbol on a .dso takes the first symbol of that name, and           *)
(* fixImportRelocation reads the ordinal that its value leads to.          *)
FoundAt(lib, name, ordinal) ==
  /\ ordinal \in 1 .. Len(lib.symbols)
  /\ lib.symbols[ordinal].name = name
  /\ \A j \in 1 .. ordinal - 1 : lib.symbols[j].name # name

(* The symbols that a linker meets when it follows the chain of a bucket.  *)
Chain(lib, bucket) ==
  LET step[n \in 0 .. Len(lib.symbols)] ==
        IF n = 0 THEN lib.hash.table[bucket]
        ELSE lib.hash.chain[step[n - 1]]
  IN  {step[n] : n \in 0 .. Len(lib.symbols)} \ {0}

=============================================================================
