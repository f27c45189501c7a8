------------------------------ MODULE E32Image ------------------------------
(***************************************************************************)
(* How elf2e32 (elf2e32.cpp) and elftran (elftran.cpp) lay out an E32      *)
(* image from an ELF file, with the lists of reloc.h and reloc.cpp: code,  *)
(* exports, data, import table and relocation tables, the words that are   *)
(* patched on the way, and the header that leads to all of them.           *)
(*                                                                         *)
(* The file is a function from positions to items of 4, 2 or n bytes; a    *)
(* write removes the items that it overlaps.  An ELF file is a record; its *)
(* symbols say to which segment they belong, which only the properties     *)
(* look at.                                                                *)
(***************************************************************************)
EXTENDS Integers, Sequences, SequencesExt, FiniteSetsExt

CONSTANTS
  Elfs,            (* the ELF files, see ElfOK *)
  HeaderSize,      (* 0x9c *)
  PageSize,        (* 0x1000: relocations are grouped by page *)
  OrdinalLimit,    (* 0x10000: ordinals fit into half a word *)
  NameLength(_)    (* strlen of the name of a library *)

VARIABLES
  elf,             (* the input *)
  epc,             (* where the run is *)
  at,              (* how many sections or relocations it has seen *)
  file, pos,       (* the output and the place of the next write *)
  header,
  libraries,       (* ImportList::libraries: names with their addresses *)
  relocs,          (* relocationList and dataRelocationList: *)
  dataRelocs       (*   for each page its relocations *)

imgVars == <<elf, epc, at, file, pos, header, libraries, relocs, dataRelocs>>

NoFields == [codeSize |-> 0, dataSize |-> 0, exportDirOffset |-> 0, exportDirCount |-> 0,
             codeOffset |-> HeaderSize, dataOffset |-> 0, importOffset |-> 0,
             codeRelocOffset |-> 0, dataRelocOffset |-> 0, dllRefTableCount |-> 0,
             uncompressedSize |-> 0]

ImgInit ==
  /\ elf \in Elfs
  /\ epc = "code"
  /\ at = 1
  /\ file = << >>
  /\ pos = HeaderSize
  /\ header = NoFields
  /\ libraries = << >>
  /\ relocs = << >>
  /\ dataRelocs = << >>

Goto(place) == epc' = place /\ at' = 1

-----------------------------------------------------------------------------
(* Writing.  An item is its size and its value. *)
Item(size, value) == [size |-> size, value |-> value]

Word(value) == Item(4, value)

(* n zero bytes *)
Zeros(n) == [i \in 1 .. n |-> Item(1, 0)]

Padding(size) == (4 - (size % 4)) % 4

Put(f, p, item) ==
  LET kept == {q \in DOMAIN f : q + f[q].size <= p \/ p + item.size <= q}
  IN  [q \in kept \cup {p} |-> IF q = p THEN item ELSE f[q]]

(* Items one after the other from position p on. *)
Written(f, p, items) ==
  FoldLeft(LAMBDA w, item : [file |-> Put(w.file, w.pos, item), pos |-> w.pos + item.size],
           [file |-> f, pos |-> p], items)

WriteItems(items) ==
  LET w == Written(file, pos, items) IN file' = w.file /\ pos' = w.pos

(* A word that was written before, as fread gives it. *)
WordAt(p) == IF p \in DOMAIN file /\ file[p].size = 4 THEN file[p].value ELSE -1

(* The words of a section, put where the section starts in the file. *)
Contents(f, p, section) ==
  LET addrs == {a \in DOMAIN elf.words : section.addr <= a /\ a < section.addr + section.size}
  IN  [q \in DOMAIN f \cup {p + (a - section.addr) : a \in addrs} |->
         IF q \in DOMAIN f THEN f[q] ELSE Word(elf.words[section.addr + (q - p)])]

-----------------------------------------------------------------------------
(* Code: all sections but the data, with the gaps between them. *)
WriteSection ==
  /\ epc = "code"
  /\ at <= Len(elf.code)
  /\ LET section == elf.code[at]
         here == elf.codeBase + header.codeSize
         gap == IF here < section.addr THEN section.addr - here ELSE 0
         w == Written(file, pos, Zeros(gap))
     IN  /\ file' = Contents(w.file, w.pos, section)
         /\ pos' = w.pos + section.size
         /\ header' = [header EXCEPT !.codeSize = @ + gap + section.size]
  /\ at' = at + 1
  /\ UNCHANGED <<elf, epc, libraries, relocs, dataRelocs>>

(* Mutated form: code is not filled up to a word. *)
PadCodeNot ==
  /\ epc = "code"
  /\ at > Len(elf.code)
  /\ Goto("exports")
  /\ UNCHANGED <<elf, file, pos, header, libraries, relocs, dataRelocs>>

PadCode ==
  /\ epc = "code"
  /\ at > Len(elf.code)
  /\ WriteItems(Zeros(Padding(header.codeSize)))
  /\ header' = [header EXCEPT !.codeSize = @ + Padding(header.codeSize)]
  /\ Goto("exports")
  /\ UNCHANGED <<elf, libraries, relocs, dataRelocs>>

-----------------------------------------------------------------------------
(* RelocationList::addRelocation *)
addRelocation(list, offset, value) ==
  LET prefix == offset - (offset % PageSize)
      reloc  == [offset |-> offset % PageSize, value |-> value]
  IN  [p \in DOMAIN list \cup {prefix} |->
         IF p # prefix THEN list[p]
         ELSE IF p \in DOMAIN list THEN Append(list[p], reloc) ELSE <<reloc>>]

(* ExportList::write: the addresses are relocations of the code. *)
ExportRelocations ==
  FoldLeft(LAMBDA list, i : addRelocation(list, pos + 4 * i - header.codeOffset,
                                          elf.exports[i]),
           relocs, [i \in 1 .. Len(elf.exports) |-> i])

ExportDirectoryAt(p) == p + 4

WriteExports ==
  /\ epc = "exports"
  /\ elf.tool = "elf2e32"
  /\ Len(elf.exports) > 0
  /\ WriteItems(<<Word(Len(elf.exports))>>
                \o [i \in 1 .. Len(elf.exports) |-> Word(elf.exports[i])])
  /\ relocs' = ExportRelocations
  /\ header' = [header EXCEPT !.exportDirOffset = ExportDirectoryAt(pos),
                              !.exportDirCount = Len(elf.exports),
                              !.codeSize = @ + 4 + 4 * Len(elf.exports)]
  /\ Goto("data")
  /\ UNCHANGED <<elf, libraries, dataRelocs>>

(* An executable; the exports of elftran's input are part of its code. *)
NoExports ==
  /\ epc = "exports"
  /\ elf.tool = "elftran" \/ Len(elf.exports) = 0
  /\ Goto("data")
  /\ UNCHANGED <<elf, file, pos, header, libraries, relocs, dataRelocs>>

WriteData ==
  /\ epc = "data"
  /\ at <= Len(elf.data)
  /\ file' = Contents(file, pos, elf.data[at])
  /\ pos' = pos + elf.data[at].size
  /\ header' = [header EXCEPT !.dataOffset = pos, !.dataSize = @ + elf.data[at].size]
  /\ at' = at + 1
  /\ UNCHANGED <<elf, epc, libraries, relocs, dataRelocs>>

InCode(address) == /\ elf.codeBase <= address
                   /\ address < elf.codeBase + header.codeSize

InData(address) == /\ elf.dataBase <= address
                   /\ address < elf.dataBase + header.dataSize + elf.bssSize

CodePosition(address) == address - elf.codeBase + header.codeOffset

DataPosition(address) == address - elf.dataBase + header.dataOffset

(* The padding of the data is not part of its size. *)
PadData ==
  /\ epc = "data"
  /\ at > Len(elf.data)
  /\ WriteItems(Zeros(Padding(header.dataSize)))
  /\ header' = [header EXCEPT !.importOffset = pos + Padding(header.dataSize)]
  /\ Goto(IF elf.tool = "elftran" THEN "symbols" ELSE "relocations")
  /\ UNCHANGED <<elf, libraries, relocs, dataRelocs>>

(* parseDynamic: the exports of elftran's input are a table in its code,   *)
(* behind the word that has their number.                                  *)
FindExportTable ==
  /\ epc = "symbols"
  /\ header' = IF Len(elf.exports) = 0 THEN header
               ELSE [header EXCEPT !.exportDirOffset = CodePosition(elf.exportTable),
                                   !.exportDirCount = WordAt(CodePosition(elf.exportTable) - 4)]
  /\ Goto("relocations")
  /\ UNCHANGED <<elf, file, pos, libraries, relocs, dataRelocs>>

-----------------------------------------------------------------------------
(* ImportList::addImport: to the library's addresses, in the order of      *)
(* first use.                                                              *)
addImport(libs, name, offset) ==
  IF \E i \in 1 .. Len(libs) : libs[i].name = name
  THEN [i \in 1 .. Len(libs) |->
          IF libs[i].name = name
          THEN [libs[i] EXCEPT !.addresses = Append(@, offset)] ELSE libs[i]]
  ELSE Append(libs, [name |-> name, addresses |-> <<offset>>])

(* fixImportRelocation: the addend moves to the upper half of the word. *)
FixImport(p, ordinal) == file' = Put(file, p, Word(ordinal + WordAt(p) * OrdinalLimit))

(* fixRelocation *)
Fix(p, value) == file' = Put(file, p, Word(value + WordAt(p)))

Rel == elf.rels[at]

NextRel == /\ epc = "relocations"
           /\ at <= Len(elf.rels)
           /\ at' = at + 1
           /\ UNCHANGED <<elf, epc, pos, header>>

(* checkRelocations: a symbol of this file. *)
RelocateCode ==
  /\ NextRel
  /\ elf.tool = "elf2e32" /\ Rel.sym.defined
  /\ InCode(Rel.offset)
  /\ IF Rel.type = "relative" THEN UNCHANGED file
     ELSE Fix(CodePosition(Rel.offset), Rel.sym.value)
  /\ relocs' = addRelocation(relocs, Rel.offset - elf.codeBase, Rel.sym.value)
  /\ UNCHANGED <<libraries, dataRelocs>>

RelocateData ==
  /\ NextRel
  /\ elf.tool = "elf2e32" /\ Rel.sym.defined
  /\ ~ InCode(Rel.offset) /\ InData(Rel.offset)
  /\ IF Rel.type = "relative" THEN UNCHANGED file
     ELSE Fix(DataPosition(Rel.offset), Rel.sym.value)
  /\ dataRelocs' = addRelocation(dataRelocs, Rel.offset - elf.dataBase, Rel.sym.value)
  /\ UNCHANGED <<libraries, relocs>>

(* A symbol of another library. *)
ImportInCode ==
  /\ NextRel
  /\ elf.tool = "elf2e32" /\ ~ Rel.sym.defined
  /\ Rel.type # "none"
  /\ InCode(Rel.offset)
  /\ FixImport(CodePosition(Rel.offset), Rel.sym.ordinal)
  /\ libraries' = addImport(libraries, Rel.sym.lib, Rel.offset - elf.codeBase)
  /\ UNCHANGED <<relocs, dataRelocs>>

(* An error is printed, and the import is added all the same. *)
ImportInData ==
  /\ NextRel
  /\ elf.tool = "elf2e32" /\ ~ Rel.sym.defined
  /\ Rel.type # "none"
  /\ ~ InCode(Rel.offset) /\ InData(Rel.offset)
  /\ FixImport(DataPosition(Rel.offset), Rel.sym.ordinal)
  /\ libraries' = addImport(libraries, Rel.sym.lib, Rel.offset - elf.dataBase)
  /\ UNCHANGED <<relocs, dataRelocs>>

(* Outside of both segments, or of no type: at most a message.  elftran    *)
(* passes over a symbol that has a value.                                  *)
Unhandled ==
  /\ NextRel
  /\ \/ ~ InCode(Rel.offset) /\ ~ InData(Rel.offset)
     \/ elf.tool = "elftran" /\ Rel.sym.value # 0
     \/ /\ Rel.type = "none"
        /\ ~ Rel.sym.defined
        /\ elf.tool = "elftran" => InCode(Rel.offset)
  /\ UNCHANGED <<file, libraries, relocs, dataRelocs>>

(* parseDynamic of elftran: the word has the value already, and in the     *)
(* data every entry is a relocation.                                       *)
TranslateCode ==
  /\ NextRel
  /\ elf.tool = "elftran" /\ Rel.sym.value = 0
  /\ Rel.type # "none"
  /\ InCode(Rel.offset)
  /\ IF Rel.type = "abs"
     THEN /\ FixImport(CodePosition(Rel.offset), Rel.sym.ordinal)
          /\ libraries' = addImport(libraries, Rel.sym.lib, Rel.offset - elf.codeBase)
          /\ UNCHANGED relocs
     ELSE /\ relocs' = addRelocation(relocs, Rel.offset - elf.codeBase,
                                     WordAt(CodePosition(Rel.offset)))
          /\ UNCHANGED <<file, libraries>>
  /\ UNCHANGED dataRelocs

TranslateData ==
  /\ NextRel
  /\ elf.tool = "elftran" /\ Rel.sym.value = 0
  /\ ~ InCode(Rel.offset) /\ InData(Rel.offset)
  /\ dataRelocs' = addRelocation(dataRelocs, Rel.offset - elf.dataBase,
                                 WordAt(DataPosition(Rel.offset)))
  /\ UNCHANGED <<file, libraries, relocs>>

-----------------------------------------------------------------------------
(* ImportList::write.  elf2e32 sorts the libraries and counts the padding  *)
(* as part of the table; elftran does neither.                             *)
Sorted(libs) ==
  IF elf.tool = "elf2e32" THEN SortSeq(libs, LAMBDA a, b : a.name < b.name) ELSE libs

(* Where the names start, and where the name of the i-th library is. *)
NamesAt(libs) == 4 + SumFunction([i \in 1 .. Len(libs) |-> 8 + 4 * Len(libs[i].addresses)])

(* Mutated form: the zero at the end of a name is forgotten. *)
NameOffsetNoEnd(libs, i) ==
  NamesAt(libs) + SumFunction([j \in 1 .. i - 1 |-> NameLength(libs[j].name)])

NameOffset(libs, i) == NamesAt(libs) + SumFunction([j \in 1 .. i - 1 |-> NameLength(libs[j].name) + 1])

LibraryItems(libs, i) ==
  <<Word(NameOffset(libs, i)), Word(Len(libs[i].addresses))>>
  \o [k \in 1 .. Len(libs[i].addresses) |-> Word(libs[i].addresses[k])]

ImportItems(libs) ==
  LET size == NameOffset(libs, Len(libs) + 1)
  IN  <<Word(size + IF elf.tool = "elf2e32" THEN Padding(size) ELSE 0)>>
      \o FlattenSeq([i \in 1 .. Len(libs) |-> LibraryItems(libs, i)])
      \o [i \in 1 .. Len(libs) |-> Item(NameLength(libs[i].name) + 1, libs[i].name)]
      \o Zeros(Padding(size))

WriteImports ==
  /\ epc = "relocations"
  /\ at > Len(elf.rels)
  /\ libraries' = Sorted(libraries)
  /\ WriteItems(ImportItems(libraries'))
  /\ header' = [header EXCEPT !.dllRefTableCount = Len(libraries),
                              !.codeRelocOffset = pos']
  /\ Goto("codeRelocs")
  /\ UNCHANGED <<elf, relocs, dataRelocs>>

-----------------------------------------------------------------------------
(* RelocationList::writeSublist: the type says with which segment the word *)
(* moves.  The end of a segment belongs to it.                             *)
RelocType(value) ==
  IF elf.codeBase <= value /\ value <= elf.codeBase + header.codeSize THEN "text"
  ELSE IF elf.dataBase <= value /\ value <= elf.dataBase + header.dataSize + elf.bssSize
       THEN "data" ELSE "none"

(* Mutated form: the padding of a page is not counted. *)
sublistSizeUnpadded(list, prefix) == 8 + 2 * Len(list[prefix])

sublistSize(list, prefix) ==
  LET size == 8 + 2 * Len(list[prefix]) IN size + Padding(size)

SublistItems(list, prefix) ==
  LET sorted == SortSeq(list[prefix], LAMBDA a, b : a.offset < b.offset)
  IN  <<Word(prefix), Word(sublistSize(list, prefix))>>
      \o [i \in 1 .. Len(sorted) |->
            Item(2, [offset |-> sorted[i].offset, type |-> RelocType(sorted[i].value)])]
      \o Zeros(Padding(8 + 2 * Len(sorted)))

(* The pages in the order of the map. *)
Pages(list) == SetToSortSeq(DOMAIN list, LAMBDA a, b : a < b)

Count(list) == SumFunction([i \in 1 .. Len(Pages(list)) |-> Len(list[Pages(list)[i]])])

RelocItems(list) ==
  <<Word(SumFunction([i \in 1 .. Len(Pages(list)) |-> sublistSize(list, Pages(list)[i])])),
    Word(Count(list))>>
  \o FlattenSeq([i \in 1 .. Len(Pages(list)) |-> SublistItems(list, Pages(list)[i])])

WriteCodeRelocs ==
  /\ epc = "codeRelocs"
  /\ WriteItems(RelocItems(relocs))
  /\ Goto("dataRelocs")
  /\ UNCHANGED <<elf, header, libraries, relocs, dataRelocs>>

(* Only where there are any; then the headers. *)
WriteDataRelocs ==
  /\ epc = "dataRelocs"
  /\ IF Count(dataRelocs) > 0
     THEN /\ WriteItems(RelocItems(dataRelocs))
          /\ header' = [header EXCEPT !.dataRelocOffset = pos,
                                      !.uncompressedSize = pos' - header.codeOffset]
     ELSE /\ header' = [header EXCEPT !.uncompressedSize = pos - header.codeOffset]
          /\ UNCHANGED <<file, pos>>
  /\ Goto("finalize")
  /\ UNCHANGED <<elf, libraries, relocs, dataRelocs>>

finalizeE32Image ==
  /\ epc = "finalize"
  /\ file' = Put(file, 0, Item(HeaderSize, header))
  /\ Goto("done")
  /\ UNCHANGED <<elf, pos, header, libraries, relocs, dataRelocs>>

ImgNext ==
  \/ WriteSection \/ PadCode
  \/ WriteExports \/ NoExports
  \/ WriteData \/ PadData
  \/ FindExportTable
  \/ RelocateCode \/ RelocateData \/ ImportInCode \/ ImportInData \/ Unhandled
  \/ TranslateCode \/ TranslateData
  \/ WriteImports \/ WriteCodeRelocs \/ WriteDataRelocs
  \/ finalizeE32Image

ImgSpec == ImgInit /\ [][ImgNext]_imgVars

-----------------------------------------------------------------------------
(* The loader, which has nothing but the file.  The pages of a relocation  *)
(* table follow each other; MaxPages bounds how many are looked for.       *)
MaxPages == 8

PageStart(table) ==
  LET start[n \in 0 .. MaxPages] ==
        IF n = 0 THEN table + 8
        ELSE IF WordAt(start[n - 1] + 4) = -1 THEN pos
        ELSE start[n - 1] + WordAt(start[n - 1] + 4)
  IN  start

(* The positions of the entries of a page. *)
Entries(page) ==
  {h \in page + 8 .. page + WordAt(page + 4) - 1 :
     (h - page) % 2 = 0 /\ h \in DOMAIN file /\ file[h].size = 2}

(* All entries, each with the offset that it relocates. *)
LoaderRelocs(table) ==
  IF table = 0 THEN {}
  ELSE UNION {LET page == PageStart(table)[n]
              IN  {[at |-> h, offset |-> WordAt(page) + file[h].value.offset,
                    type |-> file[h].value.type] : h \in Entries(page)} :
              n \in {m \in 0 .. MaxPages : PageStart(table)[m] < table + 8 + WordAt(table)}}

(* How far the segments are moved. *)
Moved(segment) == CASE segment = "text" -> 10000
                    [] segment = "data" -> 20000
                    [] OTHER -> 0

LoadedWord(position, table, offset) ==
  WordAt(position) + MapThenSumSet(LAMBDA r : Moved(r.type),
                                   {r \in LoaderRelocs(table) : r.offset = offset})

LoadedCode(offset) == LoadedWord(header.codeOffset + offset, header.codeRelocOffset, offset)

LoadedData(offset) == LoadedWord(header.dataOffset + offset, header.dataRelocOffset, offset)

(* The import table: where each library's part is, and what it imports. *)
LibraryStart ==
  LET start[n \in 0 .. header.dllRefTableCount] ==
        IF n = 0 THEN header.importOffset + 4
        ELSE start[n - 1] + 8 + 4 * WordAt(start[n - 1] + 4)
  IN  start

NameAt(p) == IF p \in DOMAIN file /\ p >= header.importOffset THEN file[p].value ELSE -1

LoaderImports ==
  UNION {LET lib == LibraryStart[n]
         IN  {[lib     |-> NameAt(header.importOffset + WordAt(lib)),
               offset  |-> WordAt(lib + 4 + 4 * k),
               ordinal |-> WordAt(header.codeOffset + WordAt(lib + 4 + 4 * k)) % OrdinalLimit,
               addend  |-> WordAt(header.codeOffset + WordAt(lib + 4 + 4 * k)) \div OrdinalLimit] :
              k \in 1 .. WordAt(lib + 4)} :
         n \in 0 .. header.dllRefTableCount - 1}

-----------------------------------------------------------------------------
(* The word that an entry of the ELF file's relocations asks for. *)
Linked(rel) ==
  IF rel.type = "relative" THEN elf.words[rel.offset] + Moved(rel.sym.segment)
  ELSE elf.words[rel.offset] + rel.sym.value + Moved(rel.sym.segment)

(* Positions, sizes and items stay what they are taken for. *)
ImgTypeOK ==
  /\ pos \in Nat
  /\ \A f \in DOMAIN header : header[f] \in Nat
  /\ \A p \in DOMAIN file : p \in Nat /\ file[p].size \in Nat \ {0}
  /\ \A list \in {relocs, dataRelocs} : \A p \in DOMAIN list :
       p % PageSize = 0 /\ \A i \in 1 .. Len(list[p]) : list[p][i].offset \in 0 .. PageSize - 1

(* A loader that moves code and data anywhere gets the words that the      *)
(* linker asked for: what was patched in the file and what the page tables *)
(* say add up, at the ends of segments and pages too, and exactly once.    *)
(* The export directory that the header leads to has the exports in their  *)
(* order, and moves with the code.                                         *)
LoadedAsLinked ==
  epc = "done" =>
    /\ \A i \in 1 .. Len(elf.rels) :
         LET rel == elf.rels[i]
         IN  (rel.sym.segment # "import" /\ rel.type # "none") =>
               /\ InCode(rel.offset) => LoadedCode(rel.offset - elf.codeBase) = Linked(rel)
               /\ InData(rel.offset) => LoadedData(rel.offset - elf.dataBase) = Linked(rel)
    /\ header.exportDirCount = Len(elf.exports)
    /\ \A i \in 1 .. Len(elf.exports) :
         LoadedCode(header.exportDirOffset + 4 * (i - 1) - header.codeOffset)
           = elf.exports[i] + Moved("text")

(* The import table asks the loader for exactly the imports of the code,   *)
(* each from its own library, with its ordinal and its addend.             *)
ImportsAsLinked ==
  (epc = "done" /\ \A i \in 1 .. Len(elf.rels) :
                     elf.rels[i].sym.segment = "import" => InCode(elf.rels[i].offset)) =>
    LoaderImports =
      {[lib |-> rel.sym.lib, offset |-> rel.offset - elf.codeBase,
        ordinal |-> rel.sym.ordinal, addend |-> elf.words[rel.offset]] :
       rel \in {r \in ToSet(elf.rels) : r.sym.segment = "import" /\ r.type # "none"}}

(* The parts of the file follow each other without overlap, and what is    *)
(* read as words is aligned, whatever the sizes of sections and names.     *)
PartsTile ==
  /\ ImgTypeOK
  /\ epc = "done" =>
       /\ \A p \in DOMAIN file : file[p].size = 4 => p % 4 = 0
       /\ header.codeOffset + header.codeSize <=
            IF header.dataSize > 0 THEN header.dataOffset ELSE header.importOffset
       /\ header.dataSize > 0 => header.dataOffset + header.dataSize <= header.importOffset
       /\ LET size == WordAt(header.importOffset)
          IN  header.importOffset + size + Padding(size) = header.codeRelocOffset
       /\ LET last == IF header.dataRelocOffset > 0 THEN header.dataRelocOffset
                      ELSE header.codeRelocOffset
          IN  last + 8 + WordAt(last) = header.codeOffset + header.uncompressedSize

=============================================================================
