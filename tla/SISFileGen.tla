---------------------------- MODULE SISFileGen -----------------------------
(***************************************************************************)
(* CSISFileGenerator::GenerateSISFile (makesis-4/src/sisfilegen.cpp): what *)
(* makesis does once the PKG file is parsed.                               *)
(*                                                                         *)
(* The input is a package: the lists that the parser left in CSISWriter,   *)
(* newest element first, with the command line's choices (self-sign, no    *)
(* compression, stub).  The generator walks the package lines, builds the  *)
(* install block - a tree of arrays that grow while four stacks remember   *)
(* the arrays of the blocks around the current one - and collects the file *)
(* data; then it signs the controller if asked to, and writes.             *)
(*                                                                         *)
(* The arrays are objects with an identity: gArrays holds them, a pointer  *)
(* is an index of gArrays, and 0 is the null pointer.                      *)
(***************************************************************************)
EXTENDS SISDisk, InstallTree, PkgLines

CONSTANTS
  Packages,      (* the packages that may be built *)
  Sources        (* the source files that exist; a file is its content *)

NoSource == NULL

(* What the parser makes sure of: the lists are lists, and there is a      *)
(* language; conditions close and language blocks are whole (PkgParser:    *)
(* ConditionsClosed and LanguageGroupsWhole); options have a name for each *)
(* language or were read before the languages (StringsPerLanguage); the    *)
(* source of a file of type FN is emptied (parsepkg.cpp 825-829).          *)
ASSUME PackagesAssumption ==
  \A pkg \in Packages :
    /\ IsList(pkg.lines) /\ IsList(pkg.logos)
    /\ IsList(pkg.languages) /\ Len(pkg.languages) > 0
    /\ WellNested(Reverse(pkg.lines))
    /\ LanguageBlocksWhole(Reverse(pkg.lines), Len(pkg.languages))
    /\ \A i \in 1 .. Len(pkg.lines) :
         pkg.lines[i].kind = "File" /\ pkg.lines[i].type = "Null" =>
           pkg.lines[i].src = NoSource
    /\ \A i \in 1 .. Len(pkg.lines) :
         pkg.lines[i].kind = "Option" =>
           /\ pkg.lines[i].numOptions \in Nat /\ IsList(pkg.lines[i].strings)
           /\ Len(pkg.lines[i].strings) \in
                {0, pkg.lines[i].numOptions * Len(pkg.languages)}

VARIABLES
  gpc,           (* where makesis is; "idle" between runs *)
  gArgs,         (* its package and target file *)
  gLines,        (* pkglines: the lines still to be done, in order *)
  gArrays,       (* the SISArray objects of the install block *)
  gCur,          (* the current fileDescArray, embeddedArray, ifArray, elseIfArray *)
  gStacks,       (* the four stacks of them; the top is the last element *)
  gLang,         (* the languages done of a language block, and its SISIf *)
  gIndex,        (* the index of the next file *)
  gFileData,     (* fileDataArray: the package's own data unit *)
  gUnits,        (* the data units of embedded packages *)
  gOptions,      (* optionsArray *)
  gLogo          (* the element for the logo, if any *)

treeVars == <<gArrays, gCur, gStacks>>
genVars  == <<gpc, gArgs, gLines, treeVars, gLang, gIndex, gFileData, gUnits,
              gOptions, gLogo>>

NoLang == [done |-> 0, ifField |-> NULL, elseIfs |-> 0]

-----------------------------------------------------------------------------
(***************************************************************************)
(* Files.                                                                  *)
(***************************************************************************)
Algorithm(pkg) == IF pkg.noCompress THEN ECompressNone ELSE ECompressAuto

CanRead(src) == src = NoSource \/ src \in Sources

(* LoadFile, GetHash and GetFileDescription (and GetLogo).  A file without *)
(* a source has no data, an empty hash, and index 0.                       *)
FileData(pkg, src) == CopyFieldData(NewCompressed(src, Algorithm(pkg)))

FileDescription(pkg, src, index) ==
  IF src = NoSource
  THEN [id |-> "SISFileDescription", hash |-> NULL, index |-> 0,
        length |-> SizeOf(NULL)]
  ELSE [id |-> "SISFileDescription", hash |-> SHA1(src), index |-> index,
        length |-> CompressedSize(NewCompressed(src, Algorithm(pkg)))]

-----------------------------------------------------------------------------
(***************************************************************************)
(* Embedded packages.                                                      *)
(***************************************************************************)
(* Mutated form: inflating leaves the size of the deflated data behind. *)
RecompressOldSize(pkg, st) ==
  IF pkg.noCompress
  THEN [CopyFieldData(Compress(Load(st), ECompressNone)) EXCEPT
          !.size = SizeOf(st.buffer)]
  ELSE st

Recompress(pkg, st) ==
  IF pkg.noCompress THEN CopyFieldData(Compress(Load(st), ECompressNone)) ELSE st

(* Mutated forms: the embedded package keeps its own data index; the       *)
(* package's own data unit is not counted.                                 *)
EmbedControllerKeepsIndex(f, count) == ControllerOf(f)

EmbedControllerOneLess(f, count) ==
  LET c == ControllerOf(f)
  IN  [c EXCEPT ![FirstPosition(c, "SISDataIndex")] = SISDataIndex(count - 1)]

(* The embedded controller as it is stored, but for its data index, which  *)
(* becomes the number of data units collected so far (the package's own    *)
(* and those of packages embedded earlier).                                *)
EmbedController(f, count) ==
  LET c == ControllerOf(f)
  IN  [c EXCEPT ![FirstPosition(c, "SISDataIndex")] = SISDataIndex(count)]

EmbedUnits(pkg, f) ==
  [u \in 1 .. Len(UnitsOf(f)) |->
     [k \in 1 .. Len(UnitsOf(f)[u]) |-> Recompress(pkg, UnitsOf(f)[u][k])]]

(* LoadSISFile: the file is there, is a SIS file, and has the UID that the *)
(* package line gives.                                                     *)
CanEmbed(line) ==
  line.src \in File /\ IsSis(disk[line.src]) /\ disk[line.src].uid = line.uid

-----------------------------------------------------------------------------
(***************************************************************************)
(* A run of the generator.                                                 *)
(***************************************************************************)
NoGenRun ==
  /\ gArgs' = NULL
  /\ gLines' = << >>
  /\ gArrays' = << >>
  /\ gCur' = NoArrays
  /\ gStacks' = EmptyStacks
  /\ gLang' = NoLang
  /\ gIndex' = 0
  /\ gFileData' = << >>
  /\ gUnits' = << >>
  /\ gOptions' = << >>
  /\ gLogo' = << >>

GenInit ==
  /\ gpc = "idle"
  /\ gArgs = NULL
  /\ gLines = << >>
  /\ gArrays = << >>
  /\ gCur = NoArrays
  /\ gStacks = EmptyStacks
  /\ gLang = NoLang
  /\ gIndex = 0
  /\ gFileData = << >>
  /\ gUnits = << >>
  /\ gOptions = << >>
  /\ gLogo = << >>

(* The target is opened, and so truncated, before anything is looked at. *)
GenOpen(pkg, target) ==
  /\ gpc = "idle"
  /\ StartRun
  /\ Truncate(target)
  /\ gArgs' = [pkg |-> pkg, target |-> target]
  /\ gpc' = "info"
  /\ UNCHANGED <<gLines, treeVars, gLang, gIndex, gFileData, gUnits, gOptions, gLogo>>

(* ErrCantWrite. *)
GenCannotOpen ==
  /\ gpc = "idle"
  /\ UNCHANGED <<diskVars, genVars>>

(* Any of the errors below leaves the target as it is: incomplete. *)
GenFail ==
  /\ gpc' = "idle"
  /\ NoGenRun
  /\ UNCHANGED diskVars

(* CreateSISInfo: ErrNoVendorName, ErrNoLocalizedVendorName; and a logo    *)
(* that cannot be read, ErrCantRead.                                       *)
GenInfoFails ==
  /\ gpc = "info"
  /\ \/ ~ gArgs.pkg.vendorName
     \/ ~ gArgs.pkg.localizedVendor
     \/ \E i \in 1 .. Len(gArgs.pkg.logos) : ~ CanRead(gArgs.pkg.logos[i])
  /\ GenFail

(* Every logo gets an index and file data, but only the last one becomes   *)
(* the controller's logo.  Then the top install block is begun.            *)
GenInfo ==
  LET pkg   == gArgs.pkg
      logos == Reverse(pkg.logos)
      n     == Len(logos)
  IN  /\ gpc = "info"
      /\ pkg.vendorName /\ pkg.localizedVendor
      /\ \A i \in 1 .. n : CanRead(logos[i])
      /\ gIndex' = n
      /\ gFileData' = [i \in 1 .. n |-> FileData(pkg, logos[i])]
      /\ gLogo' = IF n = 0 THEN << >>
                  ELSE <<[id |-> "SISLogo",
                          desc |-> FileDescription(pkg, logos[n], n - 1)]>>
      /\ gArrays' = BlockArrays
      /\ gCur' = [files |-> 1, embedded |-> 2, ifs |-> 3, elseIfs |-> 0]
      /\ gLines' = Reverse(pkg.lines)
      /\ gpc' = "lines"
      /\ UNCHANGED <<diskVars, gArgs, gStacks, gLang, gUnits, gOptions>>

(* The package line at the top of the stack, in the main loop. *)
AtLine(kinds) ==
  /\ gpc = "lines"
  /\ gLines # << >>
  /\ Head(gLines).kind \in kinds

IsComponent(line) == line.type = "Component"

(* ErrCantRead, ErrSISFileNotFound, ErrUIDMismatch, ErrEmbeddedSIS. *)
GenFileFails ==
  /\ gpc \in {"lines", "language"}
  /\ gLines # << >>
  /\ LET line == Head(gLines)
     IN  /\ line.kind \in {"File", "LanguageFile"}
         /\ IF IsComponent(line) THEN ~ CanEmbed(line) ELSE ~ CanRead(line.src)
  /\ GenFail

(* Mutated form: the data is deflated whatever the command line says. *)
StoreFileDeflated(src) ==
  /\ gIndex' = gIndex + 1
  /\ gFileData' = Append(gFileData, CopyFieldData(NewCompressed(src, ECompressAuto)))

(* A file takes the next index; a stub holds no data. *)
StoreFile(src) ==
  /\ gIndex' = gIndex + 1
  /\ gFileData' = IF gArgs.pkg.stub THEN gFileData
                  ELSE Append(gFileData, FileData(gArgs.pkg, src))

(* EInstPkgLineFile.  A file of type FN (Null) has a description but takes *)
(* no index.                                                               *)
GenFile ==
  /\ AtLine({"File"})
  /\ LET line == Head(gLines)
     IN  /\ ~ IsComponent(line)
         /\ CanRead(line.src)
         /\ gArrays' = AddTo(gArrays, gCur.files,
                             FileDescription(gArgs.pkg, line.src, gIndex))
         /\ IF line.type = "Null"
            THEN UNCHANGED <<gIndex, gFileData>>
            ELSE StoreFile(line.src)
  /\ gLines' = Tail(gLines)
  /\ UNCHANGED <<diskVars, gpc, gArgs, gCur, gStacks, gLang, gUnits, gOptions, gLogo>>

(* LoadEmbeddedSis into the array p of arrays. *)
Embed(line, arrays, p) ==
  LET f == disk[line.src]
  IN  /\ CanEmbed(line)
      /\ gArrays' = AddTo(arrays, p, EmbedController(f, 1 + Len(gUnits)))
      /\ gUnits' = gUnits \o EmbedUnits(gArgs.pkg, f)

GenComponent ==
  /\ AtLine({"File"})
  /\ IsComponent(Head(gLines))
  /\ Embed(Head(gLines), gArrays, gCur.embedded)
  /\ gLines' = Tail(gLines)
  /\ UNCHANGED <<diskVars, gpc, gArgs, gCur, gStacks, gLang, gIndex, gFileData,
                 gOptions, gLogo>>

(* EInstPkgLineLanguageFile: one iteration for each language, each taking  *)
(* one of the lines of the block.  The first builds the SISIf, the others  *)
(* its SISElseIfs; after the last it is added to the current block.        *)
Languages == Reverse(gArgs.pkg.languages)

GenLanguageFile ==
  LET line    == Head(gLines)
      first   == gpc = "lines"
      i       == gLang.done + 1
      last    == i = Len(Languages)
      begun   == IF first THEN Append(gArrays, NewArray("SISElseIf")) ELSE gArrays
      elseIfs == IF first THEN Len(begun) ELSE gLang.elseIfs
      block   == InstallBlock(Len(begun))
      cond    == LanguageIs(Languages[i])
      ifField == IF first THEN SISIf(cond, block, elseIfs) ELSE gLang.ifField
      chained == IF first THEN begun \o BlockArrays
                 ELSE AddTo(begun \o BlockArrays, elseIfs, SISElseIf(cond, block))
      joined  == IF last THEN AddTo(chained, gCur.ifs, ifField) ELSE chained
  IN  /\ AtLine({"LanguageFile"}) \/ gpc = "language"
      /\ IF IsComponent(line)
         THEN /\ Embed(line, joined, block.embedded)
              /\ UNCHANGED <<gIndex, gFileData>>
         ELSE /\ CanRead(line.src)
              /\ gArrays' = AddTo(joined, block.files,
                                  FileDescription(gArgs.pkg, line.src, gIndex))
              /\ StoreFile(line.src)
              /\ UNCHANGED gUnits
      /\ gLines' = Tail(gLines)
      /\ IF last
         THEN gpc' = "lines" /\ gLang' = NoLang
         ELSE /\ gpc' = "language"
              /\ gLang' = [done |-> i, ifField |-> ifField, elseIfs |-> elseIfs]
      /\ UNCHANGED <<diskVars, gArgs, gCur, gStacks, gOptions, gLogo>>

-----------------------------------------------------------------------------
(***************************************************************************)
(* Conditions.  ELSEIF and ELSE first leave the block before them; then    *)
(* all three push the arrays around the new block and start its arrays.    *)
(***************************************************************************)
GenIf ==
  LET n     == Len(gArrays)
      block == InstallBlock(n)
  IN  /\ AtLine({"If"})
      /\ gStacks' = [Push(gStacks, gCur) EXCEPT !.elseIfs = Append(@, gCur.elseIfs)]
      /\ gArrays' = AddTo(gArrays \o BlockArrays \o <<NewArray("SISElseIf")>>,
                          gCur.ifs, SISIf(Head(gLines).cond, block, n + 4))
      /\ gCur' = CurrentArrays(block, n + 4)
      /\ gLines' = Tail(gLines)
      /\ UNCHANGED <<diskVars, gpc, gArgs, gLang, gIndex, gFileData, gUnits,
                     gOptions, gLogo>>

(* Mutated form: the block before an ELSE is not left. *)
GenElseNested ==
  LET block == InstallBlock(Len(gArrays))
      cond  == IF Head(gLines).kind = "Else" THEN Always ELSE Head(gLines).cond
  IN  /\ AtLine({"ElseIf", "Else"})
      /\ gStacks' = Push(gStacks, gCur)
      /\ gArrays' = AddTo(gArrays \o BlockArrays, gCur.elseIfs, SISElseIf(cond, block))
      /\ gCur' = CurrentArrays(block, gCur.elseIfs)
      /\ gLines' = Tail(gLines)
      /\ UNCHANGED <<diskVars, gpc, gArgs, gLang, gIndex, gFileData, gUnits,
                     gOptions, gLogo>>

GenElse ==
  LET block == InstallBlock(Len(gArrays))
      cond  == IF Head(gLines).kind = "Else" THEN Always ELSE Head(gLines).cond
  IN  /\ AtLine({"ElseIf", "Else"})
      /\ gStacks' = Push(Pop(gStacks), Tops(gStacks))
      /\ gArrays' = AddTo(gArrays \o BlockArrays, gCur.elseIfs, SISElseIf(cond, block))
      /\ gCur' = CurrentArrays(block, gCur.elseIfs)
      /\ gLines' = Tail(gLines)
      /\ UNCHANGED <<diskVars, gpc, gArgs, gLang, gIndex, gFileData, gUnits,
                     gOptions, gLogo>>

GenEndIf ==
  /\ AtLine({"EndIf"})
  /\ gCur' = CurrentArrays(Tops(gStacks), Last(gStacks.elseIfs))
  /\ gStacks' = [Pop(gStacks) EXCEPT !.elseIfs = Front(@)]
  /\ gLines' = Tail(gLines)
  /\ UNCHANGED <<diskVars, gpc, gArgs, gArrays, gLang, gIndex, gFileData, gUnits,
                 gOptions, gLogo>>

(* EInstPkgLineOption: the strings, newest first, are taken a language at  *)
(* a time; two rounds of stacks put options and languages in order.        *)
OptionNames(line) ==
  LET n == Len(Languages)
  IN  Reverse([o \in 1 .. line.numOptions |->
                 Reverse(SubSeq(line.strings, (o - 1) * n + 1, o * n))])

(* Options that were read before the languages have no names: the list is *)
(* left through its null pointer, and the process dies.                    *)
EnoughNames(line) == Len(line.strings) >= line.numOptions * Len(Languages)

GenOptionDies ==
  /\ AtLine({"Option"})
  /\ ~ EnoughNames(Head(gLines))
  /\ GenFail

GenOption ==
  /\ AtLine({"Option"})
  /\ EnoughNames(Head(gLines))
  /\ gOptions' = gOptions \o OptionNames(Head(gLines))
  /\ gLines' = Tail(gLines)
  /\ UNCHANGED <<diskVars, gpc, gArgs, treeVars, gLang, gIndex, gFileData, gUnits, gLogo>>

-----------------------------------------------------------------------------
(***************************************************************************)
(* The end of the run.                                                     *)
(***************************************************************************)
SelfsignedKey == "selfsigned"

(* Every element of the controller up to the install block, in order. *)
ControllerBody ==
  << SISInfo(gArgs.pkg.uid),
     [id |-> "SISSupportedOptions", options |-> gOptions],
     [id |-> "SISSupportedLanguages", languages |-> Languages],
     [id |-> "SISPrerequisites"],
     [id |-> "SISProperties"] >> \o gLogo \o
  << [id |-> "SISInstallBlock", arrays |-> gArrays,
      root |-> [files |-> gCur.files, embedded |-> gCur.embedded, ifs |-> gCur.ifs]] >>

(* Self-signed if asked for; the data index goes last. *)
Controller ==
  LET signed == IF gArgs.pkg.selfsign
                THEN AddElement(ControllerBody,
                       SISSignatureCertificateChain(SelfsignedKey, ControllerBody))
                ELSE ControllerBody
  IN  AddElement(signed, SISDataIndex(0))

(* SISContents, with both checksums by crcFast (crcInit has been called). *)
Contents ==
  LET compressed == CopyFieldData(NewCompressed(Controller, Algorithm(gArgs.pkg)))
      data       == SISData(<<gFileData>> \o gUnits)
  IN  << SISControllerChecksum(crcFast(TRUE, compressed)),
         SISDataChecksum(crcFast(TRUE, data)),
         compressed, data >>

GenWrite ==
  /\ gpc = "lines"
  /\ gLines = << >>
  /\ IF gArgs.pkg.stub THEN WriteStub(gArgs.target, Controller)
                   ELSE WriteSis(gArgs.target, gArgs.pkg.uid, Contents)
  /\ gpc' = "idle"
  /\ NoGenRun

(* ErrCantSign. *)
GenSignFails ==
  /\ gpc = "lines"
  /\ gLines = << >>
  /\ gArgs.pkg.selfsign
  /\ GenFail

GenStep ==
  \/ GenInfoFails \/ GenInfo
  \/ GenFileFails \/ GenFile \/ GenComponent \/ GenLanguageFile
  \/ GenIf \/ GenElse \/ GenEndIf \/ GenOption \/ GenOptionDies
  \/ GenSignFails \/ GenWrite

GenNext ==
  \/ \E pkg \in Packages, target \in File : GenOpen(pkg, target)
  \/ GenCannotOpen
  \/ GenStep

GenAloneInit == DiskInit /\ GenInit

GenSpec ==
  /\ GenAloneInit
  /\ [][GenNext]_<<diskVars, genVars>>
  /\ WF_<<diskVars, genVars>>(GenStep)

-----------------------------------------------------------------------------
(* The types of what a run holds.  A SISArray names the type of its        *)
(* elements once, and its AddElement aborts on a field of another type:    *)
(* with the arrays that the stacks hand back, that is never reached.       *)
GenTypeOK ==
  /\ gpc \in {"idle", "info", "lines", "language"}
  /\ gpc # "idle" =>
       /\ gArgs.pkg \in Packages
       /\ gArgs.target \in File
  /\ gIndex \in Nat
  /\ \A p \in {gCur.files, gCur.embedded, gCur.ifs, gCur.elseIfs} :
       p \in 0 .. Len(gArrays)
  /\ gLang.done \in Nat
  /\ \A a \in 1 .. Len(gArrays) :
       gArrays[a].type # "SISController" =>
         \A k \in 1 .. Len(gArrays[a].elems) : gArrays[a].elems[k].id = gArrays[a].type

(* Each description in a controller records the size of the data that the *)
(* file really holds for it, as it is compressed there.                    *)
LengthsRecorded ==
  \A f \in SisFiles : \A d \in Descriptions(ControllerOf(f)) :
    d.hash # NULL => d.length = SizeOf(UnitsOf(f)[1][d.index + 1].buffer)

=============================================================================
