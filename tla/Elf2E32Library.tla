--------------------------- MODULE Elf2E32Library ---------------------------
(***************************************************************************)
(* A library over many builds: elf2e32 (elf2e32.cpp) makes the image, the  *)
(* .dso and a .def file from the ELF file that the linker made and from    *)
(* the frozen .def file; programs are linked to the .dso, which gives them *)
(* ordinals, and run against later images.  Between builds the sources     *)
(* change, and the developer freezes the exports by taking the .def file   *)
(* that a build has written as the input of the next one.                  *)
(*                                                                         *)
(* The options --defoutput, --dso and --noexportlibrary are given anew for *)
(* every run: a run may leave the .def file or the .dso as it finds them.  *)
(* A run can be killed between any two of its writes.                      *)
(***************************************************************************)
EXTENDS ExportList

CONSTANTS
  ElfFiles,      (* the dynamic symbols of the ELF files a build may see *)
  DefFiles,      (* the .def files a library may start with *)
  SysDef,        (* --sysdef: exports that its kind of library must have *)
  MaxBuilds      (* bound on the runs of elf2e32 *)

DefLines == [name : Name, ordinal : Nat \ {0}, code : BOOLEAN, size : Nat,
             comment : BOOLEAN]

Symbols == [name : Nat, code : BOOLEAN, size : Nat, exported : BOOLEAN]

(* No two lines give one ordinal to two names. *)
Consistent(lines) ==
  \A j, k \in 1 .. Len(lines) :
    (/\ lines[j].ordinal = lines[k].ordinal
     /\ ~ lines[j].comment
     /\ ~ lines[k].comment) => lines[j].name = lines[k].name

ASSUME InputsAssumption ==
  /\ MaxBuilds \in Nat
  /\ ElfFiles \subseteq Seq(Symbols)
  /\ \A e \in ElfFiles : \A i \in 1 .. Len(e) : e[i].exported => e[i].name \in Name
  /\ DefFiles \subseteq Seq(DefLines)
  /\ SysDef \in Seq(DefLines)
  /\ \A d \in DefFiles : Consistent(d \o SysDef)

VARIABLES
  elf,           (* the dynamic symbols of the ELF file *)
  def,           (* the frozen .def file, the input of a build *)
  defoutput,     (* the .def file that a build writes *)
  dso, image,    (* the import library and the image *)
  linked,        (* what programs took from a .dso: frozen names, ordinals *)
  builds,        (* runs started *)
  lpc,           (* where elf2e32 is *)
  done,          (* how much of the input it has worked through *)
  exports, presetOrdinals

buildVars == <<lpc, done, exports, presetOrdinals>>
files     == <<defoutput, dso, image>>
libVars   == <<elf, def, defoutput, dso, image, linked, builds,
               lpc, done, exports, presetOrdinals>>

NoFile == [kind |-> "none"]
Torn   == [kind |-> "torn"]

LibInit ==
  /\ elf \in ElfFiles
  /\ def \in DefFiles
  /\ defoutput = NoFile
  /\ dso = NoFile
  /\ image = NoFile
  /\ linked = {}
  /\ builds = 0
  /\ lpc = "idle"
  /\ done = 0
  /\ exports = << >>
  /\ presetOrdinals = 0

Goto(place) == lpc' = place /\ done' = 0

NoBuild == exports' = << >> /\ presetOrdinals' = 0

-----------------------------------------------------------------------------
(* elf2e32: the options are read, --definput among them. *)
StartBuild ==
  /\ lpc = "idle"
  /\ builds < MaxBuilds
  /\ builds' = builds + 1
  /\ Goto("parseDefFile")
  /\ UNCHANGED <<elf, def, files, linked, exports, presetOrdinals>>

(* The lines of --definput, then those of --sysdef. *)
Preset == def \o SysDef

(* Mutated form: the number of preset ordinals is that of the last line. *)
PresetUpToLast(line) == presetOrdinals' = line.ordinal

PresetUpTo(line) == presetOrdinals' = Longest(presetOrdinals, line.ordinal)

ParseDefLine ==
  /\ lpc = "parseDefFile"
  /\ done < Len(Preset)
  /\ LET line == Preset[done + 1] IN
       IF line.comment
       THEN UNCHANGED <<exports, presetOrdinals>>
       ELSE /\ exports' = addExportOrdinal(exports, line)
            /\ PresetUpTo(line)
  /\ done' = done + 1
  /\ UNCHANGED <<elf, def, files, linked, builds, lpc>>

(* Mutated form: the image stays while the other files are made. *)
OpenOutputLate ==
  /\ lpc = "parseDefFile"
  /\ done = Len(Preset)
  /\ Goto("findExports")
  /\ UNCHANGED <<elf, def, files, linked, builds, exports, presetOrdinals>>

(* With an ELF file: the output is unlinked and created. *)
OpenOutput ==
  /\ lpc = "parseDefFile"
  /\ done = Len(Preset)
  /\ image' = Torn
  /\ Goto("findExports")
  /\ UNCHANGED <<elf, def, defoutput, dso, linked, builds, exports, presetOrdinals>>

(* Without one, the .dso is made from the .def file alone. *)
DsoOnly ==
  /\ lpc = "parseDefFile"
  /\ done = Len(Preset)
  /\ Len(exports) > 0
  /\ exports' \in doSort(exports, presetOrdinals)
  /\ Goto("dsoOnly")
  /\ UNCHANGED <<elf, def, files, linked, builds, presetOrdinals>>

(* Neither an ELF file nor, with the exports to put into it, a --dso. *)
NothingToDo ==
  /\ lpc = "parseDefFile"
  /\ done = Len(Preset)
  /\ Goto("idle")
  /\ NoBuild
  /\ UNCHANGED <<elf, def, files, linked, builds>>

FindExport ==
  /\ lpc = "findExports"
  /\ done < Len(elf)
  /\ exports' = IF IsExport(elf[done + 1]) THEN addExport(exports, elf[done + 1])
                ELSE exports
  /\ done' = done + 1
  /\ UNCHANGED <<elf, def, files, linked, builds, lpc, presetOrdinals>>

(* An export of the .def file that the ELF file does not have: the run     *)
(* ends, and the image that it has created stays empty.                    *)
Missing ==
  /\ lpc = "findExports"
  /\ done = Len(elf)
  /\ warnMissing(exports)
  /\ Goto("idle")
  /\ NoBuild
  /\ UNCHANGED <<elf, def, files, linked, builds>>

SortExports ==
  /\ lpc = "findExports"
  /\ done = Len(elf)
  /\ ~ warnMissing(exports)
  /\ exports' \in doSort(exports, presetOrdinals)
  /\ Goto("writeDef")
  /\ UNCHANGED <<elf, def, files, linked, builds, presetOrdinals>>

-----------------------------------------------------------------------------
(* Every output is truncated first and complete later.  The .def file is   *)
(* written only with --defoutput, the .dso only with --dso and without     *)
(* --noexportlibrary.                                                      *)
NoDef ==
  /\ lpc = "writeDef"
  /\ Goto("writeDso")
  /\ UNCHANGED <<elf, def, files, linked, builds, exports, presetOrdinals>>

TruncateDef ==
  /\ lpc = "writeDef"
  /\ defoutput' = Torn
  /\ Goto("finishDef")
  /\ UNCHANGED <<elf, def, dso, image, linked, builds, exports, presetOrdinals>>

WriteDef ==
  /\ lpc = "finishDef"
  /\ defoutput' = [kind |-> "def", lines |-> writeDef(exports)]
  /\ Goto("writeDso")
  /\ UNCHANGED <<elf, def, dso, image, linked, builds, exports, presetOrdinals>>

NoDso ==
  /\ lpc = "writeDso"
  /\ Goto("writeImage")
  /\ UNCHANGED <<elf, def, files, linked, builds, exports, presetOrdinals>>

(* Without an ELF file it takes --linkas, too. *)
NoDsoOnly ==
  /\ lpc = "dsoOnly"
  /\ Goto("idle")
  /\ NoBuild
  /\ UNCHANGED <<elf, def, files, linked, builds>>

TruncateDso ==
  /\ lpc \in {"writeDso", "dsoOnly"}
  /\ dso' = Torn
  /\ Goto(IF lpc = "dsoOnly" THEN "finishDsoOnly" ELSE "finishDso")
  /\ UNCHANGED <<elf, def, defoutput, image, linked, builds, exports, presetOrdinals>>

WriteDso ==
  /\ lpc = "finishDso"
  /\ dso' = writeDso(exports, presetOrdinals, builds)
  /\ Goto("writeImage")
  /\ UNCHANGED <<elf, def, defoutput, image, linked, builds, exports, presetOrdinals>>

WriteDsoOnly ==
  /\ lpc = "finishDsoOnly"
  /\ dso' = writeDso(exports, presetOrdinals, builds)
  /\ Goto("idle")
  /\ NoBuild
  /\ UNCHANGED <<elf, def, defoutput, image, linked, builds>>

(* The image is complete when finalizeE32Image has written its headers.    *)
(* The number of the run is not in the file.                               *)
WriteImage ==
  /\ lpc = "writeImage"
  /\ image' = [kind |-> "image", build |-> builds, directory |-> ExportDirectory(exports)]
  /\ Goto("idle")
  /\ NoBuild
  /\ UNCHANGED <<elf, def, defoutput, dso, linked, builds>>

(* The run is interrupted; what it has truncated stays so. *)
KillBuild ==
  /\ lpc # "idle"
  /\ Goto("idle")
  /\ NoBuild
  /\ UNCHANGED <<elf, def, files, linked, builds>>

-----------------------------------------------------------------------------
(* The library is changed and linked anew. *)
ChangeSources ==
  /\ lpc = "idle"
  /\ builds < MaxBuilds
  /\ elf' \in ElfFiles
  /\ UNCHANGED <<def, files, linked, builds, buildVars>>

(* The developer freezes what the image exports: the .def file may be of   *)
(* another run than the image, but has the same names.                     *)
Freeze ==
  /\ lpc = "idle"
  /\ image.kind = "image"
  /\ defoutput.kind = "def"
  /\ image.directory = [i \in DOMAIN defoutput.lines |-> defoutput.lines[i].name]
  /\ def' = defoutput.lines
  /\ UNCHANGED <<elf, files, linked, builds, buildVars>>

(* The ordinals of the import library. *)
Ordinals == IF dso.kind = "dso" THEN 1 .. Len(dso.symbols) ELSE {}

(* A program is linked: fixImportRelocation looks the name up in the .dso. *)
LinkProgram(name, ordinal) ==
  /\ dso.kind = "dso"
  /\ FoundAt(dso, name, ordinal)
  /\ ordinal <= dso.frozen
  /\ linked' = linked \cup {<<name, ordinal>>}
  /\ UNCHANGED <<elf, def, files, builds, buildVars>>

BuildStep ==
  \/ ParseDefLine
  \/ OpenOutput
  \/ DsoOnly
  \/ NothingToDo
  \/ FindExport
  \/ Missing
  \/ SortExports
  \/ NoDef
  \/ TruncateDef
  \/ WriteDef
  \/ NoDso
  \/ NoDsoOnly
  \/ TruncateDso
  \/ WriteDso
  \/ WriteDsoOnly
  \/ WriteImage

LibNext ==
  \/ StartBuild
  \/ BuildStep
  \/ KillBuild
  \/ ChangeSources
  \/ Freeze
  \/ \E name \in Name, ordinal \in Ordinals : LinkProgram(name, ordinal)

LibSpec == LibInit /\ [][LibNext]_libVars

-----------------------------------------------------------------------------
(* The lists stay lists of exports; everything preset has a place. *)
LibTypeOK ==
  /\ def \in Seq(DefLines)
  /\ exports \in Seq(Export)
  /\ presetOrdinals \in 0 .. Len(exports)
  /\ builds \in 0 .. MaxBuilds
  /\ defoutput.kind \in {"none", "torn", "def"}
  /\ dso.kind \in {"none", "torn", "dso"}
  /\ image.kind \in {"none", "torn", "image"}

(* A program that was linked to a frozen export runs with every complete   *)
(* image: whatever was added, however often the library was built, frozen  *)
(* or interrupted since, the ordinal leads to the symbol that it was       *)
(* linked to (ExportList::doSort leaves the preset ordinals alone, and a   *)
(* missing export stops the build).                                        *)
LinkedProgramsResolve ==
  image.kind = "image" =>
    \A p \in linked : /\ p[2] <= Len(image.directory)
                      /\ image.directory[p[2]] = p[1]

(* What the .dso and the image say of the first n ordinals is the same. *)
AgreeUpTo(n) ==
  \A i \in 1 .. n : /\ i <= Len(image.directory)
                     /\ image.directory[i] = dso.symbols[i].name

(* The linker finds in a .dso what the loader finds in the image.          *)
(* Following the chain of a name's bucket meets exactly the symbols whose  *)
(* names fall into that bucket, holes left out.  A .dso that is no older   *)
(* than a complete image agrees with it on all ordinals, also when runs    *)
(* are interrupted: the image is emptied before the .dso is written and    *)
(* completed after it, and a .dso that is made without an ELF file has     *)
(* frozen exports only.  A .dso that later runs have left as it was        *)
(* (elf2e32.cpp:636) agrees with their images on what was frozen then.     *)
DsoMatchesImage ==
  dso.kind = "dso" =>
    /\ \A b \in 0 .. dso.buckets - 1 :
         Chain(dso, b) = {i \in 1 .. Len(dso.symbols) :
                            /\ dso.symbols[i].name # NoName
                            /\ Hash(dso.symbols[i].name) % dso.buckets = b}
    /\ image.kind = "image" =>
         AgreeUpTo(IF dso.build >= image.build THEN Len(dso.symbols) ELSE dso.frozen)

(* std::sort never compares an entry without a name, for which             *)
(* Export::compare is no order (it says of a hole and a name that each     *)
(* comes before the other): holes lie below the preset ordinals, in        *)
(* whatever order the lines of the .def file come.                         *)
SortComparesNames ==
  lpc \in {"parseDefFile", "findExports"} =>
    \A i \in presetOrdinals + 1 .. Len(exports) : exports[i].name # NoName

(* Line k gives the size of data, and no later line is for its ordinal. *)
Recorded(k) ==
  /\ ~ Preset[k].comment /\ ~ Preset[k].code /\ Preset[k].size # 0
  /\ \A j \in k + 1 .. Len(Preset) :
       Preset[j].comment \/ Preset[j].ordinal # Preset[k].ordinal

(* Freezing keeps what was frozen: whatever the order of the lines, every  *)
(* name is in the new .def file, at its ordinal.  And what was data with a *)
(* size on record stays so, whatever the ELF files say since; only the     *)
(* style of S60 3.0 drops the size.                                        *)
FreezeKeeps ==
  [][def' # def =>
       \A k \in 1 .. Len(def) : ~ def[k].comment =>
         LET o == def[k].ordinal
         IN  /\ o <= Len(def')
             /\ def'[o].name = def[k].name
             /\ def'[o].ordinal = o
             /\ ~ def'[o].comment
             /\ Recorded(k) => /\ ~ def'[o].code
                               /\ EpocVersion > 91 => def'[o].size = def[k].size]_libVars

=============================================================================
