# A TLA+ verification of gnupoc-package's native Symbian tools

gnupoc-package makes the Symbian SDKs usable on Unix.  Most of it is scripts,
patches and vendored releases of other people's programs; what it builds with is a
set of native replacements for the SDK's Windows tools.  This project models the
ones that carry state worth modelling:

* **makesis-4**: `makesis` builds an installation file (SIS file) from a PKG script,
  `signsis` adds signatures to a SIS file and takes them away again;
* **elf2e32**: `elf2e32` and `elftran` turn an ELF file into an E32 image, and keep
  the ordinals of a library's exports over its builds;
* **make-3.81**, the patched GNU make with which the SDKs are built, and which runs
  the other tools in parallel.

Paths without a directory are in `src/tools/makesis-4/src`, `src/tools/elf2e32` or
`src/tools/make-3.81`.

## 1. Inventory

| Part | State it keeps | Operations | What makes it correct |
| --- | --- | --- | --- |
| `sisfield.h` `SISCompound`, `SISArray` | a list of elements | find, find-and-remove first or last, insert | the right element, the others in order |
| `sisfield.h` `SISCompressed` | a field, two buffers, two sizes, an algorithm | LoadUncompressed, Compress, Uncompress, LoadChild, Load, CopyFieldData | tag, size and bytes agree when written |
| `signsis.cpp` | one loaded SIS file | load, sign, remove (`-u`), display (`-o`), recompress, refresh checksums, rewrite | signatures cover what they should, nothing else changes, no file is lost on an error |
| `signutils.cpp` | none | makeChain, makeSignature | the signature is over the elements present at the call |
| `sisfilegen.cpp` | arrays of the install block, four stacks, a file index, data units | one step per package line; LoadEmbeddedSis; signing; writing | the tree means what the PKG lines say; indices, lengths, checksums are right |
| `crc.c` | the table `crcTable` | crcInit, crcSlow, crcFast | both functions give the remainder of the division |
| `parsepkg.cpp`, `crtsis.cpp` | token, line number; lists of nodes, newest first | one Parse function per PKG construct; Add functions | well-nested conditions, one string for each language, UIDs checked |
| `makesis.cpp`, `parsecmd.cpp`, `utils.cpp` | a directory `/tmp/MKSn` and a copy of the PKG file in it | Run, ParseSource, WriteTarget, TempFileName, CleanupTemp | processes do not meet in `/tmp`; what is caught is cleaned up |
| `elf2e32.cpp`, `reloc.h` `ExportList` | exports by ordinal, how many are preset; .def file, .dso, image | parseDefFile, findExports, doSort, writeDef, writeDso | an ordinal that was given away keeps its meaning |
| `elf2e32.cpp`, `elftran.cpp`, `reloc.cpp` | the image file, header, import list, relocations by page | write sections, exports, imports, relocations, header | what the loader reads back is what the linker asked for |
| `job.c` with `main.c`, `commands.c` | children, waiting jobs, tokens, the pipe | new_job, start_waiting_jobs, reap_children, free_child, die, handlers | slots are respected, tokens kept, no child missed, nobody waits for ever |
| `remake.c`, `file.c` | what is known of each file; passes over the goals | update_goal_chain, update_file, check_dep, remake_file, notice_finished_file, remove_intermediates | commands run once, in order, only where needed; success means up to date |
| `mifconv.cpp`, `genaif.c`, `aiftool.cpp`, `svgtbinencode`, `makekeys.cpp`, dump tools | none beyond one pass | format conversions | |
| `petran`, `rcomp`, `bmconv`, `makesis-2`, libelf, expat, `sdks/` | | vendored code, patches, scripts | |

**Interaction.**  The programs share files: makesis embeds SIS files that an earlier
makesis or signsis wrote; signsis rewrites what makesis wrote, by default in place;
programs are linked against the .dso of one build of a library and run against the
image of another.  Processes of makesis share `/tmp`.  Makes share a pipe of tokens
and get signals when children die.  Inside makesis the parser fills the lists of
`CSISWriter` and the generator walks them; both hold pointers into the same nodes.

**What is hard.**  No program has threads, but a parallel build runs many of them
at once, kills them, and starts them again over what they left.  So there are
interleavings of system calls (`/tmp`, the pipe, signals), crashes between two
writes, long sequences of legal calls (sign, embed, sign the outer package, embed
that; build, freeze, build), state that is stale after half of a rewrite (sizes,
tags, checksums, the data index, modification times), counters and stacks that must
stay in step, and what an error leaves behind.  `PROJECT.json` lists each hazard at
its line, with the properties that cover it.

## 2. Modules

What extends what (`A <- B`: B extends A):

```
SISCompound, SISCompressed <- SISFormat <- SISDisk <- SignSis, SISFileGen
SignSis                    <- SigningRefinement (instantiates PackageStore) <- MCSignSis
PkgLines                   <- PkgParser <- MCPkgParser
SISCompound                <- InstallTree
InstallTree, PkgLines      <- SISFileGen <- PkgSemantics, MCPackages
SignSis, SISFileGen        <- SISTools
SISTools, PkgSemantics, MCPackages <- MCSISTools
MakeSis                    <- MCMakeSis
ExportList                 <- Elf2E32Library <- MCElf2E32Library
E32Image                   <- MCE32Image
MakeJobs                   <- MCMakeJobs
MakeUpdate                 <- MCMakeUpdate
Crc                        (its configuration needs no module)

InstallTree, PkgLines      <- DataLemmas
SISTools, PkgSemantics, SigningRefinement, DataLemmas <- SISTools_proofs
PkgParser, MakeSis, MakeJobs <- PkgParser_proofs, MakeSis_proofs, MakeJobs_proofs (one each)
MakeUpdate, DataLemmas     <- MakeUpdate_proofs
Elf2E32Library, DataLemmas <- Elf2E32Library_proofs
Crc, DataLemmas            <- Crc_proofs
```

### makesis and signsis

**SISCompound** - the list operations of `class SISCompound`.  Elements are
records with an `id`; finding, inserting and removing are functions of lists.

**SISCompressed** - `class SISCompressed` as a record of its members and one
operator per method.  Serialising and deflating are injective constructors
(`Serialised`, `Deflated`), so mixing up the two buffers, or writing the tag of
one with the bytes of the other, is visible.  A size is represented by the bytes
it measures.  `Shrinks` says which bytes deflate to something smaller, and is a
parameter: the proofs hold for every choice.

**SISFormat** - the fields of a SIS file and what it means for a file to be
sound: each signature chain covers exactly the elements in front of it, one data
index stands last, the compressed controller can be read.  A signature is its key
and the elements it was computed over; hashes and CRCs are their arguments.

**SISDisk** - the directory: the content of every file, and the history
`published` of all packages ever completely written.  Opening a file for writing
truncates it (`PartialFile`); the last write completes it.

**SignSis** - one run of `signsis` as a state machine.  `spc` is the place in
`main`: `SignLoad` (lines 187-205), `SignRemove` (207-211), `SignDisplay`
(212-261, one signature a step) and `SignDisplayDone`, `SignAdd` and
`SignAddFails` (269-300), `SignRebuild` (308-330), `SignOpenOutput` (332) and
`SignWrite` (333-340).

**PackageStore**, **SigningRefinement** - what signing promises without the format:
packages are a body and a list of signers; a change is decided from one version of
one file, then the target is torn, then it holds the whole result.
`SigningRefinement` maps the state of `SignSis` to it.

**SISFileGen** - `CSISFileGenerator::GenerateSISFile`.  The input is what the
parser leaves in `CSISWriter`: lists with the newest element first.  `GenOpen`
truncates the target (500), `GenInfo` does the header fields and logos (511-593),
and then each package line is a step: `GenFile`, `GenComponent` (embedding),
`GenLanguageFile` (one step for each language of the block), `GenIf`, `GenElse`
(ELSEIF and ELSE), `GenEndIf`, `GenOption`; `GenWrite` signs, compresses, sums and
writes (726-786).  Each error of the code is a failing step that leaves the target
as it is.

**InstallTree** - the install block.  Arrays are objects with an identity, as in the
code, where the same `SISArray*` sits in a block, in a local variable and on a stack;
a pointer is an index of the list of all arrays (`gArrays`).  It has what the
generator does to arrays and stacks (`AddTo`, `Push`, `Pop`), and the installer that
walks the finished tree (`InstalledByTree`): of each condition it enters the first
block whose condition holds, and so on inside.

**PkgLines** - when a list of package lines is well nested and when its language blocks
are whole, by counting, and which blocks are around a line. It is what the parser is
shown to produce and what the generator assumes (`PackagesAssumption`).

**PkgParser** - `CParsePkg` filling `CSISWriter`.  A PKG file is a sequence of
items, and each Parse function that `ParseL` or `ParseEmbeddedBlockL` calls is an
action that reads one.  `Checks` lists what is checked in the order in which the
parser finds out; `ParseThrows` throws the exception of the first check that fails.
The recursion of `ParseIfBlockL` is the stack `pBlocks`, which remembers for each
open condition whether its ELSE was read.  The lists keep their newest element
first, as in the code, and `SetLangDependDestinations` patches the newest lines
(`crtsis.cpp` 367-416).

**PkgSemantics** - the reference for conditions, language blocks and options:
what the help text of `makesis` (`makesis.cpp` 540-552) says of IF, ELSEIF, ELSE
and ENDIF, read line by line, against an installer that walks the tree.

**SISTools** - both programs over one directory, interleaved step by step, with
packages inside packages.

**MakeSis** - the driver, for several processes at once.  `mpc` is the system call
that a process makes next: `CreateDirectory` is one mkdir of the loop in
`TempFileName` (`utils.cpp` 186-215), `ProbeName` one `_wfindfirst` of its second
loop, `CreateCopy`, `WriteCopy`, `CloseCopy`, `ReopenCopy`, `GetNextChar` the copy
of the PKG file written and read in pieces, `ParseEnds`/`ParseThrows` what the
parser did, `AfterParsing`, `WriteTarget`, `Release` and `RemoveDirectory` what the
try blocks catch and the destructors remove.  `Kill` ends a process anywhere.

**Crc** - the three functions of `crc.c` over registers as sets of bits, for any
width, byte size and polynomial, against division of polynomials.

### elf2e32

**ExportList** - `class ExportList`: `addExportOrdinal` (with holes below it),
`addExport`, `doSort` (which leaves the preset ordinals alone), `writeDef`, and the
hash table of `writeDso`.  `std::sort` is any sorting of the tail.

**Elf2E32Library** - a library over many builds: `ParseDefLine`, `OpenOutput`,
`FindExport`, `Missing`, `SortExports` and then the .def file, the .dso and the
image, each truncated in one step and complete in another; `KillBuild` between any
two.  The .def file is written only with `--defoutput`, the .dso only with `--dso`
and without `--noexportlibrary` (`elf2e32.cpp` 634-637): each build may leave either
as it is (`NoDef`, `NoDso`, `NoDsoOnly`).  Between builds `ChangeSources`, `Freeze`
(a .def file that a build wrote becomes the input) and `LinkProgram` (a program takes
an ordinal from the .dso).  `Freeze` is taken only if the .def file has the names of
the complete image, whichever run wrote it: what is frozen is what was released.  The
`build` of a .dso and of an image is not in the files: it records which run wrote
them, for `DsoMatchesImage`.

**E32Image** - one image: sections, exports, padding, data, relocations and
imports patched into the words, import table, pages of relocations, header; both
for `elf2e32` and for `elftran`, which finds the export table in the code.  The
file is a function from positions to items, and a write removes what it overlaps.
`LoaderRelocs`, `LoaderImports` and `LoadedWord` are a loader that knows nothing but
the file and moves code and data elsewhere.  `elftran` passes over a dynamic
relocation whose symbol has a value (`elftran.cpp` 214, "Does not occur?"), and so does
`Unhandled`; the inputs have such a symbol outside of the segments only, since a word that
is passed over does not move with its segment.

### make

**MakeJobs** - a make with `-jN` and the makes below it.  `pc[m]` is the place in
`update_goal_chain`, `new_job`, `reap_children`, `start_waiting_jobs`, `die` or
`fatal_error_signal`.  A step ends where another process or a signal can come
between: every wait, the dup of the pipe's descriptor (`rfd`), the read, every
fork.  `child_handler` runs at any time after a child has died and closes the dup,
which is how a make that is about to sleep on the pipe is woken.  A build (`Builds`)
says which jobs there are, which may fail, and which options are set.

**MakeUpdate** - `remake.c`.  The recursion of `update_file_1` and `check_dep` is
a stack of frames with a phase each; a pass over the goals considers each file once
(`considered`), and passes follow until all goals are finished.  Jobs run beside
it: `Reap` may find any of them ended whenever a new one is started.  When commands
have failed, their targets may be deleted (`delete_child_targets`: after a signal, under
`.DELETE_ON_ERROR`, or when a later line does not start; `Changed` are the targets that
it takes, which are not precious).  `remove_intermediates` ends a run; it spares files
that are `.PRECIOUS`, `.SECONDARY` or goals (`Passing`).

Definitions named as a mutated form of another (`SignedTooEarly`,
`GenElseNested`, ...) are plausible bugs; none of them is part of a specification.
They show that the property next to which they are listed in `PROJECT.json` can
fail.

## 3. What the runs check

**signsis** (`MCSignSis.cfg`).  Two files, two keys, packages of a third party
that are signed and deflated, or unsigned, plain and without a controller
checksum.  Any three writing runs, and displays in between.  `SignaturesIntact`:
each signature still covers what stands in front of it.  `FilesConsistent`: every
file agrees with itself, tag with bytes and checksums with contents.
`RemoveUndoesSign`: `-u` undoes a signature.  `CompressionKept`: the controller
keeps its algorithm also when the other one would be smaller now.
`SigningPromise`: signsis implements `PackageStore`; so no number of runs changes
what is installed, no error path leaves a truncated file, and a file that was
truncated for a rewrite is completed.

**tools** (`MCSISTools.cfg`).  Three scenes, chosen at the start.  *together*: three
writing runs of makesis and signsis, interleaved, over two files that embed each
other.  *packages*: two runs of makesis out of a dozen packages: files without data,
two logos, language blocks, options, stubs, embedding of a foreign package and of
its own output, no compression, and each error.  *scripts*: all well-nested scripts
of up to five lines out of IF, ELSEIF, ELSE, ENDIF, files and language blocks.
`TreeFollowsLines`: for each device the tree installs exactly what the lines say
and offers the options in their order; it includes that the type check in
`SISArray::AddElement`, which aborts, is never met.  `LengthsRecorded`: each
description has the size of the data stored for it.  `EmbeddedIntact`: whatever is
embedded at any depth is, but for its data index, a package that was written as a
file, and its data units follow in order.  `NestedPackagesSound`: adding up the data
indices on the way down leads to the data with the recorded hash, at every depth.
`FilesConsistent`, `BothTerminate`.  A package whose options have no names ends in
`GenOptionDies`: the process dies at a null pointer and leaves the target truncated.

**parser** (`MCPkgParser.cfg`).  All PKG files of up to five items out of some
forty, good and bad, of all sorts but ELSEIF and ELSE; and all sequences of up to
nine header, IF, ELSEIF, ELSE and ENDIF items.  `StringsPerLanguage`: package names,
vendor names and names of dependencies have one string for each language in the
end, however language, header and vendor lines are ordered and whether or not
English was assumed.  `LanguageGroupsWhole`: language blocks are whole groups of
patched lines, and no other line is patched.  `ConditionsClosed`: the stored lines
are nested as the recursion has it, and a parsed package has every condition closed.
All three are what `PackagesAssumption` asks of the packages given to the generator,
besides that there is a language and that a file of type FN has lost its source
(`parsepkg.cpp` 825-829).

**makesis** (`MCMakeSis.cfg`).  Two processes at once, two directories in `/tmp`,
and what a third process left behind (nothing, or a directory that nobody removes).
`DirectoriesUnique`, `ReadsOwnCopy`: until the directories run out, processes do not
meet, and each parser reads exactly what its own process wrote.
`NoStrayDirectory`: a directory that stays behind is one of a killed process or of a
TUtilsException, also when directories are shared.  `RunEnds`: both loops of
`TempFileName` stop.

**crc** (`MCCrc.cfg`).  A four-bit register with two-bit bytes, all messages of up
to four bytes.  `FastIsSlow`, `SlowIsRemainder`; without crcInit, crcFast gives zero.

**elf2e32_library** (`MCElf2E32Library.cfg`).  Four builds of a library of up to
three symbols, frozen, changed and interrupted in every order, each with or without
`--defoutput` and `--dso`, with .def files that are empty, handwritten, out of order
or with a hole.  `LinkedProgramsResolve`: a program linked to
a frozen export finds it in every complete image.  `DsoMatchesImage`: the hash
chains of the .dso find each symbol, and a .dso that is no older than a complete image
agrees with it on all ordinals, also after a crash.  One that later builds have left
alone agrees with their images on the ordinals that were frozen when it was made: the
others may lead elsewhere, which is why `LinkedProgramsResolve` speaks of frozen
exports only.
`SortComparesNames`: `std::sort` never sees an entry for which `Export::compare` is
no order.  `FreezeKeeps`: freezing keeps every name at its ordinal, in whatever order
the lines of the .def file come, and the size of data that is on record.

**e32_image** (`MCE32Image.cfg`).  Some eight thousand ELF files: one or two code
sections whose sizes are no whole number of words, data or none, every combination
of relocations (one of them against a symbol with a value, which elftran skips), imports
from two libraries, up to two exports, for both programs.
`LoadedAsLinked`: a loader that moves code and data elsewhere gets the words that
the linker asked for, and the export directory.  `ImportsAsLinked`: it resolves
exactly the imports of the code.  `PartsTile`: the parts lie behind each other,
aligned, with every padding counted once.

**make_jobs** (`MCMakeJobs.cfg`).  Five builds with two slots: *tree* (two makes
below the first, one without the pipe, failing commands, a target without a rule),
*forks* (rules of several lines, and vfork fails), *load* (`-k -l` with
`.NOTPARALLEL`), *impatient* (`-l` without `-k`) and *killed* (SIGTERM to any make at
any time).  `NeverMoreThanSlots`, `TokensConserved`: no token is lost or made up,
but in one way: see below.  `NobodyLeftBehind`: a make that has ended leaves nothing
running.  `PrerequisitesFirst`, `ExitTells`.  `EveryMakeEnds`: no death of a child is
missed by a make that goes to sleep, whenever SIGCHLD arrives, and no make ends in
one of its internal errors.

**make_update** (`MCMakeUpdate.cfg`).  Seventeen makefiles of four files - chains,
diamonds, order-only prerequisites, intermediate files, some of them precious or
secondary, targets that share their commands, cycles, phony and forced targets, a target
without a rule - with files of every age, with and without `-k`, `-B` and a second
slot; nine of them twice.  In *BehindMiddle* a prerequisite is still being made behind
an intermediate file, so that `check_dep` finds it running in a call for another file;
there, with `-k`, only the commands of the intermediate file may fail, because a failing
prerequisite behind it is the case of make_waits.
`PrerequisitesReady`, `CommandsOnce`, `SuccessIsUpToDate` (which includes that no
failure is hidden), `NothingNeedless`, `IntermediatesGone` (but for those that are
precious, secondary or goals), `AgainRunsNothing`,
`MakeEnds`, which does not hold for every makefile: see make_waits.

**data_checksum** (`MCSignSisNoChecksum.cfg`) finds a violation.  signsis adds a
data checksum where there is none, with `crcFast` (`signsis.cpp` 325).  `crc.c`
206 says that `crcInit()` must be called first; only the generator calls it
(`sisfilegen.cpp` 506).  The table is then all zero, and so is the checksum
(`FastIsSlow` shows that this is so for every message).  The other runs
start from files that have a data checksum, as every file of makesis does.

**options_first** (`MCPkgOptionsFirst.cfg`) finds a violation.  An options line in
front of the languages is read with no names at all; `ParseOptionsBlockL` has no
check, and the exception `ErrLanguagesNotDefined` ("languages have not been defined
yet", `makesis.cpp` 292) is thrown nowhere.  The generator dies on the package
(`sisfilegen.cpp` 704; action `GenOptionDies`).

**make_waits** (`MCMakeWaits.cfg`) finds a violation.  With `prog: x`, `x: y`,
`y: src`, `x` intermediate and two job slots, `check_dep` marks `x` as waiting while
`y` is being made (`remake.c` 1028).  When the commands of `y` have left it as it was,
or have failed under `-k`, `prog` is not older than `y` and need not be made, so
`update_file_1` is never called for `x`, which alone would take the mark back: `prog`
waits for `x` in every pass, and make loops for ever without a child.  The comment at
the mark says that the upper levels wait "until the commands are finished".  The
program built from `src/tools/make-3.81` does the same under `make -k -j2`.

### What the code does that one would not expect

These were met while modelling.  The models have them, and the properties above are
stated so that they hold with them.

* The handler of `DoesExist` that should "ignore error if writing a stub file"
  (`parsepkg.cpp` 2076) is for an exception that nothing in its block throws: a missing
  file ends the parsing of a stub as well.
* When all directories `MKS0` to `MKS9999` are taken, `TempFileName` goes on with
  the last one, which it does not own (`utils.cpp` 186-212); two processes may then
  choose the same name.  Hence `NoneTurnedAway` in `DirectoriesUnique`.
* `ParseSource` catches TParseException only: after a TUtilsException the copy and
  its directory stay (`makesis.cpp` 152, `crtsis.cpp` 62).  An `ErrUIDMismatch` of the
  generator is caught by nobody (`sisfilegen.cpp` 438).
* A make that dies with status 2 while a job waits for the load writes back a token
  too many (`clean_jobserver`, `main.c` 3005): `Surplus` counts them.
* A language may be named twice (`parsepkg.cpp` `ParseLanguagesL` does not look): then
  of its lines in a language block the first is installed, and the second never.
* After vfork has failed, `good_stdin_used` stays set (`job.c` 1283).
* Exports are written between code and data; the format's description has them
  elsewhere, but the header leads to them, which is all a loader uses.
* An import whose library is not found only prints a message (`reloc.cpp` 141), and
  the segment of a symbol is guessed from its value (`reloc.cpp` 197-201).
* Embedded packages keep descriptions with the compressed lengths of before
  `Recompress`, because they are signed (`sisfilegen.cpp` 489): `LengthsRecorded` is
  about the outer package.

### Bounds

`MaxRuns` bounds the runs that write.  Three are enough for sign, sign, remove
and for embed, sign, embed, and each property speaks of files, so a fourth run
meets files of the kinds that the third has met; the proofs below have no bound.
Displays are not counted, since they change nothing.  `MaxLines` = 5 allows a
condition inside a branch that another branch or line follows (IF IF ENDIF ELSE
ENDIF), which is what the four stacks are for, and an ELSEIF with an ELSE behind it;
`MaxNesting` = 3 is as deep as three runs can nest.  `MaxItems` is 5 (`MaxSorts`) for items of all
sorts: languages, header, vendor names, and two items that depend on them; it is 9
for conditions alone, enough for an IF with ELSEIF and ELSE inside another one, or
for three levels, and a wrong item behind them.

In Crc, `Width` and `ByteBits` keep the ratio of the code (two bytes to a register)
so that bits cross from one byte into the next.  In MakeSis two processes that work
and one that is over are the smallest instance in which two directories run out for
one process while another owns one; `MaxSuffix` = 1 makes the names in a directory
run out as well, and two pieces let a copy be half written; the proofs cover the
rest.  `MaxBuilds` = 4 is build, freeze, build with more symbols, freeze, build with
fewer, and one interrupted in between.  Pages of two words (`PageSize` = 8) make the
relocations of ten bytes of code cross a page; `HeaderSize` and `OrdinalLimit` only
have to be larger than the items and ordinals.  Two slots are the fewest with a pipe;
three makes let two compete for the one token.  Ages 0 to 2 are missing, older and
newer, and equal.

### Fairness

Weak fairness on the steps of a process that has started: the programs are
sequential, and the kernel runs a process that can run.  Starting a run, killing one,
SIGTERM, freezing and changing sources are never fair.  For makes: signals that are
pending are delivered (`child_handler`, `fatal_error_signal`), and every command ends
(`EndCommand`).  `UpdateNext` is fair as a whole, since it is one process and jobs
that end.

Deadlock is not checked where a run of the program ends and nothing follows: in the
runs of the parser and of elf2e32, and in `make_jobs`, where `EveryMakeEnds` says more.

## 4. What is proved

`SISTools_proofs` begins with what the list operations of `SISCompound` return: there
is a first and a last element of a type if there is any, what insertion, replacement
and removal do to the length and to each position, and that inserting or replacing an
element of another type does not change what `FindElement` finds.  The existence of a
first position is proved from the well-foundedness of the natural numbers.

It then proves for `SignSpec`, for all sets of files and keys, all
`Shrinks` and any number of runs:

* `SignTypeCorrect` - `SignTypeOK`,
* `SignaturesStayIntact` - `SignaturesIntact`,
* `RemoveUndoesSigning` - `RemoveUndoesSign`,
* `NeverLeavesTruncated` - `NoTruncatedLeftover`,
* `KeepsCompression` - `CompressionKept`,
* `SigningKeepsPromise` - the safety part of `SigningPromise`: signsis implements
  `PackageStore`,
* `SigningStaysConsistent` - `FilesConsistent`, in a directory of consistent packages
  that came with a data checksum.

`SignaturesIntact` is not inductive: a run loads a file, edits the list in memory,
compresses it and writes it several steps later, so the invariant has to follow
the controller along the way.  `SignInv` says that files on disk are sound
(`FilesSound`), that the list being edited is sound (`EditSound`), that the
contents keep a place for the controller (`ContentsHaveController`) and that what
is about to be written is sound (`OutputSound`).  The argument goes from one to
the next: `LoadedIs` (what is loaded from a readable field is what was stored),
`SignedSound` and `RemoveLastSound` (both edits keep a controller sound),
`RebuiltIs` (serialising and compressing gives a readable field that holds the
same controller) and `ChecksumsKeep` (refreshing the checksums leaves the controller
and the data the first of their kind).  The one assumption is `ForeignAssumption`:
files of other tools that are there to begin with are sound, have data, and store
their files so that they can be read back.  signsis
checks no signature that it finds, so without it a file that was damaged before
stays damaged.

The refinement needs to know in addition that what a run holds is the file it read
(`LoadedIsInput`) and then what it will write (`ReadyIsResult`), and that the data
stay there (`DataPresent`).  `StoredInv` is `SignInv` with `DataPresent`, and `HeldInv`
is `StoredInv` with the other two.  `StoredInv` and `ReadyIsResult` survive whatever
another program writes that is sound itself, so they can be used again below.  Then each
step is one of `PackageStore`, lemma by lemma: `AddDecides`, `RemoveDecides`,
`OpenTears`, `WriteCompletes`; the others change nothing there.  That signing adds
one signer and leaves the body, and removing takes the last one
(`PackageSigned`, `PackageUnsigned`), is a statement about `Kept`, a recursive
function on lists: `KeptSteps` unfolds it, and the lemmas behind it say that it
depends on each prefix only, and that an element that is not chosen may be left out.

`FilesConsistent` needs its hypothesis: the run `data_checksum` shows that a file
without a data checksum gets a wrong one.  `ConsistentInv` follows the contents from
the file that was read, whose data checksum is kept, to the rebuilt one, whose
controller checksum is that of the controller put in (`ControllerChecksumIs`).

`SISTools_proofs` then proves for `SISTools`, where any number of runs of both programs
alternate step by step in one directory, for all packages and sources:

* `AllSignaturesStayIntact` - `SignaturesIntact`.  What makesis writes is sound
  (`GenWritesSound`): its chain, if it signs at all, covers the body and the data index
  comes last (`ControllerIsSound`, `ContentsIs`).  The rest is that the steps of one
  program keep what the other holds (`GenKeepsStored`, `ToolsNext`).  A makesis that
  embeds a package reads its data back, so `ToolsInv` adds that whatever lies on disk or
  is held can be read (`DiskReadable`, `GenReadable`), and that signing keeps the data
  and, of the controller, all but the chains (`SignCarries`, `Alike`).
* `AllFilesStayConsistent` - `FilesConsistent`, with the hypothesis of
  `SigningStaysConsistent`: what makesis writes has a data checksum of its own
  (`GenWritesConsistent`).
* `ArraysKeepTheirTypes` - `GenTypeOK`: no array of the tree gets an element of another
  type, at which `AddElement` aborts.  The pointers into the tree are the hard part.
  `GenInv` says which array each of `gCur` and of the levels of `gStacks` points to
  (`Pointers`), that there are as many levels as conditions are open at the line just
  read (`TreeInv`, with `Depth` of `PkgLines`), and that inside a language block
  the chain of that block is being filled (`LanguageChain`).  Each kind of line is a
  lemma (`GenIfStep`, `GenElseStep`, `GenEndIfStep`, ...); all of them only add to the tree
  (`Grows`), and what they add of files and packages is summed up once (`Adds`).
* `FilesStayRecorded`, `LengthsStayRecorded` - `LengthsRecorded`: each description of a file
  gives the place of a stored file with that size and hash.  `RecordInv` says it of the
  descriptions collected so far (`Gathered`), of what signsis holds and of the files.
* `EmbeddedStaysIntact` - `EmbeddedIntact`.  `EmbedInv` says of each embedded package that
  has been collected where its units lie (`Placed`): at the index that `LoadEmbeddedSis`
  writes, once `GenerateSISFile` puts the package's own unit in front of the others.
* `DirectoryStaysSound` and `NestingStaysSound` - `NestedPackagesSound`, for any `MaxNesting`.
  Every package that was ever written is right about itself and about what it embeds
  (`PackageSound`); so the controllers at each depth are those of packages that were
  written, and their data lie where the sum of the indices says (`Found`).  That goes down
  one level at a time: `FoundDeeper`, with `LiesDeeper` for the sums, and `NestedWithin` for
  the recursion of `Nested`.

* `TreeAlwaysFollowsLines` - `TreeFollowsLines`: for any package, however deep its conditions
  nest, whatever is true on the device, and for any languages and options.

The last is the longest argument of the project, so here it is at more length.
`InstallsAsWritten` is about the finished tree only; `BuiltInv` says at every line what
the tree is so far. There are functions from line numbers: `base` gives the arrays of
the block that a line has opened, `home` the block in which a file or a condition
stands, `chain` the list of SISElseIfs of a condition, `branches` the lines that have
begun a block of it, in order, and `stack` the lines whose blocks are open. `Built`
(`DataLemmas`) says with them that each array holds exactly what it should: files and
packages of the lines whose home it is (`Holding`), the SISIfs of conditions inside it,
and a SISElseIf for each further branch (`Skeleton`), and that `gCur` and `gStacks` are
the arrays of the open blocks (`InHand`, `Stacked`). One lemma per kind of line extends
the functions: `IfBuilds`, `ElseBuilds`, `EndIfBuilds`, `FileBuilds`, `ComponentBuilds`,
`OptionBuilds`, and for language blocks, which are built over several steps with the
SISIf in hand before it is added, `FirstLanguageBuilds` and `OtherLanguageBuilds`. The
reference counts lines, and the generator pushes and pops; the lemmas about `Depth`,
`SameGroup`, `Earlier` and `Around` bring the two together. At the end, the blocks that
the installer reaches are those all of whose conditions are the first true ones, from
the outside in (`Entered`, `Reaches`, `InstalledByTreeIs`), and for a line that is the
same as `LineTaken` (`LineTakenIs`, `BuiltMeansLines`). For `OffersAsWritten`,
`NamePlace` is the arithmetic of the two reversals, `OptionNamesAre` says that each line
adds its names in order, and `OptInv` that the lines before have theirs.

The last six have a hypothesis about the directory to begin with, which they prove to
stay true: `FilesRecorded`, `EmbeddedIntact`, and both with `FilesNest` (there are data,
the outermost index is zero, and what is embedded is sound), which make
`DirectorySound`. For `TreeAlwaysFollowsLines` it is `UidsAgree`: the UID in the header
of a SIS file is that of its controller. `LoadSISFile` compares the header with the
package line, an installer sees the controller. makesis checks none of it in a package
that it embeds, so a wrong package of another tool would be embedded with its mistakes.
The package of another tool in the runs is sound in each of these senses. What both
programs do to the files at each step is summed up once, in `AllStep`: a new file is the
one that makesis has collected (`FileMade`) or the one that signsis holds
(`FileSigned`). The other assumptions are `PackagesAssumption`, that the parser has
stored the packages (its conditions, language blocks and options are the theorems
`ConditionsAreClosed`, `LanguageGroupsAreWhole` and `StringsCounted` below),
`NestingAssumption`, that the bound is a number, and `ConditionsAssumption`, that the
conditions of IF lines are not the ones that the generator makes up for languages:
`Conditions` stands for expressions whose truth is free.

`PkgParser_proofs` proves for PKG files of any length, any languages, names and files:

* `StringsCounted` - `StringsPerLanguage`.  The invariant `WriterInv` adds what makes
  it inductive: dependencies are stored only behind a header (otherwise a language
  line could still come and change what they are counted by), and the lists are
  proper lists.  `LanguagesChange` is the heart: when the number of languages
  changes, it was zero, and so were all counts.  `LanguageLines` shows that patching
  a language block leaves every options line alone.
* `ConditionsAreClosed` - `ConditionsClosed`.  The property counts openings and
  closings over all lines, while the parser keeps a stack of flags.  `NestInv` relates
  them: the depth of the last line is the height of the stack, and where a flag is
  not set, the condition that is open at that depth has no ELSE yet (`ElseRead`).  A
  new line changes the depth by one at most (`Deeper`) and leaves the depths before
  it alone.
* `LanguageGroupsAreWhole` - `LanguageGroupsWhole`.  A block is stored line by line and
  then patched from the newest line backwards; `LanguageInv` adds that the lines of
  blocks are a multiple of the number of languages, so that the next block starts a
  group of its own.  While that number can still change there is no block yet.

`ParserInv` holds all of it together.  The assumption is `ItemsAssumption`: the lexer
returns lists of strings, and a language line has at least one language and no more
than a `WORD` counts.

`MakeSis_proofs` proves for any number of processes, directories, names and pieces
`MTypeCorrect`, `MDirectoriesUnique`, `MReadsOwnCopy` and `MNoStrayDirectory`.  The
invariant: variables are set where the code sets them (`Flow`), files are in
directories that exist (`EntriesInDirs`), and, while nobody was turned away, the
directory of a process at work exists, is no other's, and holds at most its own copy
(`Private`).  It is needed because mkdir, the probing of the name, the creation, the
closing and the reopening are separate system calls with others in between; the
argument is that mkdir succeeds for one process only and nobody else removes the
directory, since nobody else has it as its path.  `MNoStrayDirectory` holds without
that condition: every directory and every file in it has somebody who will still
remove it or who ended without (`Holds`, `LeavesAt`), and each step of a process
either keeps its account or settles it (`KeepsAccount`).

`MakeJobs_proofs` proves for any number of slots, any finite tree of makes, any jobs,
prerequisites and command lines, with or without `-k`, `-l`, `.NOTPARALLEL`, failing
forks and signals:

* `JobsTypeCorrect` - `JobsTypeOK`,
* `TokensAreConserved` - `TokensConserved`,
* `SlotsAreEnough` - `NeverMoreThanSlots`,
* `NobodyIsLeftBehind` - `NobodyLeftBehind`,
* `PrerequisitesAreFirst` - `PrerequisitesFirst`,
* `ExitStatusTells` - `ExitTells`,
* `NoInternalErrors` - no make gets to one of the two internal errors of `job.c`.

A step of a make touches its own variables and jobs only, or those of the make that
it starts or ends (`OthersKept`); so what holds of each make alone (`Local`: `FlowOf`,
`ChainsOf`, `SlotsOf`, `TargetsOf`, `PassOf`, `LinesOf`) survives the steps of the others.
`SlotsOf` is what tokens hang on: `jobserver_tokens` is the length of both chains
plus the job that `new_job` is about to start.  `Balance` sums up over all makes; it is
kept because each step moves one make's count by as much as it moves the pipe
(`Accounts`, `MadeUp`).  A make is started by one command line and once
(`StartedOnce`).  `SlotsAreEnough` then counts: a running command is given a token
of the pipe or the free slot of its make, and the free slot of a make below the first
is given back by the command that the make is, which gives an injection.  `Reasons`
follows why a target failed from make to make.  The assumptions are in
`JobsAssumption`: the sets of makes and jobs are finite, there are at least two slots,
and each build is one (`IsBuild`): a target belongs to one make, prerequisites are
considered before what needs them, and a make is one line of one target.

`MakeUpdate_proofs` proves for any files and makefiles, with prerequisites of any number and
in any order, cycles and order-only ones included, with or without `-k` and `-B`, for any
`-j`, files of any age and any commands that fail:

* `PrerequisitesAreReady` - `PrerequisitesReady`,
* `CommandsRunOnce` - `CommandsOnce`,
* `SuccessMeansUpToDate` - `SuccessIsUpToDate`,
* `NothingIsRunNeedlessly` - `NothingNeedless`,
* `NoIntermediateLeft` - `IntermediatesGone`.

The first two rest on the inductive invariant `UpdateInv`.  Neither property is inductive:
whether the commands of a file may be started was decided over many calls of `check_dep`,
in this pass or an earlier one, while jobs ended in between.  `StackOk` follows the calls:
every frame below the top waits for the one above it (`Nested`), the files on the stack are
different ones and are those that `updating` says, and all prerequisites up to the one at
hand have been visited, and are done where the frame says neither that one is still running
nor that one has failed (`FrameOk`).  What a frame will conclude depends on the answer it
gets, which `TopAnswered` relates to the state of the file that was asked for.
`StatesAgree` says that `command_state`, `update_status`, `updated` and the jobs that run
tell the same story, with `runs` as its count, and `JobsReady` that every prerequisite
that is left of a running target is done.  The subtle part is `considered`: a file that has been considered in this pass
is not looked at again, and the callers take that for success.  `PassOk` says why that is
right: what was never visited is not marked, so that in the first pass only visited files
are skipped; from the second pass on, when the mark of an unvisited file would count as
one, only visited files are met, since the goals and the prerequisites of whatever waits
have been visited.  A dropped edge of a cycle takes a prerequisite out of the
list that all of this is about, and the positions behind it move (`WithoutOne`).
`OrdinaryMakefiles` is the assumption: no intermediate files, and no commands that make
several targets.  Those are left to TLC.

The next two are about times, and rest on `BuildInv`, which adds them to `UpdateInv`.  What
make remembers of a time is what is on disk, or it asks again (`TimesKnown`).  A file that
is done has done prerequisites and is not older than them (`UpToDate`), and commands were
run for a reason (`Justified`); both stay, because a file that is done is never written
again and the commands of a file write that file only.  The reason is found one
prerequisite at a time, and some of these are made in between: `MustTells` says of each
call of `update_file_1` that `must_make` holds exactly if its file was missing when it was
called or a prerequisite behind it is newer, as the disk is now, as long as none of them runs or has
failed.  `CallsOk` hands this down the stack, since `check_dep` is told the time of the
file and answers for one prerequisite (`NewerAnswered`).  A prerequisite dropped in a cycle
is one that some other call is considering.  Success, finally: make exits with 0 if every
goal was finished without an error, but nothing in the code then looks at the other files.
`GoalsLeft` keeps that only what the goals reach has been touched (`Reached`, by the closed
sets that hold the goals), and `PassTimes` concludes that all of it is done, because what
is done is closed under prerequisites.  So no failure of an earlier pass is hidden
(`AllDone`), also with `-k`.  These two also assume that the set of files is finite.

`NoIntermediateLeft` assumes `OwnIntermediates` instead: no other commands write an
intermediate file.  Then a file whose `update_status` is unset has not been written
(`UntouchedAsBefore`), and the others are removed.

`Elf2E32Library_proofs` proves for any names, ELF files, .def files and number of
builds:

* `LibTypeCorrect` and `LinkedProgramsAlwaysResolve` - `LinkedProgramsResolve`.  What
  programs were linked to is frozen (`GoodDso`, `Linked`); what is frozen stays frozen,
  because the .def file that a build writes has every frozen name at its ordinal
  (`Good`, `GoodImage`); a build puts every frozen name at its ordinal before
  it adds others (`Placed`, `Backed`), and gets as far as an image only when each has
  an address (`Checked`).  `SortKeeps`, `PlaceKeeps` and `AddKeeps` are the lemmas about
  the list.
* `SortAlwaysComparesNames` - `SortComparesNames`: what is added behind the preset
  ordinals has a name.
* `FreezeAlwaysKeeps` - `FreezeKeeps`.  `SInv` follows a recorded size from its line to
  the list (`SizesPlaced`) and to the .def file that is written (`SizesWritten`),
  past the later lines for other ordinals and past what the ELF file says.
* `DsoAlwaysMatchesImage` - `DsoMatchesImage`.  `writeDso` threads the symbols into
  chains one after the other; by induction over them each bucket leads to its last
  symbol and each symbol to the one before it in its bucket (`Threaded`), so that
  following a chain meets them all (`ChainIsBucket`).  `DInv` carries the rest over builds and crashes: the .dso on
  disk is sound and agrees with the image (`DsoSound`), a complete image means that
  the frozen ordinals had no holes (`NoHoles`), and between the .dso and the image
  the list does not change (`DsoOfBuild`, if this run has written the .dso).  A .dso
  that was left alone agrees with later images because its frozen ordinals are in
  every later .def file (`DsoFrozen`); which of the two is older is a matter of the
  numbers of their runs (`BuildNumbers`).

The assumptions are `InputsAssumption`: no two lines of the first .def file and of
`--sysdef` give one ordinal to two names; and `HashAssumption`: a hash is a natural
number.

`Crc_proofs` proves for every width, byte size and polynomial and for messages of any
length (the program's 16 bits, 8 bits and 0x1021 are an instance that TLC could not
go through):

* `FastIsAlwaysSlow` - `FastIsSlow`.  Dividing is linear: `DivideByte` of an exclusive or
  is the exclusive or of both results, turn by turn.  The low bits of a register
  leave it only by the shift (`LowBitsShift`), so dividing a register is the table
  entry of its top byte and the rest shifted (`TableDividesByte`).
* `SlowIsAlwaysRemainder` - `SlowIsRemainder`.  Registers and messages are polynomials
  over the field of two elements.  A turn multiplies by the variable and takes away
  the generator where a bit leaves the register (`DivideBitTakes`); so register and
  message differ by a multiple of the generator, and still do after a turn
  (`TurnKeepsMultiple`, with `ProductGrows` for the quotient's next bit, by counting
  pairs of exponents) and after a byte (`LoopKeepsMultiple`).

`DataLemmas` is what these inductions rest on, besides its lemmas about lists, lines and
trees.  The library's induction theorems
take the statement as an operator, which the provers cannot instantiate; here it is
a set.  `SetInduction`: a set that has zero and with each number up to a bound the
next one has all of them, from the well-foundedness of the naturals.
`RecursionExists`: a function that follows a recursive rule up to a bound exists, so
that what a recursive function definition chooses does follow it.

**Only model-checked.**  Liveness is out of the prover's reach (`BothTerminate`,
`RunEnds`, `EveryMakeEnds`, `MakeEnds`), and so is the fairness part of
`SigningPromise`.  Also: the layout of images (`LoadedAsLinked`, `ImportsAsLinked`,
`PartsTile`), whose model sums up with folds over sets; and of `MakeUpdate`,
`AgainRunsNothing`, which compares two runs of make, and the others for the makefiles
that the theorems leave out.

## 5. What is not modelled

* The byte layout of SIS fields, padding and 32-bit lengths, and the reading of
  damaged files.  `len -= 16` in both loaders wraps around for a file shorter than
  its header; in the model an incomplete file cannot be loaded.  So `EmbeddedIntact` and
  `NestedPackagesSound` show nothing for a makesis that takes half of a file for a whole
  one while signsis writes it.
* Two programs that write the same file at once and mix their bytes: a file is
  complete when the last one to write it has closed it.
* An output that signsis cannot open (it would then write to a null `FILE*`).
* A file line with an empty source that is not of type FN: the parser lets it
  pass and the generator would add a null pointer to the data.
* Version numbers, names, dependencies, properties, time stamps and the
  capabilities that are read out of executables: copied, without control.
* The lexer, the grammar of expressions behind IF and ELSEIF, and destinations and
  versions in the parser.  A syntax error within an item throws
  `ErrUnexpectedToken`, as a wrong number of names does, which stands for them all.
* What a failing item has stored before it throws: nobody reads it.
* Sources that change while makesis runs: a file is read once for its data and once
  for its hash (`sisfilegen.cpp` 276), and an embedded package once for its UID and
  once for its contents (`parsepkg.cpp` 894).
* In elf2e32: the search for libraries in several directories, compression, the
  capabilities and version fields of the header, and the small tools.
* In make: double-colon rules, VPATH, archives, `-n`, `-t`, `-q`, the reading of
  makefiles and implicit rules; remote jobs; a fatal signal between a wait and the
  removal of the child from its list (`commands.c` 488), since a signal is taken
  between two iterations of `reap_children`; a build that starts in the very tick in
  which its targets were written, where `-k` may then not ask again for an
  intermediate file that could not be made (`remake.c` 979).
* `mifconv`, the AIF tools, `svgtbinencode`, `makekeys` and the dump tools: filters of
  one pass whose correctness is a byte format.  Vendored releases (`petran`, `rcomp`,
  `bmconv`, `makesis-2`, `getexports`' libelf, deflate, expat) and the SDK scripts.  They
  are most of the repository's lines, so the share of it that the map covers is
  small and stays so.

## 6. Plan

1. *Front end of makesis.*  `PkgConditions` (`ParseExpr` to `ParseFactor`,
   1424-1635: AND and OR recurse to the right and have no precedence, against a
   reference reading); a composition of `PkgParser` with `SISFileGen`, so that the
   generator runs on what the parser stored.
2. *Other tools.*  Offsets and sizes in MIF files (`mifconv.cpp`); `genstubs` and
   `getexports` against `ExportList`.
3. *make.*  `MakeJobs` under `MakeUpdate`, in place of the jobs that just end; implicit
   rules.
4. *Proofs.*  `AgainRunsNothing` of `MakeUpdate`, which needs that both runs drop the same
   prerequisites; its other properties with intermediate files; `PartsTile` and `ImportsAsLinked` of
   `E32Image`, with lemmas for its folds.
