---------------------------- MODULE PkgSemantics ---------------------------
(***************************************************************************)
(* What the lines of a PKG file mean, and that the install block built by  *)
(* GenerateSISFile means the same.                                         *)
(*                                                                         *)
(* makesis explains the conditions in its help text (makesis.cpp           *)
(* ShowSyntax): the files of an ELSEIF or ELSE block are installed if no   *)
(* block before it was and its own condition is true.  That reading, line  *)
(* by line and without a tree, is the reference; the other side is an      *)
(* installer that walks the tree of arrays.                                *)
(***************************************************************************)
EXTENDS SISFileGen

CONSTANT Conditions    (* the conditions that appear in IF and ELSEIF lines *)

(* They stand for expressions of the PKG file, not for the conditions that *)
(* the generator makes up for languages.                                   *)
ASSUME ConditionsAssumption ==
  \A pkg \in Packages : \A i \in 1 .. Len(pkg.languages) :
    LanguageIs(pkg.languages[i]) \notin Conditions

(* A valuation: which conditions are true on the device, and its language. *)
Valuations(languages) ==
  [true : SUBSET Conditions, language : {languages[i] : i \in 1 .. Len(languages)}]

-----------------------------------------------------------------------------
(***************************************************************************)
(* The lines.                                                              *)
(***************************************************************************)
LineHolds(line, v) == line.kind = "Else" \/ Holds(line.cond, v)

BlockTaken(lines, k, v) ==
  /\ LineHolds(lines[k], v)
  /\ \A j \in Earlier(lines, k) : ~ LineHolds(lines[j], v)

(* A language that is named twice has the first of its lines.              *)
SlotTaken(languages, i, v) ==
  languages[i] = v.language /\ \A j \in 1 .. i - 1 : languages[j] # v.language

LineTaken(lines, n, languages, v) ==
  /\ lines[n].kind \in {"File", "LanguageFile"}
  /\ lines[n].kind = "LanguageFile" =>
       SlotTaken(languages, LanguageSlot(lines, n, languages), v)
  /\ \A k \in Around(lines, n) : BlockTaken(lines, k, v)

(* A package is known by its UID: its file may have been replaced since. *)
Installs(line) ==
  IF IsComponent(line) THEN [package |-> line.uid]
  ELSE [file |-> FileDescription(gArgs.pkg, line.src, 0).hash]

InstalledByLines(lines, languages, v) ==
  {Installs(lines[n]) : n \in {m \in 1 .. Len(lines) :
                                 LineTaken(lines, m, languages, v)}}

-----------------------------------------------------------------------------
AllLines == Reverse(gArgs.pkg.lines)

AllLinesDone == gpc = "lines" /\ gLines = << >>

CurrentRoot == [files |-> gCur.files, embedded |-> gCur.embedded, ifs |-> gCur.ifs]

(* What an installer does when it walks the finished install block.        *)
InstallsAsWritten ==
  \A v \in Valuations(Languages) :
    InstalledByTree(gArrays, CurrentRoot, v)
      = InstalledByLines(AllLines, Languages, v)

SourceName(line, o, l) ==
  Reverse(line.strings)[(o - 1) * Len(Languages) + l]

OptionsOf(line) ==
  IF line.kind = "Option"
  THEN [o \in 1 .. line.numOptions |->
          [l \in 1 .. Len(Languages) |-> SourceName(line, o, l)]]
  ELSE << >>

(* The options that an installer offers, after the two reversals.          *)
OffersAsWritten ==
  gOptions = FlattenSeq([n \in 1 .. Len(AllLines) |-> OptionsOf(AllLines[n])])

(* However conditions nest, and whatever is true on the device, walking    *)
(* the finished install block installs exactly the files and packages of   *)
(* the lines whose conditions say so, and offers the options in the order  *)
(* of the PKG file, option by option and language by language; on the way  *)
(* no array gets an element of another type, at which AddElement aborts    *)
(* (sisfilegen.cpp GenerateSISFile).                                       *)
TreeFollowsLines ==
  /\ GenTypeOK
  /\ AllLinesDone => InstallsAsWritten /\ OffersAsWritten

=============================================================================
