----------------------------- MODULE PkgParser -----------------------------
(***************************************************************************)
(* CParsePkg (makesis-4/src/parsepkg.cpp) filling CSISWriter (crtsis.cpp). *)
(*                                                                         *)
(* A PKG file is a sequence of items, one for each call of a Parse         *)
(* function: the parser reads an item, checks it against what it has       *)
(* stored, and stores it or throws.  The recursion of ParseIfBlockL and    *)
(* ParseEmbeddedBlockL is the stack pBlocks: for each condition that is    *)
(* open, whether its ELSE has been read.                                   *)
(*                                                                         *)
(* The lists of CSISWriter have their newest element first.  An item's     *)
(* strings are kept; destinations, versions and options of files are not.  *)
(***************************************************************************)
EXTENDS PkgLines

CONSTANTS
  Items,         (* what may stand in a PKG file *)
  MaxItems,      (* bound: items of one file *)
  Existing,      (* the files that DoesExist finds *)
  SisNames,      (* the names that end in .sis *)
  KLangOptions,  (* the language codes *)
  UidOf(_)       (* the UID in the third word of a file *)

ASSUME MaxItemsAssumption == MaxItems \in Nat

WORD == 0 .. 2 ^ 16 - 1

(* What the lexer hands over: lists of strings, at least one language, and *)
(* no more than the WORD m_wNumLangs can count.                            *)
LexedItem(it) ==
  /\ it.item = "languages" => it.langs \in Seq(STRING) /\ Len(it.langs) \in WORD \ {0}
  /\ it.item \in {"header", "localizedVendor", "dependency", "platformDependency"} =>
       it.names \in Seq(STRING)
  /\ it.item = "options" => it.groups \in Seq(Seq(STRING))
  /\ it.item \in {"langFiles", "langPackages"} => it.srcs \in Seq(STRING)
  /\ it.item = "capability" => it.pairs \in Seq(Nat)

ASSUME ItemsAssumption == \A it \in Items : LexedItem(it)

VARIABLES
  pState,        (* "parsing"; then "parsed", or "error" when ParseL throws *)
  pError,        (* the exception thrown *)
  pStub,         (* m_stubFile *)
  pEnough,       (* m_enoughForStub *)
  pBlocks,       (* the conditions that are open, the innermost last *)
  pRead,         (* items read, for the bound *)
  w              (* the CSISWriter *)

pVars == <<pState, pError, pStub, pEnough, pBlocks, pRead, w>>

Empty == << >>

EmptyWriter ==
  [languages |-> Empty, langStrings |-> Empty, localizedVendor |-> Empty,
   vendorName |-> FALSE, logos |-> Empty, lines |-> Empty, uid |-> 0,
   depends |-> Empty, platformDepends |-> Empty, capabilities |-> Empty]

PInit ==
  /\ pState = "parsing"
  /\ pError = "none"
  /\ pStub \in BOOLEAN
  /\ pEnough = FALSE
  /\ pBlocks = Empty
  /\ pRead = 0
  /\ w = EmptyWriter

-----------------------------------------------------------------------------
(***************************************************************************)
(* CSISWriter.  The nodes of new, added one by one to the front of list.   *)
(***************************************************************************)
AddNodes(new, list) ==
  [i \in 1 .. Len(new) + Len(list) |->
     IF i <= Len(new) THEN new[Len(new) + 1 - i] ELSE list[i - Len(new)]]

AddNode(node, list) == AddNodes(<<node>>, list)

(* As if a second language line added to the first. *)
AreLanguagesInitNever == FALSE

AreLanguagesInit == w.languages # Empty

AreLangStringInit == w.langStrings # Empty

AreLocalizedVendorNamesInit == w.localizedVendor # Empty

GetNoLanguages == Len(w.languages)

(* A header or a vendor line before any language line declares English. *)
ELangEnglish == "EN"

LanguagesOrEnglish == IF AreLanguagesInit THEN w.languages ELSE <<ELangEnglish>>

IsLanguage(lang) == lang \in KLangOptions

(* The node of a file in a language block, before its destination is known. *)
LanguageNode(type, src) ==
  [kind |-> "LanguageFile", type |-> type, src |-> src, uid |-> 0, dest |-> FALSE]

(* As if the counter were raised before it is compared. *)
SetLangDependDestinationsLess(lines, type, uid) ==
  [i \in 1 .. Len(lines) |->
     IF i < GetNoLanguages
     THEN [lines[i] EXCEPT !.kind = "LanguageFile", !.type = type, !.uid = uid,
                           !.dest = TRUE]
     ELSE lines[i]]

(* SetLangDependFileDestinations and SetLangDependCompDestinations patch   *)
(* as many lines, from the newest on, as there are languages.              *)
SetLangDependDestinations(lines, type, uid) ==
  [i \in 1 .. Len(lines) |->
     IF i <= GetNoLanguages
     THEN [lines[i] EXCEPT !.kind = "LanguageFile", !.type = type, !.uid = uid,
                           !.dest = TRUE]
     ELSE lines[i]]

-----------------------------------------------------------------------------
(***************************************************************************)
(* What an item must satisfy, in the order in which the parser finds out.  *)
(***************************************************************************)
(* The items that ParseEmbeddedBlockL takes, anywhere in the file. *)
EmbeddedItems ==
  {"file", "package", "options", "langFiles", "langPackages", "capability",
   "if", "comment"}

(* The items of ParseL's own switch, which no condition may contain. *)
TopItems ==
  {"languages", "header", "dependency", "platformDependency", "signature",
   "localizedVendor", "vendor", "logo"}

NeedsHeader ==
  {"file", "package", "dependency", "platformDependency", "signature",
   "capability", "langFiles", "langPackages"}

(* As if ELSE were one more alternative of the loop. *)
IfItemsInLoop == IF pBlocks = Empty THEN {} ELSE {"elseif", "else", "endif"}

(* ParseIfBlockL: ELSEIF and ELSE until there was an ELSE, then ENDIF. *)
IfItems ==
  CASE pBlocks = Empty                -> {}
    [] pBlocks # Empty /\ ~ pBlocks[Len(pBlocks)] -> {"elseif", "else", "endif"}
    [] OTHER                          -> {"endif"}

Allowed == EmbeddedItems \cup IfItems \cup (IF pBlocks = Empty THEN TopItems ELSE {})

DoesExist(src) == src \in Existing

(* The names of the items that list one name for each language. *)
NamesOf(it) ==
  CASE it.item \in {"header", "localizedVendor", "dependency", "platformDependency"} ->
         {it.names}
    [] it.item = "options" -> {it.groups[g] : g \in 1 .. Len(it.groups)}
    [] it.item \in {"langFiles", "langPackages"} -> {it.srcs}
    [] OTHER -> {}

(* One name for each language: otherwise a comma or bracket is missing. *)
LanguagesAt(it) ==
  IF it.item \in {"header", "localizedVendor"} THEN Len(LanguagesOrEnglish)
                                               ELSE GetNoLanguages

(* The files that an item names and the parser looks for.  A file line may *)
(* have an empty source.                                                   *)
SourcesOf(it) ==
  CASE it.item = "file" -> IF it.src = "" THEN {} ELSE {it.src}
    [] it.item \in {"package", "logo"} -> {it.src}
    [] it.item \in {"langFiles", "langPackages"} ->
         {it.srcs[i] : i \in {j \in 1 .. Len(it.srcs) : j <= GetNoLanguages}}
    [] OTHER -> {}

(* Only texts and programs to run take options behind their type, and a    *)
(* language block has no file without a source.                            *)
BadOption(it) ==
  /\ it.item \in {"file", "langFiles"}
  /\ \/ it.options /\ it.type \notin {"Text", "Run", "Mime"}
     \/ it.item = "langFiles" /\ it.type = "Null"

Check(wrong, error) == [wrong |-> wrong, error |-> error]

Checks(it) ==
  << Check(it.item \notin Allowed,
           IF pBlocks = Empty THEN "ErrUnknownLine" ELSE "ErrUnexpectedToken"),
     Check(it.item \in NeedsHeader /\ ~ AreLangStringInit, "ErrHeaderNotDefined"),
     Check(it.item = "languages" /\ AreLanguagesInit, "ErrLanguagesAlreadyDefined"),
     Check(it.item = "languages" /\ \E i \in 1 .. Len(it.langs) : ~ IsLanguage(it.langs[i]),
           "ErrUnknownLanguagesId"),
     Check(it.item = "header" /\ AreLangStringInit, "ErrHeaderAlreadyDefined"),
     Check(it.item = "localizedVendor" /\ AreLocalizedVendorNamesInit,
           "ErrLocalizedVendorNamesAlreadyDefined"),
     Check(it.item = "vendor" /\ w.vendorName, "ErrVendorNameAlreadyDefined"),
     Check(\E s \in SourcesOf(it) : ~ DoesExist(s), "ErrFileNotFound"),
     Check(it.item = "file" /\ it.dest = ":", "ErrBadDestinationPath"),
     Check(\E names \in NamesOf(it) : Len(names) # LanguagesAt(it), "ErrUnexpectedToken"),
     Check(BadOption(it), "ErrBadOption"),
     Check(it.item = "package" /\ UidOf(it.src) # it.uid, "ErrUIDMismatch"),
     Check(it.item = "package" /\ it.src \notin SisNames, "ErrPackageNotASISFile") >>

Accepted(it) == \A i \in 1 .. Len(Checks(it)) : ~ Checks(it)[i].wrong

(* The first check to fail. *)
FirstWrong(it) ==
  {i \in 1 .. Len(Checks(it)) :
     Checks(it)[i].wrong /\ \A j \in 1 .. i - 1 : ~ Checks(it)[j].wrong}

-----------------------------------------------------------------------------
(***************************************************************************)
(* The Parse functions.                                                    *)
(***************************************************************************)
(* The next item is it, and it is accepted.  Of the syntax errors within   *)
(* an item, a wrong number of names stands for all.                        *)
Reads(it, item) ==
  /\ pState = "parsing"
  /\ ~ (pStub /\ pEnough)
  /\ pRead < MaxItems
  /\ it.item = item
  /\ Accepted(it)
  /\ pRead' = pRead + 1
  /\ UNCHANGED <<pState, pError, pStub>>

Stores(writer) == w' = writer /\ UNCHANGED <<pEnough, pBlocks>>

ParseLanguagesL(it) ==
  /\ Reads(it, "languages")
  /\ Stores([w EXCEPT !.languages = AddNodes(it.langs, @)])

ParseHeaderL(it) ==
  /\ Reads(it, "header")
  /\ Stores([w EXCEPT !.languages = LanguagesOrEnglish,
                      !.langStrings = AddNodes(it.names, @),
                      !.uid = it.uid])

ParseLocalizedVendorNamesL(it) ==
  /\ Reads(it, "localizedVendor")
  /\ Stores([w EXCEPT !.languages = LanguagesOrEnglish,
                      !.localizedVendor = AddNodes(it.names, @)])

ParseVendorNameL(it) ==
  /\ Reads(it, "vendor")
  /\ Stores([w EXCEPT !.vendorName = TRUE])

ParseLogoL(it) ==
  /\ Reads(it, "logo")
  /\ Stores([w EXCEPT !.logos = AddNode(it.src, @)])

(* A file of type FN loses its source. *)
ParseFileL(it) ==
  /\ Reads(it, "file")
  /\ Stores([w EXCEPT !.lines =
       AddNode([kind |-> "File", type |-> it.type, dest |-> TRUE, uid |-> 0,
                src |-> IF it.type = "Null" THEN "" ELSE it.src], @)])

ParsePackageL(it) ==
  /\ Reads(it, "package")
  /\ Stores([w EXCEPT !.lines =
       AddNode([kind |-> "File", type |-> "Component", dest |-> TRUE,
                src |-> it.src, uid |-> it.uid], @)])

ParseDependencyL(it) ==
  /\ Reads(it, "dependency")
  /\ Stores([w EXCEPT !.depends = AddNode(AddNodes(it.names, Empty), @)])

ParsePlatformDependencyL(it) ==
  /\ Reads(it, "platformDependency")
  /\ Stores([w EXCEPT !.platformDepends = AddNode(AddNodes(it.names, Empty), @)])

(* A signature is read and dropped; a stub needs nothing behind it. *)
ParseSignatureL(it) ==
  /\ Reads(it, "signature")
  /\ pEnough' = TRUE
  /\ UNCHANGED <<pBlocks, w>>

ParseCapabilityL(it) ==
  /\ Reads(it, "capability")
  /\ Stores([w EXCEPT !.capabilities = AddNodes(it.pairs, @)])

(* The names of all options of the block go into one list. *)
ParseOptionsBlockL(it) ==
  LET n == GetNoLanguages
      k == Len(it.groups)
  IN  /\ Reads(it, "options")
      /\ Stores([w EXCEPT !.lines =
           AddNode([kind |-> "Option", numOptions |-> k,
                    strings |-> [i \in 1 .. k * n |->
                                   it.groups[k - ((i - 1) \div n)][n - ((i - 1) % n)]]], @)])

(* ParseLanguageBlockL: the lines are added first, and then patched. *)
LanguageBlock(srcs, type, newType, uid) ==
  Stores([w EXCEPT !.lines =
    SetLangDependDestinations(
      AddNodes([i \in 1 .. Len(srcs) |-> LanguageNode(type, srcs[i])], @), newType, uid)])

ParseLanguageFiles(it) ==
  /\ Reads(it, "langFiles")
  /\ LanguageBlock(it.srcs, "Simple", it.type, 0)

(* The UID is not compared with the packages here. *)
ParseLanguagePackages(it) ==
  /\ Reads(it, "langPackages")
  /\ LanguageBlock(it.srcs, "Component", "Component", it.uid)

ParseCommentL(it) ==
  /\ Reads(it, "comment")
  /\ UNCHANGED <<pEnough, pBlocks, w>>

(* ParseConditionL: a line for the condition. *)
AddCondition(line, blocks) ==
  /\ w' = [w EXCEPT !.lines = AddNode(line, @)]
  /\ pBlocks' = blocks
  /\ UNCHANGED pEnough

Outer == SubSeq(pBlocks, 1, Len(pBlocks) - 1)

ParseIf(it) ==
  /\ Reads(it, "if")
  /\ AddCondition([kind |-> "If", cond |-> it.cond], Append(pBlocks, FALSE))

ParseElseIf(it) ==
  /\ Reads(it, "elseif")
  /\ AddCondition([kind |-> "ElseIf", cond |-> it.cond], pBlocks)

ParseElse(it) ==
  /\ Reads(it, "else")
  /\ AddCondition([kind |-> "Else"], Append(Outer, TRUE))

ParseEndIf(it) ==
  /\ Reads(it, "endif")
  /\ AddCondition([kind |-> "EndIf"], Outer)

(* A check fails: CMakeSIS::ParseSource catches, reports, and gives up.    *)
(* Nobody reads what the failing item has stored already.                  *)
ParseThrows(it) ==
  /\ pState = "parsing"
  /\ ~ (pStub /\ pEnough)
  /\ pRead < MaxItems
  /\ \E i \in FirstWrong(it) : pError' = Checks(it)[i].error
  /\ pState' = "error"
  /\ pRead' = pRead + 1
  /\ UNCHANGED <<pStub, pEnough, pBlocks, w>>

(* The end of the file, or enough of it for a stub. *)
ParseEnds ==
  /\ pState = "parsing"
  /\ pBlocks = Empty
  /\ pState' = "parsed"
  /\ UNCHANGED <<pError, pStub, pEnough, pBlocks, pRead, w>>

(* The end of the file inside a condition: ENDIF is expected. *)
ParseEndsInside ==
  /\ pState = "parsing"
  /\ pBlocks # Empty
  /\ pState' = "error"
  /\ pError' = "ErrUnexpectedToken"
  /\ UNCHANGED <<pStub, pEnough, pBlocks, pRead, w>>

ParseItem(it) ==
  \/ ParseLanguagesL(it) \/ ParseHeaderL(it) \/ ParseLocalizedVendorNamesL(it)
  \/ ParseVendorNameL(it) \/ ParseLogoL(it) \/ ParseFileL(it) \/ ParsePackageL(it)
  \/ ParseDependencyL(it) \/ ParsePlatformDependencyL(it) \/ ParseSignatureL(it)
  \/ ParseCapabilityL(it) \/ ParseOptionsBlockL(it)
  \/ ParseLanguageFiles(it) \/ ParseLanguagePackages(it) \/ ParseCommentL(it)
  \/ ParseIf(it) \/ ParseElseIf(it) \/ ParseElse(it)
  \/ ParseEndIf(it) \/ ParseThrows(it)

PNext == (\E it \in Items : ParseItem(it)) \/ ParseEnds \/ ParseEndsInside

PSpec == PInit /\ [][PNext]_pVars

-----------------------------------------------------------------------------
(* The types of the parser's state and of the lists it fills. *)
PTypeOK ==
  /\ pState \in {"parsing", "parsed", "error"}
  /\ pStub \in BOOLEAN /\ pEnough \in BOOLEAN
  /\ pRead \in 0 .. MaxItems
  /\ pBlocks \in Seq(BOOLEAN)
  /\ DOMAIN w = DOMAIN EmptyWriter
  /\ w.languages \in Seq(KLangOptions \cup {ELangEnglish})
  /\ \A i \in 1 .. Len(w.lines) :
       w.lines[i].kind \in {"File", "LanguageFile", "Option",
                            "If", "ElseIf", "Else", "EndIf"}

(* Everything that is written once per language - package names, vendor   *)
(* names, the names of dependencies - has exactly one string for each      *)
(* language of the finished package, however languages, header and vendor  *)
(* lines are ordered and whether or not English was assumed (parsepkg.cpp  *)
(* ParseLanguagesL, ParseHeaderL, ParseLocalizedVendorNamesL): the         *)
(* generator pairs the lists by position.  A list of options has them too, *)
(* or was read before any language was known and has none.                 *)
StringsPerLanguage ==
  /\ Len(w.langStrings) \in {0, GetNoLanguages}
  /\ Len(w.localizedVendor) \in {0, GetNoLanguages}
  /\ \A i \in 1 .. Len(w.depends) : Len(w.depends[i]) = GetNoLanguages
  /\ \A i \in 1 .. Len(w.platformDepends) :
       Len(w.platformDepends[i]) = GetNoLanguages
  /\ \A i \in 1 .. Len(w.lines) :
       w.lines[i].kind = "Option" =>
         Len(w.lines[i].strings) \in {0, w.lines[i].numOptions * GetNoLanguages}

InOrder == AddNodes(w.lines, Empty)

(* While conditions nest and fail to, the lines stored so far open and    *)
(* close as the parser's recursion has it, and a package that is parsed    *)
(* without an error has every condition closed, and no ELSEIF or ELSE      *)
(* behind an ELSE (parsepkg.cpp ParseIfBlockL, ParseEmbeddedBlockL).  The  *)
(* stacks of GenerateSISFile rely on it: they are popped unchecked.        *)
ConditionsClosed ==
  /\ PTypeOK
  /\ NestedSoFar(InOrder)
  /\ Depth(InOrder, Len(InOrder)) = Len(pBlocks)
  /\ pState = "parsed" => WellNested(InOrder)

(* The lines of language blocks come in whole groups of one line for each  *)
(* language, all of them patched with their destination, and patching has  *)
(* touched no other line (parsepkg.cpp ParseLanguageBlockL, crtsis.cpp     *)
(* SetLangDependFileDestinations).  GenerateSISFile takes a line for each  *)
(* language off the stack without looking at it.                           *)
LanguageGroupsWhole ==
  /\ LanguageBlocksWhole(InOrder, GetNoLanguages)
  /\ \A i \in 1 .. Len(w.lines) :
       w.lines[i].kind = "LanguageFile" => w.lines[i].dest

(* The message for ErrLanguagesNotDefined, "languages have not been        *)
(* defined yet", says that what is listed per language needs the languages *)
(* first: every option of a parsed package has a name for each of them     *)
(* (parsepkg.cpp ParseOptionsBlockL).                                      *)
OptionsNamed ==
  \A i \in 1 .. Len(w.lines) :
    w.lines[i].kind = "Option" =>
      Len(w.lines[i].strings) = w.lines[i].numOptions * GetNoLanguages

=============================================================================
