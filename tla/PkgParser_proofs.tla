-------------------------- MODULE PkgParser_proofs -------------------------
(***************************************************************************)
(* For every PKG file, of any length and with any strings: what is listed  *)
(* per language has one entry for each language, conditions are closed in  *)
(* what the generator gets, and the lines of language blocks come in whole *)
(* groups.  The last two follow the lines in the order of the file; an     *)
(* item adds no line, one that fits where the recursion of ParseIfBlockL   *)
(* stands, or a block of as many lines as there are languages.             *)
(***************************************************************************)
EXTENDS PkgParser, FiniteSetTheorems, SequenceTheorems, TLAPS

(* A list is a function from 1 .. n. *)
IsNodes(s) == Len(s) \in Nat /\ s = [i \in 1 .. Len(s) |-> s[i]]

(* The strings of the options among lines, for n languages. *)
OptionStrings(lines, n) ==
  \A i \in 1 .. Len(lines) :
    lines[i].kind = "Option" =>
      /\ lines[i].numOptions \in Nat
      /\ Len(lines[i].strings) \in {0, lines[i].numOptions * n}

(* The names of the dependencies in a list, for n languages. *)
DependNames(depends, n) ==
  \A i \in 1 .. Len(depends) : Len(depends[i]) = n

(* What else has to be true for StringsPerLanguage to be kept: nothing is  *)
(* counted by languages before there are any.                              *)
WriterInv(wr) ==
  /\ DOMAIN wr = DOMAIN EmptyWriter
  /\ IsNodes(wr.languages) /\ IsNodes(wr.langStrings) /\ IsNodes(wr.localizedVendor)
  /\ IsNodes(wr.depends) /\ IsNodes(wr.platformDepends) /\ IsNodes(wr.lines)
  /\ Len(wr.langStrings) \in {0, Len(wr.languages)}
  /\ Len(wr.localizedVendor) \in {0, Len(wr.languages)}
  /\ Len(wr.depends) > 0 \/ Len(wr.platformDepends) > 0 => Len(wr.langStrings) > 0
  /\ DependNames(wr.depends, Len(wr.languages))
  /\ DependNames(wr.platformDepends, Len(wr.languages))
  /\ OptionStrings(wr.lines, Len(wr.languages))

-----------------------------------------------------------------------------
(* A string list from the lexer is a list. *)
LEMMA SeqIsNodes ==
  ASSUME NEW S, NEW s \in Seq(S)
  PROVE  IsNodes(s)
  BY DEF IsNodes

(* A list is empty exactly when its length is 0. *)
LEMMA EmptyIsZero ==
  ASSUME NEW s, IsNodes(s)
  PROVE  s = Empty <=> Len(s) = 0
  <1>1. ASSUME Len(s) = 0 PROVE s = Empty
    BY <1>1 DEF IsNodes, Empty
  <1> QED BY <1>1 DEF Empty

(* Adding nodes to the front of a list adds their number to its length,    *)
(* and keeps the old elements, further back.                               *)
LEMMA AddNodesIs ==
  ASSUME NEW new, NEW list, IsNodes(new), IsNodes(list)
  PROVE  /\ IsNodes(AddNodes(new, list))
         /\ Len(AddNodes(new, list)) = Len(new) + Len(list)
         /\ \A i \in 1 .. Len(new) + Len(list) :
              AddNodes(new, list)[i] =
                IF i <= Len(new) THEN new[Len(new) + 1 - i] ELSE list[i - Len(new)]
  BY DEF AddNodes, IsNodes

(* The same for a single node. *)
LEMMA AddNodeIs ==
  ASSUME NEW node, NEW list, IsNodes(list)
  PROVE  /\ IsNodes(AddNode(node, list))
         /\ Len(AddNode(node, list)) = Len(list) + 1
         /\ \A i \in 1 .. Len(list) + 1 :
              AddNode(node, list)[i] = IF i = 1 THEN node ELSE list[i - 1]
         /\ AddNode(node, list) # Empty
  <1> DEFINE new == <<node>>
  <1>1. IsNodes(new) /\ Len(new) = 1 /\ new[1] = node /\ Len(list) \in Nat
    BY DEF IsNodes
  <1>2. AddNode(node, list) = AddNodes(new, list)
    BY DEF AddNode
  <1> HIDE DEF new
  <1>3. /\ IsNodes(AddNode(node, list))
        /\ Len(AddNode(node, list)) = Len(list) + 1
        /\ \A i \in 1 .. Len(list) + 1 :
             AddNode(node, list)[i] = IF i = 1 THEN node ELSE list[i - 1]
    <2>1. /\ IsNodes(AddNodes(new, list))
          /\ Len(AddNodes(new, list)) = Len(new) + Len(list)
          /\ \A i \in 1 .. Len(new) + Len(list) :
               AddNodes(new, list)[i] =
                 IF i <= Len(new) THEN new[Len(new) + 1 - i] ELSE list[i - Len(new)]
      BY <1>1, AddNodesIs
    <2> QED BY <1>1, <1>2, <2>1
  <1> QED BY <1>1, <1>3, EmptyIsZero

(* The names that an item lists. *)
LEMMA ItemNames ==
  ASSUME NEW it \in Items
  PROVE  /\ it.item \in {"header", "localizedVendor", "dependency", "platformDependency"}
              => it.names \in Seq(STRING) /\ NamesOf(it) = {it.names}
         /\ it.item = "options" =>
              /\ it.groups \in Seq(Seq(STRING))
              /\ NamesOf(it) = {it.groups[g] : g \in 1 .. Len(it.groups)}
         /\ it.item \in {"langFiles", "langPackages"} =>
              it.srcs \in Seq(STRING) /\ NamesOf(it) = {it.srcs}
         /\ it.item = "languages" => it.langs \in Seq(STRING)
  <1>1. LexedItem(it)
    BY ItemsAssumption
  <1>2. /\ it.item \in {"header", "localizedVendor", "dependency", "platformDependency"}
             => it.names \in Seq(STRING)
        /\ it.item = "options" => it.groups \in Seq(Seq(STRING))
        /\ it.item \in {"langFiles", "langPackages"} => it.srcs \in Seq(STRING)
        /\ it.item = "languages" => it.langs \in Seq(STRING)
    BY <1>1, Zenon DEF LexedItem
  <1>3. it.item \in {"header", "localizedVendor", "dependency", "platformDependency"}
          => NamesOf(it) = {it.names}
    BY DEF NamesOf
  <1>4. it.item = "options" => NamesOf(it) = {it.groups[g] : g \in 1 .. Len(it.groups)}
    BY DEF NamesOf
  <1>5. it.item \in {"langFiles", "langPackages"} => NamesOf(it) = {it.srcs}
    BY DEF NamesOf
  <1> QED BY <1>2, <1>3, <1>4, <1>5, Zenon

(* The checks that an accepted item has passed. *)
LEMMA AcceptedItem ==
  ASSUME NEW it \in Items, Accepted(it)
  PROVE  /\ it.item \in NeedsHeader => AreLangStringInit
         /\ it.item = "languages" => w.languages = Empty
         /\ it.item = "header" => ~ AreLangStringInit
         /\ it.item = "localizedVendor" => ~ AreLocalizedVendorNamesInit
         /\ \A names \in NamesOf(it) : Len(names) = LanguagesAt(it)
  <1>1. /\ Len(Checks(it)) = 13
        /\ Checks(it)[2].wrong = (it.item \in NeedsHeader /\ ~ AreLangStringInit)
        /\ Checks(it)[3].wrong = (it.item = "languages" /\ AreLanguagesInit)
        /\ Checks(it)[5].wrong = (it.item = "header" /\ AreLangStringInit)
        /\ Checks(it)[6].wrong =
             (it.item = "localizedVendor" /\ AreLocalizedVendorNamesInit)
        /\ Checks(it)[10].wrong = (\E names \in NamesOf(it) : Len(names) # LanguagesAt(it))
    BY DEF Checks, Check
  <1>2. ASSUME NEW i \in 1 .. 13 PROVE ~ Checks(it)[i].wrong
    <2>1. Len(Checks(it)) = 13
      BY <1>1
    <2> QED BY <2>1 DEF Accepted
  <1>3. ~ Checks(it)[2].wrong /\ ~ Checks(it)[3].wrong
    BY <1>2
  <1>4. ~ Checks(it)[5].wrong /\ ~ Checks(it)[6].wrong
    BY <1>2
  <1>5. ~ Checks(it)[10].wrong
    BY <1>2
  <1> QED BY <1>1, <1>3, <1>4, <1>5, Zenon DEF AreLanguagesInit

-----------------------------------------------------------------------------
(* A line behind the others keeps what is said of the options. *)
LEMMA AddLine ==
  ASSUME NEW node, NEW lines, IsNodes(lines), NEW n \in Nat,
         OptionStrings(lines, n), OptionStrings(<<node>>, n)
  PROVE  OptionStrings(AddNode(node, lines), n)
  <1>1. node.kind = "Option" => /\ node.numOptions \in Nat
                                /\ Len(node.strings) \in {0, node.numOptions * n}
    BY DEF OptionStrings
  <1>2. /\ Len(AddNode(node, lines)) = Len(lines) + 1
        /\ \A i \in 1 .. Len(lines) + 1 :
             AddNode(node, lines)[i] = IF i = 1 THEN node ELSE lines[i - 1]
        /\ Len(lines) \in Nat
    BY AddNodeIs DEF IsNodes
  <1>3. ASSUME NEW i \in 1 .. Len(lines) + 1, i # 1
        PROVE  i - 1 \in 1 .. Len(lines)
    BY <1>2, <1>3
  <1> QED BY <1>1, <1>2, <1>3 DEF OptionStrings

(* Options that were read before any language have no strings. *)
LEMMA OptionsBeforeLanguages ==
  ASSUME NEW lines, IsNodes(lines), OptionStrings(lines, 0), NEW n \in Nat
  PROVE  OptionStrings(lines, n)
  <1>1. \A k \in Nat : k * 0 = 0
    OBVIOUS
  <1> QED BY <1>1 DEF OptionStrings

(* A dependency in front of the others. *)
LEMMA AddDependency ==
  ASSUME NEW names, NEW depends, IsNodes(depends), NEW n \in Nat,
         DependNames(depends, n), Len(names) = n
  PROVE  DependNames(AddNode(names, depends), n)
  <1>1. /\ Len(AddNode(names, depends)) = Len(depends) + 1
        /\ \A i \in 1 .. Len(depends) + 1 :
             AddNode(names, depends)[i] = IF i = 1 THEN names ELSE depends[i - 1]
        /\ Len(depends) \in Nat
    BY AddNodeIs DEF IsNodes
  <1>2. ASSUME NEW i \in 1 .. Len(depends) + 1, i # 1
        PROVE  i - 1 \in 1 .. Len(depends)
    BY <1>1, <1>2
  <1> QED BY <1>1, <1>2 DEF DependNames

(* What ParseLanguageBlockL makes of the lines. *)
BlockLines(srcs, lines, type, newType, uid) ==
  SetLangDependDestinations(
    AddNodes([i \in 1 .. Len(srcs) |-> LanguageNode(type, srcs[i])], lines), newType, uid)

(* The lines of a language block are patched, and no line in front of      *)
(* them is touched.                                                        *)
LEMMA LanguageLines ==
  ASSUME NEW srcs, NEW lines, NEW type, NEW newType, NEW uid,
         IsNodes(srcs), IsNodes(lines), IsNodes(w.languages),
         Len(srcs) = GetNoLanguages, OptionStrings(lines, GetNoLanguages),
         NEW more, more = BlockLines(srcs, lines, type, newType, uid)
  PROVE  /\ IsNodes(more) /\ OptionStrings(more, GetNoLanguages)
         /\ Len(more) = GetNoLanguages + Len(lines)
         /\ \A i \in 1 .. GetNoLanguages : more[i].kind = "LanguageFile" /\ more[i].dest
         /\ \A i \in 1 .. Len(lines) : more[i + GetNoLanguages] = lines[i]
  <1> DEFINE nodes == [i \in 1 .. Len(srcs) |-> LanguageNode(type, srcs[i])]
             new == AddNodes(nodes, lines)
             patched == SetLangDependDestinations(new, newType, uid)
             n == GetNoLanguages
  <1>1. n \in Nat /\ Len(lines) \in Nat
    BY DEF GetNoLanguages, IsNodes
  <1>2. /\ IsNodes(nodes)
        /\ Len(nodes) = n
        /\ \A i \in 1 .. n : nodes[i] = LanguageNode(type, srcs[i])
    BY <1>1 DEF IsNodes
  <1> HIDE DEF nodes
  <1>3. /\ IsNodes(new)
        /\ Len(new) = n + Len(lines)
        /\ \A i \in 1 .. n + Len(lines) :
             new[i] = IF i <= n THEN nodes[n + 1 - i] ELSE lines[i - n]
    <2>1. /\ IsNodes(new)
          /\ Len(new) = Len(nodes) + Len(lines)
          /\ \A i \in 1 .. Len(nodes) + Len(lines) :
               new[i] = IF i <= Len(nodes) THEN nodes[Len(nodes) + 1 - i]
                                           ELSE lines[i - Len(nodes)]
      BY <1>2, AddNodesIs
    <2> QED BY <1>2, <2>1
  <1> HIDE DEF new
  <1>4. /\ IsNodes(patched)
        /\ Len(patched) = n + Len(lines)
        /\ \A i \in 1 .. n + Len(lines) :
             patched[i] = IF i <= n
                          THEN [new[i] EXCEPT !.kind = "LanguageFile", !.type = newType,
                                              !.uid = uid, !.dest = TRUE]
                          ELSE new[i]
    BY <1>1, <1>3 DEF SetLangDependDestinations, IsNodes
  <1> HIDE DEF patched
  <1>5. ASSUME NEW i \in 1 .. n + Len(lines), i <= n
        PROVE  patched[i].kind = "LanguageFile" /\ patched[i].dest
    <2>1. n + 1 - i \in 1 .. n
      BY <1>1, <1>5
    <2>2. new[i] = LanguageNode(type, srcs[n + 1 - i])
      BY <1>2, <1>3, <1>5, <2>1
    <2>3. patched[i] = [new[i] EXCEPT !.kind = "LanguageFile", !.type = newType,
                                      !.uid = uid, !.dest = TRUE]
      BY <1>4, <1>5
    <2> QED BY <2>2, <2>3 DEF LanguageNode
  <1>6. ASSUME NEW i \in 1 .. n + Len(lines), ~ (i <= n)
        PROVE  i - n \in 1 .. Len(lines) /\ patched[i] = lines[i - n]
    <2>1. patched[i] = new[i]
      BY <1>4, <1>6
    <2>2. new[i] = lines[i - n]
      BY <1>3, <1>6
    <2>3. i - n \in 1 .. Len(lines)
      BY <1>1, <1>6
    <2> QED BY <2>1, <2>2, <2>3
  <1>7. OptionStrings(patched, n)
    <2> SUFFICES ASSUME NEW i \in 1 .. n + Len(lines), patched[i].kind = "Option"
                 PROVE  /\ patched[i].numOptions \in Nat
                        /\ Len(patched[i].strings) \in {0, patched[i].numOptions * n}
      BY <1>4 DEF OptionStrings
    <2>1. ~ (i <= n)
      BY <1>5
    <2> QED BY <1>6, <2>1 DEF OptionStrings
  <1>8. \A i \in 1 .. n : i \in 1 .. n + Len(lines) /\ i <= n
    BY <1>1
  <1>9. ASSUME NEW i \in 1 .. Len(lines) PROVE patched[i + n] = lines[i]
    <2>1. i + n \in 1 .. n + Len(lines) /\ ~ (i + n <= n) /\ (i + n) - n = i
      BY <1>1
    <2> QED BY <1>6, <2>1
  <1>10. more = patched
    BY DEF patched, new, nodes, BlockLines
  <1> QED BY <1>4, <1>5, <1>7, <1>8, <1>9, <1>10

-----------------------------------------------------------------------------
(* The initial state. *)
LEMMA WriterInvInit ==
  PInit => WriterInv(w)
  <1> SUFFICES ASSUME PInit PROVE WriterInv(w)
    OBVIOUS
  <1>1. w = EmptyWriter
    BY DEF PInit
  <1>2. IsNodes(Empty) /\ Len(Empty) = 0
    BY DEF IsNodes, Empty
  <1> QED BY <1>1, <1>2 DEF WriterInv, EmptyWriter, DependNames, OptionStrings

(* New lines are all that changes. *)
LEMMA LinesChange ==
  ASSUME WriterInv(w), NEW lines, IsNodes(lines), OptionStrings(lines, GetNoLanguages)
  PROVE  WriterInv([w EXCEPT !.lines = lines])
  <1> DEFINE wr == [w EXCEPT !.lines = lines]
  <1>1. /\ DOMAIN wr = DOMAIN EmptyWriter
        /\ wr.languages = w.languages /\ wr.langStrings = w.langStrings
        /\ wr.localizedVendor = w.localizedVendor /\ wr.depends = w.depends
        /\ wr.platformDepends = w.platformDepends /\ wr.lines = lines
    BY DEF WriterInv, EmptyWriter
  <1> HIDE DEF wr
  <1>2. WriterInv(wr)
    BY <1>1 DEF WriterInv, GetNoLanguages
  <1> QED BY <1>2 DEF wr

(* A line that is no option. *)
LEMMA PlainLine ==
  ASSUME WriterInv(w), NEW node, node.kind # "Option"
  PROVE  WriterInv([w EXCEPT !.lines = AddNode(node, w.lines)])
  <1>1. OptionStrings(<<node>>, GetNoLanguages)
    BY DEF OptionStrings
  <1>2. /\ IsNodes(w.lines) /\ GetNoLanguages \in Nat
        /\ OptionStrings(w.lines, GetNoLanguages)
    BY DEF WriterInv, GetNoLanguages, IsNodes
  <1>3. /\ IsNodes(AddNode(node, w.lines))
        /\ OptionStrings(AddNode(node, w.lines), GetNoLanguages)
    BY <1>1, <1>2, AddNodeIs, AddLine
  <1> QED BY <1>3, LinesChange

(* Something that is not counted by languages changes. *)
LEMMA OtherFieldChange ==
  ASSUME WriterInv(w), NEW f \in {"vendorName", "logos", "capabilities"}, NEW v
  PROVE  WriterInv([w EXCEPT ![f] = v])
  <1> DEFINE wr == [w EXCEPT ![f] = v]
  <1>1. /\ DOMAIN wr = DOMAIN EmptyWriter
        /\ wr.languages = w.languages /\ wr.langStrings = w.langStrings
        /\ wr.localizedVendor = w.localizedVendor /\ wr.depends = w.depends
        /\ wr.platformDepends = w.platformDepends /\ wr.lines = w.lines
    BY DEF WriterInv, EmptyWriter
  <1> HIDE DEF wr
  <1>2. WriterInv(wr)
    BY <1>1 DEF WriterInv
  <1> QED BY <1>2 DEF wr

(* The languages are declared, or English is assumed: whatever is stored   *)
(* so far has no strings.                                                  *)
LEMMA LanguagesChange ==
  ASSUME WriterInv(w), NEW wr,
         DOMAIN wr = DOMAIN EmptyWriter,
         w.languages # Empty => wr.languages = w.languages,
         IsNodes(wr.languages), IsNodes(wr.langStrings), IsNodes(wr.localizedVendor),
         Len(wr.langStrings) >= Len(w.langStrings),
         Len(wr.langStrings) \in {0, Len(wr.languages)},
         Len(wr.localizedVendor) \in {0, Len(wr.languages)},
         wr.depends = w.depends, wr.platformDepends = w.platformDepends,
         wr.lines = w.lines
  PROVE  WriterInv(wr)
  <1>1. CASE w.languages # Empty
    BY <1>1 DEF WriterInv, IsNodes
  <1>2. CASE w.languages = Empty
    <2>1. Len(w.languages) = 0
      BY <1>2 DEF Empty
    <2>2. Len(w.langStrings) = 0
      BY <2>1 DEF WriterInv
    <2>3. Len(w.depends) = 0 /\ Len(w.platformDepends) = 0
      BY <2>2 DEF WriterInv, IsNodes
    <2>4. OptionStrings(w.lines, Len(wr.languages))
      BY <2>1, OptionsBeforeLanguages DEF WriterInv, IsNodes
    <2> QED BY <2>3, <2>4 DEF WriterInv, DependNames
  <1> QED BY <1>1, <1>2

-----------------------------------------------------------------------------
(* Languages, header and vendor lines, in whatever order they come. *)
LEMMA LanguagesKeepInv ==
  ASSUME WriterInv(w), NEW it \in Items, ParseLanguagesL(it)
  PROVE  WriterInv(w')
  <1>1. /\ it.item = "languages" /\ Accepted(it)
        /\ w' = [w EXCEPT !.languages = AddNodes(it.langs, @)]
    BY DEF ParseLanguagesL, Reads, Stores
  <1>2. w.languages = Empty /\ IsNodes(it.langs) /\ IsNodes(w.languages)
    <2>1. it.langs \in Seq(STRING)
      BY <1>1, ItemNames
    <2>2. w.languages = Empty
      BY <1>1, AcceptedItem
    <2> QED BY <2>1, <2>2, SeqIsNodes DEF WriterInv
  <1>3. IsNodes(AddNodes(it.langs, w.languages))
    BY <1>2, AddNodesIs
  <1>4. /\ DOMAIN w' = DOMAIN EmptyWriter
        /\ w'.languages = AddNodes(it.langs, w.languages)
        /\ w'.langStrings = w.langStrings /\ w'.localizedVendor = w.localizedVendor
        /\ w'.depends = w.depends /\ w'.platformDepends = w.platformDepends
        /\ w'.lines = w.lines
    BY <1>1 DEF WriterInv, EmptyWriter
  <1>5. Len(w.langStrings) = 0 /\ Len(w.localizedVendor) = 0
    BY <1>2 DEF WriterInv, Empty
  <1> QED
    BY <1>2, <1>3, <1>4, <1>5, LanguagesChange DEF WriterInv

(* English is assumed, or the languages stay. *)
LEMMA LanguagesOrEnglishIs ==
  ASSUME WriterInv(w)
  PROVE  /\ IsNodes(LanguagesOrEnglish)
         /\ w.languages # Empty => LanguagesOrEnglish = w.languages
         /\ Len(w.langStrings) \in {0, Len(LanguagesOrEnglish)}
         /\ Len(w.localizedVendor) \in {0, Len(LanguagesOrEnglish)}
  <1>1. IsNodes(<<ELangEnglish>>)
    BY DEF IsNodes
  <1>2. w.languages = Empty => Len(w.langStrings) = 0 /\ Len(w.localizedVendor) = 0
    BY DEF WriterInv, Empty
  <1> QED BY <1>1, <1>2 DEF WriterInv, LanguagesOrEnglish, AreLanguagesInit

LEMMA HeaderKeepsInv ==
  ASSUME WriterInv(w), NEW it \in Items, ParseHeaderL(it)
  PROVE  WriterInv(w')
  <1>1. /\ it.item = "header" /\ Accepted(it)
        /\ w' = [w EXCEPT !.languages = LanguagesOrEnglish,
                          !.langStrings = AddNodes(it.names, @), !.uid = it.uid]
    BY DEF ParseHeaderL, Reads, Stores
  <1>2. /\ IsNodes(it.names) /\ IsNodes(w.langStrings)
        /\ w.langStrings = Empty /\ Len(it.names) = Len(LanguagesOrEnglish)
    <2>1. it.names \in Seq(STRING) /\ it.names \in NamesOf(it)
      BY <1>1, ItemNames
    <2>2. LanguagesAt(it) = Len(LanguagesOrEnglish)
      BY <1>1 DEF LanguagesAt
    <2>3. ~ AreLangStringInit /\ Len(it.names) = LanguagesAt(it)
      BY <1>1, <2>1, AcceptedItem
    <2> QED BY <2>1, <2>2, <2>3, SeqIsNodes DEF AreLangStringInit, WriterInv
  <1>3. /\ IsNodes(AddNodes(it.names, w.langStrings))
        /\ Len(AddNodes(it.names, w.langStrings)) = Len(LanguagesOrEnglish)
        /\ Len(w.langStrings) = 0
    <2>1. /\ IsNodes(AddNodes(it.names, w.langStrings))
          /\ Len(AddNodes(it.names, w.langStrings)) = Len(it.names) + Len(w.langStrings)
      BY <1>2, AddNodesIs
    <2>2. Len(w.langStrings) = 0 /\ Len(it.names) \in Nat
      BY <1>2 DEF Empty, IsNodes
    <2> QED BY <1>2, <2>1, <2>2
  <1>4. /\ DOMAIN w' = DOMAIN EmptyWriter
        /\ w'.languages = LanguagesOrEnglish
        /\ w'.langStrings = AddNodes(it.names, w.langStrings)
        /\ w'.localizedVendor = w.localizedVendor
        /\ w'.depends = w.depends /\ w'.platformDepends = w.platformDepends
        /\ w'.lines = w.lines
    BY <1>1 DEF WriterInv, EmptyWriter
  <1>5. Len(w'.langStrings) >= Len(w.langStrings)
    BY <1>3, <1>4 DEF IsNodes
  <1>6. IsNodes(w.localizedVendor)
    BY DEF WriterInv
  <1> HIDE DEF WriterInv
  <1> QED BY <1>3, <1>4, <1>5, <1>6, LanguagesOrEnglishIs, LanguagesChange

LEMMA VendorNamesKeepInv ==
  ASSUME WriterInv(w), NEW it \in Items, ParseLocalizedVendorNamesL(it)
  PROVE  WriterInv(w')
  <1>1. /\ it.item = "localizedVendor" /\ Accepted(it)
        /\ w' = [w EXCEPT !.languages = LanguagesOrEnglish,
                          !.localizedVendor = AddNodes(it.names, @)]
    BY DEF ParseLocalizedVendorNamesL, Reads, Stores
  <1>2. /\ IsNodes(it.names) /\ IsNodes(w.localizedVendor)
        /\ w.localizedVendor = Empty /\ Len(it.names) = Len(LanguagesOrEnglish)
    <2>1. it.names \in Seq(STRING) /\ it.names \in NamesOf(it)
      BY <1>1, ItemNames
    <2>2. LanguagesAt(it) = Len(LanguagesOrEnglish)
      BY <1>1 DEF LanguagesAt
    <2>3. ~ AreLocalizedVendorNamesInit /\ Len(it.names) = LanguagesAt(it)
      BY <1>1, <2>1, AcceptedItem
    <2> QED BY <2>1, <2>2, <2>3, SeqIsNodes DEF AreLocalizedVendorNamesInit, WriterInv
  <1>3. /\ IsNodes(AddNodes(it.names, w.localizedVendor))
        /\ Len(AddNodes(it.names, w.localizedVendor)) = Len(LanguagesOrEnglish)
    <2>1. /\ IsNodes(AddNodes(it.names, w.localizedVendor))
          /\ Len(AddNodes(it.names, w.localizedVendor)) = Len(it.names) + Len(w.localizedVendor)
      BY <1>2, AddNodesIs
    <2>2. Len(w.localizedVendor) = 0 /\ Len(it.names) \in Nat
      BY <1>2 DEF Empty, IsNodes
    <2> QED BY <1>2, <2>1, <2>2
  <1>4. /\ DOMAIN w' = DOMAIN EmptyWriter
        /\ w'.languages = LanguagesOrEnglish
        /\ w'.langStrings = w.langStrings
        /\ w'.localizedVendor = AddNodes(it.names, w.localizedVendor)
        /\ w'.depends = w.depends /\ w'.platformDepends = w.platformDepends
        /\ w'.lines = w.lines
    BY <1>1 DEF WriterInv, EmptyWriter
  <1>5. Len(w'.langStrings) >= Len(w.langStrings)
    BY <1>4 DEF IsNodes, WriterInv
  <1>6. IsNodes(w.langStrings)
    BY DEF WriterInv
  <1> QED BY <1>3, <1>4, <1>5, <1>6, LanguagesOrEnglishIs, LanguagesChange

-----------------------------------------------------------------------------
(* What may be read only after the header, and lists names, has as many    *)
(* as there are languages.                                                 *)
LEMMA NamesCounted ==
  ASSUME NEW it \in Items, Accepted(it),
         it.item \in {"dependency", "platformDependency"}
  PROVE  /\ AreLangStringInit
         /\ IsNodes(AddNodes(it.names, Empty))
         /\ Len(AddNodes(it.names, Empty)) = GetNoLanguages
  <1>1. it.names \in Seq(STRING) /\ it.names \in NamesOf(it)
    BY ItemNames
  <1>2. LanguagesAt(it) = GetNoLanguages
    BY DEF LanguagesAt
  <1>3. Len(it.names) = GetNoLanguages
    BY <1>1, <1>2, AcceptedItem
  <1>4. AreLangStringInit
    BY AcceptedItem DEF NeedsHeader
  <1>5. IsNodes(it.names) /\ IsNodes(Empty) /\ Len(Empty) = 0 /\ Len(it.names) \in Nat
    BY <1>1, SeqIsNodes DEF IsNodes, Empty
  <1>6. /\ IsNodes(AddNodes(it.names, Empty))
        /\ Len(AddNodes(it.names, Empty)) = Len(it.names) + Len(Empty)
    BY <1>5, AddNodesIs
  <1> QED BY <1>3, <1>4, <1>5, <1>6

(* A dependency has one name for each language. *)
LEMMA DependencyKeepsInv ==
  ASSUME WriterInv(w), NEW it \in Items, NEW f \in {"depends", "platformDepends"},
         Accepted(it), it.item \in {"dependency", "platformDependency"}
  PROVE  WriterInv([w EXCEPT ![f] = AddNode(AddNodes(it.names, Empty), w[f])])
  <1> DEFINE names == AddNodes(it.names, Empty)
             wr == [w EXCEPT ![f] = AddNode(names, w[f])]
  <1>1. AreLangStringInit /\ Len(names) = GetNoLanguages
    BY NamesCounted
  <1> HIDE DEF names
  <1>2. /\ IsNodes(w[f]) /\ GetNoLanguages \in Nat
        /\ DependNames(w[f], GetNoLanguages)
    BY DEF WriterInv, GetNoLanguages, IsNodes
  <1>3. /\ IsNodes(AddNode(names, w[f]))
        /\ DependNames(AddNode(names, w[f]), GetNoLanguages)
    BY <1>1, <1>2, AddNodeIs, AddDependency
  <1>4. Len(w.langStrings) > 0
    BY <1>1, EmptyIsZero DEF AreLangStringInit, WriterInv, IsNodes
  <1>5. /\ DOMAIN wr = DOMAIN EmptyWriter
        /\ wr.languages = w.languages /\ wr.langStrings = w.langStrings
        /\ wr.localizedVendor = w.localizedVendor /\ wr.lines = w.lines
        /\ wr.depends \in {w.depends, AddNode(names, w[f])}
        /\ wr.platformDepends \in {w.platformDepends, AddNode(names, w[f])}
    BY DEF WriterInv, EmptyWriter
  <1> HIDE DEF wr
  <1>6. WriterInv(wr)
    BY <1>3, <1>4, <1>5 DEF WriterInv, GetNoLanguages
  <1> QED BY <1>6 DEF wr, names

(* The names of the options of a block. *)
LEMMA OptionsKeepInv ==
  ASSUME WriterInv(w), NEW it \in Items, ParseOptionsBlockL(it)
  PROVE  WriterInv(w')
  <1> DEFINE n == GetNoLanguages
             k == Len(it.groups)
             strings == [i \in 1 .. k * n |->
                           it.groups[k - ((i - 1) \div n)][n - ((i - 1) % n)]]
             node == [kind |-> "Option", numOptions |-> k, strings |-> strings]
  <1>1. it.item = "options" /\ w' = [w EXCEPT !.lines = AddNode(node, w.lines)]
    BY DEF ParseOptionsBlockL, Reads, Stores
  <1>2. k \in Nat /\ n \in Nat
    <2>1. it.groups \in Seq(Seq(STRING))
      BY <1>1, ItemNames
    <2> QED BY <2>1 DEF GetNoLanguages, WriterInv, IsNodes
  <1> HIDE DEF n, k
  <1>3. k * n \in Nat
    BY <1>2
  <1>4. Len(strings) = k * n
    BY <1>3
  <1>5. node.numOptions = k /\ Len(node.strings) = k * n
    BY <1>4
  <1> HIDE DEF node
  <1>6. OptionStrings(<<node>>, n)
    BY <1>2, <1>5 DEF OptionStrings
  <1>7. IsNodes(w.lines) /\ OptionStrings(w.lines, n)
    BY DEF WriterInv, GetNoLanguages, n
  <1>8. /\ IsNodes(AddNode(node, w.lines))
        /\ OptionStrings(AddNode(node, w.lines), GetNoLanguages)
    BY <1>2, <1>6, <1>7, AddNodeIs, AddLine DEF n
  <1> QED BY <1>1, <1>8, LinesChange

(* The lines of a language block. *)
LEMMA LanguageBlockKeepsInv ==
  ASSUME WriterInv(w), NEW it \in Items, Accepted(it),
         it.item \in {"langFiles", "langPackages"},
         NEW type, NEW newType, NEW uid, LanguageBlock(it.srcs, type, newType, uid)
  PROVE  WriterInv(w')
  <1>1. it.srcs \in Seq(STRING) /\ it.srcs \in NamesOf(it)
    BY ItemNames
  <1>2. Len(it.srcs) = GetNoLanguages
    <2>1. LanguagesAt(it) = GetNoLanguages
      BY DEF LanguagesAt
    <2> QED BY <1>1, <2>1, AcceptedItem
  <1>3. /\ IsNodes(it.srcs) /\ IsNodes(w.lines) /\ IsNodes(w.languages)
        /\ OptionStrings(w.lines, GetNoLanguages)
    BY <1>1, SeqIsNodes DEF WriterInv, GetNoLanguages
  <1> DEFINE lines == BlockLines(it.srcs, w.lines, type, newType, uid)
  <1>4. IsNodes(lines) /\ OptionStrings(lines, GetNoLanguages)
    BY <1>2, <1>3, LanguageLines
  <1>5. w' = [w EXCEPT !.lines = lines]
    BY DEF LanguageBlock, Stores, BlockLines
  <1> HIDE DEF lines
  <1> QED BY <1>4, <1>5, LinesChange

-----------------------------------------------------------------------------
(* Every Parse function keeps the invariant. *)
LEMMA ItemKeepsInv ==
  ASSUME WriterInv(w), NEW it \in Items, ParseItem(it)
  PROVE  WriterInv(w')
  <1>1. CASE ParseLanguagesL(it)
    BY <1>1, LanguagesKeepInv
  <1>2. CASE ParseHeaderL(it)
    BY <1>2, HeaderKeepsInv
  <1>3. CASE ParseLocalizedVendorNamesL(it)
    BY <1>3, VendorNamesKeepInv
  <1>4. CASE ParseVendorNameL(it)
    <2>1. w' = [w EXCEPT !["vendorName"] = TRUE]
      BY <1>4 DEF ParseVendorNameL, Stores
    <2> QED BY <2>1, OtherFieldChange
  <1>5. CASE ParseLogoL(it)
    <2>1. w' = [w EXCEPT !["logos"] = AddNode(it.src, w.logos)]
      BY <1>5 DEF ParseLogoL, Stores
    <2> QED BY <2>1, OtherFieldChange
  <1>6. CASE ParseFileL(it)
    <2> DEFINE node == [kind |-> "File", type |-> it.type, dest |-> TRUE, uid |-> 0,
                        src |-> IF it.type = "Null" THEN "" ELSE it.src]
    <2>1. w' = [w EXCEPT !.lines = AddNode(node, w.lines)]
      BY <1>6 DEF ParseFileL, Stores
    <2>2. node.kind # "Option"
      OBVIOUS
    <2> HIDE DEF node
    <2> QED BY <2>1, <2>2, PlainLine
  <1>7. CASE ParsePackageL(it)
    <2> DEFINE node == [kind |-> "File", type |-> "Component", dest |-> TRUE,
                        src |-> it.src, uid |-> it.uid]
    <2>1. w' = [w EXCEPT !.lines = AddNode(node, w.lines)]
      BY <1>7 DEF ParsePackageL, Stores
    <2>2. node.kind # "Option"
      OBVIOUS
    <2> HIDE DEF node
    <2> QED BY <2>1, <2>2, PlainLine
  <1>8. CASE ParseDependencyL(it)
    <2>1. /\ it.item = "dependency" /\ Accepted(it)
          /\ w' = [w EXCEPT !["depends"] = AddNode(AddNodes(it.names, Empty), w["depends"])]
      BY <1>8 DEF ParseDependencyL, Reads, Stores
    <2> QED BY <2>1, DependencyKeepsInv
  <1>9. CASE ParsePlatformDependencyL(it)
    <2>1. /\ it.item = "platformDependency" /\ Accepted(it)
          /\ w' = [w EXCEPT !["platformDepends"] =
                     AddNode(AddNodes(it.names, Empty), w["platformDepends"])]
      BY <1>9 DEF ParsePlatformDependencyL, Reads, Stores
    <2> QED BY <2>1, DependencyKeepsInv
  <1>10. CASE ParseSignatureL(it)
    BY <1>10 DEF ParseSignatureL
  <1>11. CASE ParseCapabilityL(it)
    <2>1. w' = [w EXCEPT !["capabilities"] = AddNodes(it.pairs, w.capabilities)]
      BY <1>11 DEF ParseCapabilityL, Stores
    <2> QED BY <2>1, OtherFieldChange
  <1>12. CASE ParseOptionsBlockL(it)
    BY <1>12, OptionsKeepInv
  <1>13. CASE ParseLanguageFiles(it)
    <2>1. /\ it.item = "langFiles" /\ Accepted(it)
          /\ LanguageBlock(it.srcs, "Simple", it.type, 0)
      BY <1>13 DEF ParseLanguageFiles, Reads
    <2> QED BY <2>1, LanguageBlockKeepsInv
  <1>14. CASE ParseLanguagePackages(it)
    <2>1. /\ it.item = "langPackages" /\ Accepted(it)
          /\ LanguageBlock(it.srcs, "Component", "Component", it.uid)
      BY <1>14 DEF ParseLanguagePackages, Reads
    <2> QED BY <2>1, LanguageBlockKeepsInv
  <1>15. CASE ParseCommentL(it)
    BY <1>15 DEF ParseCommentL
  <1>16. CASE ParseIf(it)
    BY <1>16, PlainLine DEF ParseIf, AddCondition
  <1>17. CASE ParseElseIf(it)
    BY <1>17, PlainLine DEF ParseElseIf, AddCondition
  <1>18. CASE ParseElse(it)
    BY <1>18, PlainLine DEF ParseElse, AddCondition
  <1>19. CASE ParseEndIf(it)
    BY <1>19, PlainLine DEF ParseEndIf, AddCondition
  <1>20. CASE ParseThrows(it)
    BY <1>20 DEF ParseThrows
  <1> QED
    BY <1>1, <1>2, <1>3, <1>4, <1>5, <1>6, <1>7, <1>8, <1>9, <1>10, <1>11, <1>12,
       <1>13, <1>14, <1>15, <1>16, <1>17, <1>18, <1>19, <1>20
    DEF ParseItem

(* So does every step. *)
LEMMA StepKeepsInv ==
  WriterInv(w) /\ [PNext]_pVars => WriterInv(w')
  <1> SUFFICES ASSUME WriterInv(w), [PNext]_pVars PROVE WriterInv(w')
    OBVIOUS
  <1>1. CASE \E it \in Items : ParseItem(it)
    BY <1>1, ItemKeepsInv
  <1>2. CASE ParseEnds
    BY <1>2 DEF ParseEnds
  <1>3. CASE ParseEndsInside
    BY <1>3 DEF ParseEndsInside
  <1>4. CASE UNCHANGED pVars
    BY <1>4 DEF pVars
  <1> QED BY <1>1, <1>2, <1>3, <1>4 DEF PNext

(* The invariant says at least what StringsPerLanguage says. *)
LEMMA InvCountsStrings ==
  WriterInv(w) => StringsPerLanguage
  BY DEF WriterInv, StringsPerLanguage, GetNoLanguages, DependNames, OptionStrings

(* For every PKG file, however its lines are ordered: package names,       *)
(* vendor names and the names of dependencies have one string for each     *)
(* language, and so have options unless they were read before there were   *)
(* languages (parsepkg.cpp ParseLanguagesL to ParseLanguageBlockL).        *)
THEOREM StringsCounted == PSpec => []StringsPerLanguage
  <1>1. PInit => WriterInv(w)
    BY WriterInvInit
  <1>2. WriterInv(w) /\ [PNext]_pVars => WriterInv(w)'
    BY StepKeepsInv
  <1>3. WriterInv(w) => StringsPerLanguage
    BY InvCountsStrings
  <1> QED BY <1>1, <1>2, <1>3, PTL DEF PSpec

-----------------------------------------------------------------------------
(***************************************************************************)
(* Counting lines.  From here on lists of lines are in the order of the    *)
(* PKG file, as InOrder has them.                                          *)
(***************************************************************************)

(* more is lines with k lines behind them. *)
Extends(more, lines, k) ==
  /\ Len(lines) \in Nat /\ k \in Nat
  /\ Len(more) = Len(lines) + k
  /\ \A i \in 1 .. Len(lines) : more[i] = lines[i]

(* Counts are natural numbers, and grow by one at a line that counts. *)
LEMMA CountIs ==
  ASSUME NEW lines, NEW kind, NEW n \in Nat
  PROVE  /\ IsFiniteSet({i \in 1 .. n : lines[i].kind = kind})
         /\ Count(lines, kind, n) \in Nat
  <1>1. IsFiniteSet(1 .. n)
    BY FS_Interval
  <1>2. IsFiniteSet({i \in 1 .. n : lines[i].kind = kind})
    BY <1>1, FS_Subset
  <1> QED BY <1>2, FS_CardinalityType DEF Count

LEMMA CountZero ==
  ASSUME NEW lines, NEW kind
  PROVE  Count(lines, kind, 0) = 0
  <1>1. {i \in 1 .. 0 : lines[i].kind = kind} = {}
    OBVIOUS
  <1> QED BY <1>1, FS_EmptySet DEF Count

(* Behind line i the lines up to m are of other kinds. *)
LEMMA CountNone ==
  ASSUME NEW lines, NEW kind, NEW i \in Nat, NEW m \in Nat, i <= m,
         \A j \in i + 1 .. m : lines[j].kind # kind
  PROVE  Count(lines, kind, m) = Count(lines, kind, i)
  <1>1. {j \in 1 .. m : lines[j].kind = kind} = {j \in 1 .. i : lines[j].kind = kind}
    <2>1. ASSUME NEW j \in 1 .. m, lines[j].kind = kind PROVE j \in 1 .. i
      <3>1. j \notin i + 1 .. m
        BY <2>1
      <3> QED BY <3>1
    <2> QED BY <2>1
  <1> QED BY <1>1 DEF Count

(* Or all of this kind. *)
LEMMA CountAll ==
  ASSUME NEW lines, NEW kind, NEW i \in Nat, NEW m \in Nat, i <= m,
         \A j \in i + 1 .. m : lines[j].kind = kind
  PROVE  Count(lines, kind, m) = Count(lines, kind, i) + (m - i)
  <1> DEFINE Old == {j \in 1 .. i : lines[j].kind = kind}
             All == {j \in 1 .. m : lines[j].kind = kind}
             New == i + 1 .. m
  <1>1. All = Old \cup New /\ Old \cap New = {}
    <2>1. ASSUME NEW j \in All, j \notin Old PROVE j \in New
      BY <2>1
    <2>2. \A j \in New : j \in 1 .. m /\ j \notin 1 .. i /\ lines[j].kind = kind
      OBVIOUS
    <2> QED BY <2>1, <2>2
  <1>2. IsFiniteSet(Old)
    BY CountIs
  <1>3. IsFiniteSet(New) /\ Cardinality(New) = m - i
    <2>1. /\ IsFiniteSet(New)
          /\ Cardinality(New) = IF i + 1 > m THEN 0 ELSE m - (i + 1) + 1
      BY FS_Interval
    <2> QED BY <2>1
  <1> HIDE DEF Old, New, All
  <1>4. Cardinality(Old \cap New) = 0
    BY <1>1, FS_EmptySet
  <1>5. Cardinality(Old) \in Nat
    BY <1>2, FS_CardinalityType
  <1>6. Cardinality(Old \cup New) = Cardinality(Old) + Cardinality(New) - Cardinality(Old \cap New)
    BY <1>2, <1>3, FS_Union
  <1>7. Count(lines, kind, m) = Cardinality(All) /\ Count(lines, kind, i) = Cardinality(Old)
    BY DEF Count, Old, All
  <1> QED BY <1>1, <1>3, <1>4, <1>5, <1>6, <1>7

(* Lines behind do not change the counts. *)
LEMMA CountExtends ==
  ASSUME NEW more, NEW lines, NEW k, Extends(more, lines, k), NEW kind,
         NEW n \in 0 .. Len(lines)
  PROVE  Count(more, kind, n) = Count(lines, kind, n)
  <1>1. \A i \in 1 .. n : i \in 1 .. Len(lines)
    BY DEF Extends
  <1>2. {i \in 1 .. n : more[i].kind = kind} = {i \in 1 .. n : lines[i].kind = kind}
    BY <1>1 DEF Extends
  <1> QED BY <1>2 DEF Count

LEMMA DepthIs ==
  ASSUME NEW lines, NEW n \in Nat
  PROVE  Depth(lines, n) \in Int
  <1>1. Count(lines, "If", n) \in Nat /\ Count(lines, "EndIf", n) \in Nat
    BY CountIs
  <1> QED BY <1>1 DEF Depth

LEMMA DepthExtends ==
  ASSUME NEW more, NEW lines, NEW k, Extends(more, lines, k),
         NEW n \in 0 .. Len(lines)
  PROVE  Depth(more, n) = Depth(lines, n)
  BY CountExtends DEF Depth

(* The depth behind one more line. *)
Deeper(kind) == CASE kind = "If" -> 1 [] kind = "EndIf" -> -1 [] OTHER -> 0

LEMMA DepthOfLine ==
  ASSUME NEW lines, NEW n \in Nat
  PROVE  Depth(lines, n + 1) = Depth(lines, n) + Deeper(lines[n + 1].kind)
  <1>1. ASSUME NEW kind
        PROVE  /\ lines[n + 1].kind = kind => Count(lines, kind, n + 1) = Count(lines, kind, n) + 1
               /\ lines[n + 1].kind # kind => Count(lines, kind, n + 1) = Count(lines, kind, n)
    <2>1. \A j \in n + 1 .. n + 1 : j = n + 1
      OBVIOUS
    <2>2. lines[n + 1].kind # kind => Count(lines, kind, n + 1) = Count(lines, kind, n)
      BY <2>1, CountNone
    <2>3. lines[n + 1].kind = kind =>
            Count(lines, kind, n + 1) = Count(lines, kind, n) + ((n + 1) - n)
      BY <2>1, CountAll
    <2>4. Count(lines, kind, n) \in Nat
      BY CountIs
    <2> QED BY <2>2, <2>3, <2>4
  <1>2. Count(lines, "If", n) \in Nat /\ Count(lines, "EndIf", n) \in Nat
    BY CountIs
  <1> QED BY <1>1, <1>2 DEF Depth, Deeper
-----------------------------------------------------------------------------
(***************************************************************************)
(* Conditions.  The stack of ParseIfBlockL knows, for each condition that  *)
(* is open, whether its ELSE was read; the lines must say the same.        *)
(***************************************************************************)

(* The condition that is open at depth d has its ELSE. *)
ElseRead(lines, d) ==
  \E j \in 1 .. Len(lines) :
    /\ lines[j].kind = "Else"
    /\ Depth(lines, j) = d
    /\ \A m \in j .. Len(lines) : Depth(lines, m) >= d

(* What NestedSoFar says of one line. *)
NestedAt(lines, n) ==
  /\ Count(lines, "EndIf", n) <= Count(lines, "If", n)
  /\ lines[n].kind \in {"ElseIf", "Else"} =>
       /\ Depth(lines, n) > 0
       /\ ~ \E j \in 1 .. n - 1 : /\ lines[j].kind = "Else"
                                  /\ SameGroup(lines, j, n)
                                  /\ Depth(lines, j) = Depth(lines, n)

NestInv(lines, blocks) ==
  /\ Len(lines) \in Nat
  /\ blocks \in Seq(BOOLEAN)
  /\ \A n \in 1 .. Len(lines) : NestedAt(lines, n)
  /\ Depth(lines, Len(lines)) = Len(blocks)
  /\ \A d \in 1 .. Len(blocks) : ~ blocks[d] => ~ ElseRead(lines, d)

(* Lines that were nested stay so. *)
LEMMA NestedAtExtends ==
  ASSUME NEW more, NEW lines, NEW k, Extends(more, lines, k),
         NEW n \in 1 .. Len(lines), NestedAt(lines, n)
  PROVE  NestedAt(more, n)
  <1> /\ Len(lines) \in Nat /\ k \in Nat /\ Len(more) = Len(lines) + k
      /\ \A i \in 1 .. Len(lines) : more[i] = lines[i]
    BY DEF Extends
  <1>1. /\ Count(more, "EndIf", n) = Count(lines, "EndIf", n)
        /\ Count(more, "If", n) = Count(lines, "If", n)
        /\ Depth(more, n) = Depth(lines, n)
        /\ more[n] = lines[n]
    BY CountExtends, DepthExtends
  <1>2. ASSUME NEW j \in 1 .. n - 1,
               more[j].kind = "Else", SameGroup(more, j, n), Depth(more, j) = Depth(more, n)
        PROVE  /\ lines[j].kind = "Else" /\ SameGroup(lines, j, n)
               /\ Depth(lines, j) = Depth(lines, n)
    <2>1. Depth(more, j) = Depth(lines, j) /\ more[j] = lines[j]
      BY DepthExtends
    <2>2. \A m \in j + 1 .. n : Depth(more, m) = Depth(lines, m)
      BY DepthExtends
    <2> QED BY <1>1, <1>2, <2>1, <2>2 DEF SameGroup
  <1> QED BY <1>1, <1>2 DEF NestedAt

(* An ELSE that was not read among the first lines is not read later       *)
(* unless it is among the later lines.                                     *)
LEMMA ElseReadExtends ==
  ASSUME NEW more, NEW lines, NEW k, Extends(more, lines, k), NEW d,
         ElseRead(more, d),
         \A j \in Len(lines) + 1 .. Len(lines) + k :
           ~ (more[j].kind = "Else" /\ Depth(more, j) = d)
  PROVE  ElseRead(lines, d)
  <1> /\ Len(lines) \in Nat /\ k \in Nat /\ Len(more) = Len(lines) + k
      /\ \A i \in 1 .. Len(lines) : more[i] = lines[i]
    BY DEF Extends
  <1>1. PICK j \in 1 .. Len(more) : /\ more[j].kind = "Else" /\ Depth(more, j) = d
                                    /\ \A m \in j .. Len(more) : Depth(more, m) >= d
    BY DEF ElseRead
  <1>2. j \in 1 .. Len(lines)
    BY <1>1
  <1>3. Depth(lines, j) = Depth(more, j) /\ lines[j] = more[j]
    BY <1>2, DepthExtends
  <1>4. ASSUME NEW m \in j .. Len(lines) PROVE Depth(lines, m) >= d
    <2>1. Depth(lines, m) = Depth(more, m)
      BY <1>2, DepthExtends
    <2> QED BY <1>1, <2>1
  <1> QED BY <1>1, <1>2, <1>3, <1>4 DEF ElseRead

(* Lines that are no conditions. *)
LEMMA NestOther ==
  ASSUME NEW lines, NEW blocks, NestInv(lines, blocks),
         NEW more, NEW k, Extends(more, lines, k),
         \A j \in Len(lines) + 1 .. Len(lines) + k :
           more[j].kind \notin {"If", "ElseIf", "Else", "EndIf"}
  PROVE  NestInv(more, blocks)
  <1> /\ Len(lines) \in Nat /\ k \in Nat /\ Len(more) = Len(lines) + k
      /\ \A i \in 1 .. Len(lines) : more[i] = lines[i]
    BY DEF Extends
  <1>1. ASSUME NEW n \in Len(lines) .. Len(more)
        PROVE  /\ Count(more, "If", n) = Count(lines, "If", Len(lines))
               /\ Count(more, "EndIf", n) = Count(lines, "EndIf", Len(lines))
    <2>1. \A j \in Len(lines) + 1 .. n : more[j].kind # "If" /\ more[j].kind # "EndIf"
      OBVIOUS
    <2>2. /\ Count(more, "If", n) = Count(more, "If", Len(lines))
          /\ Count(more, "EndIf", n) = Count(more, "EndIf", Len(lines))
      BY <2>1, CountNone
    <2>3. /\ Count(more, "If", Len(lines)) = Count(lines, "If", Len(lines))
          /\ Count(more, "EndIf", Len(lines)) = Count(lines, "EndIf", Len(lines))
      BY CountExtends
    <2> QED BY <2>2, <2>3
  <1>2. Depth(more, Len(more)) = Len(blocks)
    BY <1>1 DEF Depth, NestInv
  <1>3. Count(lines, "EndIf", Len(lines)) <= Count(lines, "If", Len(lines))
    <2>1. CASE Len(lines) = 0
      BY <2>1, CountZero
    <2>2. CASE Len(lines) # 0
      BY <2>2 DEF NestInv, NestedAt
    <2> QED BY <2>1, <2>2
  <1>4. ASSUME NEW n \in 1 .. Len(more) PROVE NestedAt(more, n)
    <2>1. CASE n <= Len(lines)
      BY <2>1, NestedAtExtends DEF NestInv
    <2>2. CASE n > Len(lines)
      BY <1>1, <1>3, <2>2 DEF NestedAt
    <2> QED BY <2>1, <2>2
  <1>5. ASSUME NEW d \in 1 .. Len(blocks), ~ blocks[d] PROVE ~ ElseRead(more, d)
    BY <1>5, ElseReadExtends, SMTT(30) DEF NestInv
  <1> QED BY <1>2, <1>4, <1>5 DEF NestInv

(* One line more, of whatever kind, that is nested itself. *)
LEMMA NestLine ==
  ASSUME NEW lines, NEW blocks, NestInv(lines, blocks),
         NEW more, Extends(more, lines, 1), NestedAt(more, Len(more)),
         NEW after \in Seq(BOOLEAN), Depth(more, Len(more)) = Len(after),
         \A d \in 1 .. Len(after) : ~ after[d] => ~ ElseRead(more, d)
  PROVE  NestInv(more, after)
  <1>1. ASSUME NEW n \in 1 .. Len(more) PROVE NestedAt(more, n)
    <2>1. CASE n <= Len(lines)
      <3>1. n \in 1 .. Len(lines)
        BY <2>1 DEF Extends
      <3> QED BY <3>1, NestedAtExtends DEF NestInv
    <2>2. CASE n = Len(more)
      BY <2>2
    <2> QED BY <2>1, <2>2 DEF Extends
  <1> QED BY <1>1 DEF NestInv, Extends

(* The line and the depth behind it. *)
LEMMA LineDepth ==
  ASSUME NEW lines, NEW blocks, NestInv(lines, blocks),
         NEW more, Extends(more, lines, 1), NEW n, n = Len(lines) + 1
  PROVE  /\ n \in Nat /\ Len(more) = n /\ n - 1 = Len(lines)
         /\ Depth(more, n - 1) = Len(blocks)
         /\ Depth(more, n) = Len(blocks) + Deeper(more[n].kind)
         /\ Depth(more, n) >= 0 => Count(more, "EndIf", n) <= Count(more, "If", n)
  <1> Len(lines) \in Nat /\ Len(more) = Len(lines) + 1
    BY DEF Extends
  <1>1. Depth(more, Len(lines)) = Len(blocks)
    BY DepthExtends DEF NestInv
  <1>2. Len(blocks) \in Nat /\ Len(lines) \in Nat /\ Len(lines) + 1 \in Nat
    BY DEF NestInv
  <1>3. Depth(more, Len(lines) + 1) =
          Depth(more, Len(lines)) + Deeper(more[Len(lines) + 1].kind)
    BY <1>2, DepthOfLine
  <1>4. Count(more, "EndIf", Len(lines) + 1) \in Nat /\ Count(more, "If", Len(lines) + 1) \in Nat
    BY <1>2, CountIs
  <1>5. Depth(more, n) = Count(more, "If", n) - Count(more, "EndIf", n)
    BY DEF Depth
  <1>6. n - 1 = Len(lines)
    BY <1>2
  <1>7. Depth(more, n) >= 0 => Count(more, "EndIf", n) <= Count(more, "If", n)
    BY <1>4, <1>5
  <1> QED BY <1>1, <1>2, <1>3, <1>6, <1>7

(* The conditions around the innermost one. *)
Outermost(blocks) == SubSeq(blocks, 1, Len(blocks) - 1)

(* A stack with another top. *)
LEMMA OtherTop ==
  ASSUME NEW S, NEW stack \in Seq(S), Len(stack) > 0, NEW x \in S
  PROVE  /\ Append(Outermost(stack), x) \in Seq(S)
         /\ Len(Append(Outermost(stack), x)) = Len(stack)
         /\ Append(Outermost(stack), x)[Len(stack)] = x
         /\ \A d \in 1 .. Len(stack) - 1 : Append(Outermost(stack), x)[d] = stack[d]
  <1> DEFINE front == Outermost(stack)
             after == Append(front, x)
  <1>1. /\ front \in Seq(S) /\ Len(front) = Len(stack) - 1
        /\ \A d \in 1 .. Len(stack) - 1 : front[d] = stack[d]
    <2>1. \A d \in 1 .. Len(stack) - 1 : stack[d] \in S
      OBVIOUS
    <2>2. /\ front \in Seq(S)
          /\ Len(front) = IF 1 <= Len(stack) - 1 THEN (Len(stack) - 1) - 1 + 1 ELSE 0
          /\ \A d \in 1 .. (Len(stack) - 1) - 1 + 1 : front[d] = stack[1 + d - 1]
      BY <2>1, SubSeqProperties DEF Outermost
    <2> HIDE DEF front
    <2>3. Len(front) = Len(stack) - 1
      <3>1. \A n \in Nat : n > 0 =>
              (IF 1 <= n - 1 THEN (n - 1) - 1 + 1 ELSE 0) = n - 1
        OBVIOUS
      <3>2. Len(stack) \in Nat
        OBVIOUS
      <3>3. Len(front) = IF 1 <= Len(stack) - 1 THEN (Len(stack) - 1) - 1 + 1 ELSE 0
        BY <2>2
      <3> QED BY <3>1, <3>2, <3>3
    <2>4. \A d \in 1 .. Len(stack) - 1 :
            d \in 1 .. (Len(stack) - 1) - 1 + 1 /\ 1 + d - 1 = d
      OBVIOUS
    <2>5. \A d \in 1 .. Len(stack) - 1 : front[d] = stack[d]
      BY <2>2, <2>4
    <2> QED BY <2>2, <2>3, <2>5
  <1> HIDE DEF front
  <1>2. after \in Seq(S) /\ Len(after) = Len(stack) /\ after[Len(stack)] = x
    BY <1>1
  <1>3. \A d \in 1 .. Len(stack) - 1 : after[d] = stack[d]
    BY <1>1
  <1> QED BY <1>2, <1>3 DEF front

(* IF opens a condition without ELSE. *)
LEMMA NestIf ==
  ASSUME NEW lines, NEW blocks, NestInv(lines, blocks),
         NEW more, Extends(more, lines, 1), more[Len(lines) + 1].kind = "If"
  PROVE  NestInv(more, Append(blocks, FALSE))
  <1> DEFINE after == Append(blocks, FALSE)
  <1>1. PICK n : n = Len(lines) + 1
    OBVIOUS
  <1>2. /\ blocks \in Seq(BOOLEAN) /\ Len(blocks) \in Nat
        /\ after \in Seq(BOOLEAN) /\ Len(after) = Len(blocks) + 1
        /\ \A d \in 1 .. Len(blocks) : after[d] = blocks[d]
    BY DEF NestInv
  <1> HIDE DEF after
  <1>3. /\ n \in Nat /\ Len(more) = n /\ n - 1 = Len(lines)
        /\ Depth(more, n - 1) = Len(blocks)
        /\ Depth(more, n) = Len(blocks) + Deeper(more[n].kind)
        /\ Depth(more, n) >= 0 => Count(more, "EndIf", n) <= Count(more, "If", n)
    BY <1>1, LineDepth
  <1>4. /\ Depth(more, n) = Len(blocks) + 1
        /\ Count(more, "EndIf", n) <= Count(more, "If", n)
    <2>1. Deeper(more[n].kind) = 1
      BY <1>1 DEF Deeper
    <2> QED BY <1>2, <1>3, <2>1
  <1>5. NestedAt(more, n)
    BY <1>1, <1>4 DEF NestedAt
  <1>6. ASSUME NEW d \in 1 .. Len(after), ~ after[d], ElseRead(more, d) PROVE FALSE
    <2>1. CASE d = Len(blocks) + 1
      <3>1. PICK j \in 1 .. n : /\ more[j].kind = "Else"
                                /\ \A m \in j .. n : Depth(more, m) >= d
        BY <1>3, <1>6 DEF ElseRead
      <3>2. j # n
        BY <1>1, <3>1
      <3>3. n - 1 \in j .. n
        BY <1>3, <3>2
      <3>4. Depth(more, n - 1) >= d
        BY <3>1, <3>3
      <3> QED BY <1>2, <1>3, <2>1, <3>4
    <2>2. CASE d \in 1 .. Len(blocks)
      <3>1. \A j \in Len(lines) + 1 .. Len(lines) + 1 : more[j].kind # "Else"
        BY <1>1, <1>3
      <3>2. ElseRead(lines, d)
        BY <1>6, <3>1, ElseReadExtends
      <3> QED BY <1>2, <1>6, <2>2, <3>2 DEF NestInv
    <2> QED BY <1>2, <2>1, <2>2
  <1> QED BY <1>2, <1>3, <1>4, <1>5, <1>6, NestLine DEF after

(* ELSEIF needs an open condition without ELSE. *)
LEMMA NestElseIf ==
  ASSUME NEW lines, NEW blocks, NestInv(lines, blocks),
         NEW more, Extends(more, lines, 1),
         more[Len(lines) + 1].kind = "ElseIf", Len(blocks) > 0, ~ blocks[Len(blocks)]
  PROVE  NestInv(more, blocks)
  <1> DEFINE after == blocks
  <1>1. PICK n : n = Len(lines) + 1
    OBVIOUS
  <1>2. /\ blocks \in Seq(BOOLEAN) /\ Len(blocks) \in Nat
        /\ after \in Seq(BOOLEAN) /\ Len(after) = Len(blocks)
    BY DEF NestInv
  <1> HIDE DEF after
  <1>3. /\ n \in Nat /\ Len(more) = n /\ n - 1 = Len(lines)
        /\ Depth(more, n - 1) = Len(blocks)
        /\ Depth(more, n) = Len(blocks) + Deeper(more[n].kind)
        /\ Depth(more, n) >= 0 => Count(more, "EndIf", n) <= Count(more, "If", n)
    BY <1>1, LineDepth
  <1>4. /\ Depth(more, n) = Len(blocks)
        /\ Count(more, "EndIf", n) <= Count(more, "If", n)
    <2>1. Deeper(more[n].kind) = 0
      BY <1>1 DEF Deeper
    <2> QED BY <1>2, <1>3, <2>1
  <1>5. NestedAt(more, n)
    <2>1. ASSUME NEW j \in 1 .. n - 1, more[j].kind = "Else", SameGroup(more, j, n),
                 Depth(more, j) = Depth(more, n)
          PROVE  FALSE
      <3>1. j \in 1 .. Len(lines) /\ lines[j].kind = "Else"
        BY <1>3, <2>1 DEF Extends
      <3>2. Depth(lines, j) = Len(blocks)
        <4>1. j \in 0 .. Len(lines)
          BY <3>1
        <4> QED BY <1>4, <2>1, <4>1, DepthExtends
      <3>3. ASSUME NEW m \in j .. Len(lines) PROVE Depth(lines, m) >= Len(blocks)
        <4>1. m \in 0 .. Len(lines) /\ (m = j \/ m \in j + 1 .. n)
          BY <1>3, <3>1
        <4>2. Depth(lines, m) = Depth(more, m)
          BY <4>1, DepthExtends
        <4> QED BY <1>2, <2>1, <3>2, <1>4, <4>1, <4>2 DEF SameGroup
      <3>4. ElseRead(lines, Len(blocks))
        BY <3>1, <3>2, <3>3 DEF ElseRead
      <3>5. Len(blocks) \in 1 .. Len(blocks)
        BY <1>2
      <3> QED BY <3>4, <3>5 DEF NestInv
    <2> QED BY <1>2, <1>4, <2>1 DEF NestedAt
  <1>6. ASSUME NEW d \in 1 .. Len(after), ~ after[d], ElseRead(more, d) PROVE FALSE
    <2>1. \A j \in Len(lines) + 1 .. Len(lines) + 1 : more[j].kind # "Else"
      BY <1>1, <1>3
    <2>2. ElseRead(lines, d)
      BY <1>6, <2>1, ElseReadExtends
    <2> QED BY <1>6, <2>2 DEF NestInv, after
  <1> QED BY <1>2, <1>3, <1>4, <1>5, <1>6, NestLine DEF after

(* ELSE needs one too, and the condition then has it. *)
LEMMA NestElse ==
  ASSUME NEW lines, NEW blocks, NestInv(lines, blocks),
         NEW more, Extends(more, lines, 1),
         more[Len(lines) + 1].kind = "Else", Len(blocks) > 0, ~ blocks[Len(blocks)]
  PROVE  NestInv(more, Append(Outermost(blocks), TRUE))
  <1> DEFINE after == Append(Outermost(blocks), TRUE)
  <1>1. PICK n : n = Len(lines) + 1
    OBVIOUS
  <1>2. /\ blocks \in Seq(BOOLEAN) /\ Len(blocks) \in Nat
        /\ after \in Seq(BOOLEAN) /\ Len(after) = Len(blocks)
        /\ after[Len(blocks)] = TRUE
        /\ \A d \in 1 .. Len(blocks) - 1 : after[d] = blocks[d]
    <2>1. blocks \in Seq(BOOLEAN) /\ Len(blocks) \in Nat
      BY DEF NestInv
    <2>2. PICK yes \in BOOLEAN : yes = TRUE
      BY Zenon
    <2>3. PICK a : a = Append(Outermost(blocks), yes)
      OBVIOUS
    <2>4. /\ a \in Seq(BOOLEAN)
          /\ Len(a) = Len(blocks)
          /\ a[Len(blocks)] = yes
          /\ \A d \in 1 .. Len(blocks) - 1 : a[d] = blocks[d]
      BY <2>1, <2>3, OtherTop
    <2>5. a = after
      BY <2>2, <2>3, Zenon
    <2> QED BY <2>1, <2>2, <2>4, <2>5, Zenon
  <1> HIDE DEF after
  <1>3. /\ n \in Nat /\ Len(more) = n /\ n - 1 = Len(lines)
        /\ Depth(more, n - 1) = Len(blocks)
        /\ Depth(more, n) = Len(blocks) + Deeper(more[n].kind)
        /\ Depth(more, n) >= 0 => Count(more, "EndIf", n) <= Count(more, "If", n)
    BY <1>1, LineDepth
  <1>4. /\ Depth(more, n) = Len(blocks)
        /\ Count(more, "EndIf", n) <= Count(more, "If", n)
    <2>1. Deeper(more[n].kind) = 0
      BY <1>1 DEF Deeper
    <2> QED BY <1>2, <1>3, <2>1
  <1>5. NestedAt(more, n)
    <2>1. ASSUME NEW j \in 1 .. n - 1, more[j].kind = "Else", SameGroup(more, j, n),
                 Depth(more, j) = Depth(more, n)
          PROVE  FALSE
      <3>1. j \in 1 .. Len(lines) /\ lines[j].kind = "Else"
        BY <1>3, <2>1 DEF Extends
      <3>2. Depth(lines, j) = Len(blocks)
        <4>1. j \in 0 .. Len(lines)
          BY <3>1
        <4> QED BY <1>4, <2>1, <4>1, DepthExtends
      <3>3. ASSUME NEW m \in j .. Len(lines) PROVE Depth(lines, m) >= Len(blocks)
        <4>1. m \in 0 .. Len(lines) /\ (m = j \/ m \in j + 1 .. n)
          BY <1>3, <3>1
        <4>2. Depth(lines, m) = Depth(more, m)
          BY <4>1, DepthExtends
        <4> QED BY <1>2, <2>1, <3>2, <1>4, <4>1, <4>2 DEF SameGroup
      <3>4. ElseRead(lines, Len(blocks))
        BY <3>1, <3>2, <3>3 DEF ElseRead
      <3>5. Len(blocks) \in 1 .. Len(blocks)
        BY <1>2
      <3> QED BY <3>4, <3>5 DEF NestInv
    <2> QED BY <1>2, <1>4, <2>1 DEF NestedAt
  <1>6. ASSUME NEW d \in 1 .. Len(after), ~ after[d], ElseRead(more, d) PROVE FALSE
    <2>1. d \in 1 .. Len(blocks) - 1
      BY <1>2, <1>6
    <2>2. \A j \in Len(lines) + 1 .. Len(lines) + 1 : Depth(more, j) # d
      <3>1. \A j \in Len(lines) + 1 .. Len(lines) + 1 : j = n
        BY <1>1, <1>3
      <3> QED BY <1>2, <1>4, <2>1, <3>1
    <2>3. ElseRead(lines, d)
      BY <1>6, <2>2, ElseReadExtends
    <2> QED BY <1>2, <1>6, <2>1, <2>3 DEF NestInv
  <1> QED BY <1>2, <1>3, <1>4, <1>5, <1>6, NestLine DEF after

(* ENDIF closes the innermost condition. *)
LEMMA NestEndIf ==
  ASSUME NEW lines, NEW blocks, NestInv(lines, blocks),
         NEW more, Extends(more, lines, 1),
         more[Len(lines) + 1].kind = "EndIf", Len(blocks) > 0
  PROVE  NestInv(more, Outermost(blocks))
  <1> DEFINE after == Outermost(blocks)
  <1>1. PICK n : n = Len(lines) + 1
    OBVIOUS
  <1>2. /\ blocks \in Seq(BOOLEAN) /\ Len(blocks) \in Nat
        /\ after \in Seq(BOOLEAN) /\ Len(after) = Len(blocks) - 1
        /\ \A d \in 1 .. Len(blocks) - 1 : after[d] = blocks[d]
    BY DEF NestInv, Outermost
  <1> HIDE DEF after
  <1>3. /\ n \in Nat /\ Len(more) = n /\ n - 1 = Len(lines)
        /\ Depth(more, n - 1) = Len(blocks)
        /\ Depth(more, n) = Len(blocks) + Deeper(more[n].kind)
        /\ Depth(more, n) >= 0 => Count(more, "EndIf", n) <= Count(more, "If", n)
    BY <1>1, LineDepth
  <1>4. /\ Depth(more, n) = Len(blocks) - 1
        /\ Count(more, "EndIf", n) <= Count(more, "If", n)
    <2>1. Deeper(more[n].kind) = -1
      BY <1>1 DEF Deeper
    <2> QED BY <1>2, <1>3, <2>1
  <1>5. NestedAt(more, n)
    BY <1>1, <1>4 DEF NestedAt
  <1>6. ASSUME NEW d \in 1 .. Len(after), ~ after[d], ElseRead(more, d) PROVE FALSE
    <2>1. \A j \in Len(lines) + 1 .. Len(lines) + 1 : more[j].kind # "Else"
      BY <1>1, <1>3
    <2>2. ElseRead(lines, d)
      BY <1>6, <2>1, ElseReadExtends
    <2>3. d \in 1 .. Len(blocks) /\ ~ blocks[d]
      BY <1>2, <1>6
    <2> QED BY <2>2, <2>3 DEF NestInv
  <1> QED BY <1>2, <1>3, <1>4, <1>5, <1>6, NestLine DEF after
-----------------------------------------------------------------------------
(***************************************************************************)
(* The lines of the writer in the order of the file.                       *)
(***************************************************************************)
Ordered(lines) == AddNodes(lines, Empty)

LEMMA OrderedIs ==
  ASSUME NEW lines, IsNodes(lines)
  PROVE  /\ Len(lines) \in Nat
         /\ Len(Ordered(lines)) = Len(lines)
         /\ \A i \in 1 .. Len(lines) : Ordered(lines)[i] = lines[Len(lines) + 1 - i]
  <1>1. IsNodes(Empty) /\ Len(Empty) = 0 /\ Len(lines) \in Nat
    BY DEF IsNodes, Empty
  <1>2. /\ Len(AddNodes(lines, Empty)) = Len(lines) + Len(Empty)
        /\ \A i \in 1 .. Len(lines) + Len(Empty) :
             AddNodes(lines, Empty)[i] =
               IF i <= Len(lines) THEN lines[Len(lines) + 1 - i] ELSE Empty[i - Len(lines)]
    BY <1>1, AddNodesIs
  <1> QED BY <1>1, <1>2 DEF Ordered

(* k nodes added in front of the list are k lines behind the others. *)
LEMMA OrderedExtends ==
  ASSUME NEW lines, IsNodes(lines), NEW more, IsNodes(more), NEW k \in Nat,
         Len(more) = Len(lines) + k,
         \A i \in 1 .. Len(lines) : more[i + k] = lines[i]
  PROVE  /\ Extends(Ordered(more), Ordered(lines), k)
         /\ \A j \in 1 .. k : Ordered(more)[Len(lines) + j] = more[k + 1 - j]
  <1>1. Len(lines) \in Nat /\ Len(Ordered(lines)) = Len(lines)
    BY OrderedIs
  <1>2. Len(Ordered(more)) = Len(lines) + k
    BY OrderedIs
  <1>3. ASSUME NEW i \in 1 .. Len(lines) PROVE Ordered(more)[i] = Ordered(lines)[i]
    <2>1. i \in 1 .. Len(more) /\ Len(more) + 1 - i = (Len(lines) + 1 - i) + k
      BY <1>1
    <2>2. Len(lines) + 1 - i \in 1 .. Len(lines)
      BY <1>1
    <2>3. Ordered(more)[i] = more[Len(more) + 1 - i]
      BY <2>1, OrderedIs
    <2>4. Ordered(lines)[i] = lines[Len(lines) + 1 - i]
      BY OrderedIs
    <2> QED BY <2>1, <2>2, <2>3, <2>4
  <1>4. ASSUME NEW j \in 1 .. k PROVE Ordered(more)[Len(lines) + j] = more[k + 1 - j]
    <2>1. Len(lines) + j \in 1 .. Len(more) /\ Len(more) + 1 - (Len(lines) + j) = k + 1 - j
      BY <1>1
    <2> QED BY <2>1, OrderedIs
  <1> QED BY <1>1, <1>2, <1>3, <1>4 DEF Extends

(* One node. *)
LEMMA OrderedLine ==
  ASSUME NEW lines, IsNodes(lines), NEW node
  PROVE  /\ Extends(Ordered(AddNode(node, lines)), Ordered(lines), 1)
         /\ Ordered(AddNode(node, lines))[Len(Ordered(lines)) + 1] = node
  <1>1. /\ IsNodes(AddNode(node, lines))
        /\ Len(AddNode(node, lines)) = Len(lines) + 1
        /\ \A i \in 1 .. Len(lines) + 1 :
             AddNode(node, lines)[i] = IF i = 1 THEN node ELSE lines[i - 1]
    BY AddNodeIs
  <1>2. Len(lines) \in Nat /\ Len(Ordered(lines)) = Len(lines)
    BY OrderedIs
  <1>3. PICK more : more = AddNode(node, lines)
    OBVIOUS
  <1>4. more[1] = node
    BY <1>1, <1>2, <1>3
  <1>5. \A i \in 1 .. Len(lines) : more[i + 1] = lines[i]
    <2>1. \A i \in 1 .. Len(lines) :
            i + 1 \in 1 .. Len(lines) + 1 /\ i + 1 # 1 /\ (i + 1) - 1 = i
      BY <1>2
    <2> QED BY <1>1, <1>3, <2>1
  <1>6. /\ Extends(Ordered(more), Ordered(lines), 1)
        /\ \A j \in 1 .. 1 : Ordered(more)[Len(lines) + j] = more[1 + 1 - j]
    BY <1>1, <1>3, <1>5, OrderedExtends
  <1> QED BY <1>2, <1>3, <1>4, <1>6

(* The lines of a language block. *)
LEMMA OrderedBlock ==
  ASSUME WriterInv(w), NEW it \in Items, Accepted(it),
         it.item \in {"langFiles", "langPackages"},
         NEW type, NEW newType, NEW uid, LanguageBlock(it.srcs, type, newType, uid)
  PROVE  /\ Len(w.langStrings) > 0
         /\ \E more : /\ w' = [w EXCEPT !.lines = more]
                      /\ pBlocks' = pBlocks
                      /\ Extends(Ordered(more), Ordered(w.lines), GetNoLanguages)
                      /\ \A j \in 1 .. GetNoLanguages :
                           /\ Ordered(more)[Len(w.lines) + j].kind = "LanguageFile"
                           /\ Ordered(more)[Len(w.lines) + j].dest
  <1>1. it.srcs \in Seq(STRING) /\ it.srcs \in NamesOf(it)
    BY ItemNames
  <1>2. Len(it.srcs) = GetNoLanguages
    <2>1. LanguagesAt(it) = GetNoLanguages
      BY DEF LanguagesAt
    <2> QED BY <1>1, <2>1, AcceptedItem
  <1>3. /\ IsNodes(it.srcs) /\ IsNodes(w.lines) /\ IsNodes(w.languages)
        /\ OptionStrings(w.lines, GetNoLanguages) /\ GetNoLanguages \in Nat
    BY <1>1, SeqIsNodes DEF WriterInv, GetNoLanguages, IsNodes
  <1> DEFINE more == BlockLines(it.srcs, w.lines, type, newType, uid)
  <1>4. w' = [w EXCEPT !.lines = more] /\ pBlocks' = pBlocks
    BY DEF LanguageBlock, Stores, BlockLines
  <1>5. /\ IsNodes(more) /\ OptionStrings(more, GetNoLanguages)
        /\ Len(more) = GetNoLanguages + Len(w.lines)
        /\ \A i \in 1 .. GetNoLanguages : more[i].kind = "LanguageFile" /\ more[i].dest
        /\ \A i \in 1 .. Len(w.lines) : more[i + GetNoLanguages] = w.lines[i]
    BY <1>2, <1>3, LanguageLines
  <1> HIDE DEF more
  <1>7. Len(w.lines) \in Nat /\ Len(more) = Len(w.lines) + GetNoLanguages
    BY <1>3, <1>5 DEF IsNodes
  <1>8. /\ Extends(Ordered(more), Ordered(w.lines), GetNoLanguages)
        /\ \A j \in 1 .. GetNoLanguages :
             Ordered(more)[Len(w.lines) + j] = more[GetNoLanguages + 1 - j]
    BY <1>3, <1>5, <1>7, OrderedExtends, ZenonT(60)
  <1>9. \A j \in 1 .. GetNoLanguages : GetNoLanguages + 1 - j \in 1 .. GetNoLanguages
    BY <1>3
  <1>10. Len(w.langStrings) > 0
    <2>1. w.langStrings # Empty
      BY AcceptedItem DEF NeedsHeader, AreLangStringInit
    <2>2. IsNodes(w.langStrings) /\ Len(w.langStrings) \in Nat
      BY DEF WriterInv, IsNodes
    <2> QED BY <2>1, <2>2, EmptyIsZero
  <1>11. \A j \in 1 .. GetNoLanguages :
           /\ Ordered(more)[Len(w.lines) + j].kind = "LanguageFile"
           /\ Ordered(more)[Len(w.lines) + j].dest
    BY <1>5, <1>8, <1>9
  <1> QED BY <1>4, <1>8, <1>10, <1>11
-----------------------------------------------------------------------------
(***************************************************************************)
(* Language blocks: as many lines as there are languages, again and again. *)
(***************************************************************************)
NoLanguageFile(lines) == \A i \in 1 .. Len(lines) : lines[i].kind # "LanguageFile"

LanguageInv(lines, n) ==
  /\ \E q \in Nat : Count(lines, "LanguageFile", Len(lines)) = q * n
  /\ LanguageBlocksWhole(lines, n)
  /\ \A i \in 1 .. Len(lines) : lines[i].kind = "LanguageFile" => lines[i].dest

LEMMA Multiple ==
  ASSUME NEW q \in Nat, NEW n \in Nat, n > 0
  PROVE  (q * n) % n = 0
  <1> DEFINE r == (q * n) % n
             d == (q * n) \div n
  <1>1. q * n \in Nat
    OBVIOUS
  <1>2. r \in 0 .. n - 1 /\ d \in Int /\ q * n = n * d + r
    BY <1>1
  <1> HIDE DEF r, d
  <1>3. n * (q - d) = r
    BY <1>2
  <1>4. ~ (q - d >= 1)
    <2> SUFFICES ASSUME q - d >= 1 PROVE FALSE
      OBVIOUS
    <2>1. n * (q - d) >= n
      BY <1>2
    <2> QED BY <1>2, <1>3, <2>1
  <1>5. ~ (q - d <= -1)
    <2> SUFFICES ASSUME q - d <= -1 PROVE FALSE
      OBVIOUS
    <2>1. n * (q - d) <= -n
      BY <1>2
    <2> QED BY <1>2, <1>3, <2>1
  <1>6. q - d = 0
    BY <1>2, <1>4, <1>5
  <1>7. r = 0
    BY <1>3, <1>6
  <1> QED BY <1>7 DEF r

(* No language block yet: whatever the number of languages will be. *)
LEMMA LanguageNone ==
  ASSUME NEW lines, Len(lines) \in Nat, NoLanguageFile(lines), NEW n \in Nat
  PROVE  LanguageInv(lines, n)
  <1>1. Count(lines, "LanguageFile", Len(lines)) = Count(lines, "LanguageFile", 0)
    <2>1. \A j \in 0 + 1 .. Len(lines) : lines[j].kind # "LanguageFile"
      BY DEF NoLanguageFile
    <2> QED BY <2>1, CountNone
  <1>2. Count(lines, "LanguageFile", Len(lines)) = 0 * n
    BY <1>1, CountZero
  <1> QED BY <1>2 DEF LanguageInv, LanguageBlocksWhole, NoLanguageFile

(* Another line. *)
LEMMA LanguageOther ==
  ASSUME NEW lines, NEW n \in Nat, LanguageInv(lines, n),
         NEW more, Extends(more, lines, 1), more[Len(lines) + 1].kind # "LanguageFile"
  PROVE  LanguageInv(more, n)
  <1> /\ Len(lines) \in Nat /\ Len(more) = Len(lines) + 1
      /\ \A i \in 1 .. Len(lines) : more[i] = lines[i]
    BY DEF Extends
  <1>1. \A k \in 0 .. Len(lines) :
          Count(more, "LanguageFile", k) = Count(lines, "LanguageFile", k)
    BY CountExtends
  <1>2. Count(more, "LanguageFile", Len(more)) = Count(lines, "LanguageFile", Len(lines))
    <2>1. \A j \in Len(lines) + 1 .. Len(more) : more[j].kind # "LanguageFile"
      OBVIOUS
    <2>2. Count(more, "LanguageFile", Len(more)) = Count(more, "LanguageFile", Len(lines))
      BY <2>1, CountNone
    <2> QED BY <1>1, <2>2
  <1>3. \A i \in 1 .. Len(more) : more[i].kind = "LanguageFile" =>
          i \in 1 .. Len(lines) /\ lines[i] = more[i]
    OBVIOUS
  <1>4. ASSUME NEW k \in 1 .. Len(more), more[k].kind = "LanguageFile",
               k = Len(more) \/ more[k + 1].kind # "LanguageFile"
        PROVE  Count(more, "LanguageFile", k) % n = 0
    <2>1. k \in 1 .. Len(lines) /\ lines[k].kind = "LanguageFile"
      BY <1>3, <1>4
    <2>2. k = Len(lines) \/ lines[k + 1].kind # "LanguageFile"
      <3>1. CASE k # Len(lines)
        <4>1. k + 1 \in 1 .. Len(lines) /\ k # Len(more)
          BY <2>1, <3>1
        <4> QED BY <1>4, <4>1
      <3> QED BY <3>1
    <2>3. Count(lines, "LanguageFile", k) % n = 0
      BY <2>1, <2>2 DEF LanguageInv, LanguageBlocksWhole
    <2>4. k \in 0 .. Len(lines)
      BY <2>1
    <2> QED BY <1>1, <2>3, <2>4
  <1>5. \A i \in 1 .. Len(more) : more[i].kind = "LanguageFile" => more[i].dest
    BY <1>3 DEF LanguageInv
  <1>6. \E q \in Nat : Count(more, "LanguageFile", Len(more)) = q * n
    BY <1>2 DEF LanguageInv
  <1>7. LanguageBlocksWhole(more, n)
    BY <1>4 DEF LanguageBlocksWhole
  <1> QED BY <1>5, <1>6, <1>7 DEF LanguageInv

(* Another block. *)
LEMMA LanguageMore ==
  ASSUME NEW lines, NEW n \in Nat, n > 0, LanguageInv(lines, n),
         NEW more, Extends(more, lines, n),
         \A j \in 1 .. n : /\ more[Len(lines) + j].kind = "LanguageFile"
                           /\ more[Len(lines) + j].dest
  PROVE  LanguageInv(more, n)
  <1> /\ Len(lines) \in Nat /\ Len(more) = Len(lines) + n
      /\ \A i \in 1 .. Len(lines) : more[i] = lines[i]
    BY DEF Extends
  <1>1. \A k \in 0 .. Len(lines) :
          Count(more, "LanguageFile", k) = Count(lines, "LanguageFile", k)
    BY CountExtends
  <1>2. ASSUME NEW i \in Len(lines) + 1 .. Len(more)
        PROVE  more[i].kind = "LanguageFile" /\ more[i].dest
    <2>1. i - Len(lines) \in 1 .. n /\ Len(lines) + (i - Len(lines)) = i
      OBVIOUS
    <2> QED BY <2>1
  <1>3. PICK q \in Nat : Count(lines, "LanguageFile", Len(lines)) = q * n
    BY DEF LanguageInv
  <1>4. Count(more, "LanguageFile", Len(more)) = (q + 1) * n
    <2>1. Count(more, "LanguageFile", Len(more)) =
            Count(more, "LanguageFile", Len(lines)) + (Len(more) - Len(lines))
      BY <1>2, CountAll
    <2>2. Len(more) - Len(lines) = n
      OBVIOUS
    <2>3. Count(more, "LanguageFile", Len(lines)) = q * n
      BY <1>1, <1>3
    <2>4. q * n + n = (q + 1) * n
      OBVIOUS
    <2> QED BY <2>1, <2>2, <2>3, <2>4
  <1>5. ASSUME NEW k \in 1 .. Len(more), more[k].kind = "LanguageFile",
               k = Len(more) \/ more[k + 1].kind # "LanguageFile"
        PROVE  Count(more, "LanguageFile", k) % n = 0
    <2>1. CASE k = Len(more)
      <3>1. q + 1 \in Nat
        OBVIOUS
      <3>2. ((q + 1) * n) % n = 0
        BY <3>1, Multiple
      <3> QED BY <1>4, <2>1, <3>2
    <2>2. CASE k < Len(lines)
      <3>1. k \in 1 .. Len(lines) /\ k + 1 \in 1 .. Len(lines) /\ k \in 0 .. Len(lines)
        BY <2>2
      <3>2. k # Len(more)
        BY <2>2
      <3>3. Count(lines, "LanguageFile", k) % n = 0
        BY <1>5, <3>1, <3>2 DEF LanguageInv, LanguageBlocksWhole
      <3> QED BY <1>1, <3>1, <3>3
    <2>3. CASE k >= Len(lines) /\ k < Len(more)
      <3>1. k + 1 \in Len(lines) + 1 .. Len(more)
        BY <2>3
      <3> QED BY <1>2, <1>5, <2>3, <3>1
    <2> QED BY <2>1, <2>2, <2>3
  <1>6. ASSUME NEW i \in 1 .. Len(more), more[i].kind = "LanguageFile" PROVE more[i].dest
    <2>1. CASE i <= Len(lines)
      BY <1>6, <2>1 DEF LanguageInv
    <2>2. CASE i > Len(lines)
      BY <1>2, <2>2
    <2> QED BY <2>1, <2>2
  <1>7. LanguageBlocksWhole(more, n)
    BY <1>5 DEF LanguageBlocksWhole
  <1>8. q + 1 \in Nat
    OBVIOUS
  <1> QED BY <1>4, <1>6, <1>7, <1>8 DEF LanguageInv
-----------------------------------------------------------------------------
(***************************************************************************)
(* What an item does to lines, stack and languages.                        *)
(***************************************************************************)

(* The innermost condition still takes ELSEIF and ELSE. *)
TakesElse == Len(pBlocks) > 0 /\ ~ pBlocks[Len(pBlocks)]

(* A line of this kind may come now, and does that to the stack. *)
Fits(kind) ==
  \/ kind \in {"File", "Option"} /\ pBlocks' = pBlocks
  \/ kind = "If" /\ pBlocks' = Append(pBlocks, FALSE)
  \/ kind = "ElseIf" /\ TakesElse /\ pBlocks' = pBlocks
  \/ kind = "Else" /\ TakesElse /\ pBlocks' = Append(Outermost(pBlocks), TRUE)
  \/ kind = "EndIf" /\ Len(pBlocks) > 0 /\ pBlocks' = Outermost(pBlocks)

(* No line; languages may be declared until there is a header. *)
AddsNoLine ==
  /\ w'.lines = w.lines /\ pBlocks' = pBlocks
  /\ Len(w.langStrings) > 0 =>
       w'.languages = w.languages /\ Len(w'.langStrings) > 0

AddsLine ==
  \E node : w' = [w EXCEPT !.lines = AddNode(node, w.lines)] /\ Fits(node.kind)

AddsBlock ==
  /\ Len(w.langStrings) > 0
  /\ pBlocks' = pBlocks
  /\ \E more : /\ w' = [w EXCEPT !.lines = more]
               /\ Extends(Ordered(more), Ordered(w.lines), GetNoLanguages)
               /\ \A j \in 1 .. GetNoLanguages :
                    /\ Ordered(more)[Len(w.lines) + j].kind = "LanguageFile"
                    /\ Ordered(more)[Len(w.lines) + j].dest

Languages == KLangOptions \cup {ELangEnglish}

(* An accepted item may come at this place, and its languages are known. *)
LEMMA AcceptedPlace ==
  ASSUME NEW it \in Items, Accepted(it)
  PROVE  /\ it.item \in Allowed
         /\ it.item = "languages" =>
              \A i \in 1 .. Len(it.langs) : it.langs[i] \in KLangOptions
  <1>1. /\ Len(Checks(it)) = 13
        /\ Checks(it)[1].wrong = (it.item \notin Allowed)
        /\ Checks(it)[4].wrong =
             (it.item = "languages" /\ \E i \in 1 .. Len(it.langs) : ~ IsLanguage(it.langs[i]))
    BY DEF Checks, Check
  <1>2. ASSUME NEW i \in 1 .. 13 PROVE ~ Checks(it)[i].wrong
    <2>1. Len(Checks(it)) = 13
      BY <1>1
    <2> QED BY <2>1 DEF Accepted
  <1>3. ~ Checks(it)[1].wrong /\ ~ Checks(it)[4].wrong
    BY <1>2
  <1> QED BY <1>1, <1>3, Zenon DEF IsLanguage

(* ELSEIF, ELSE and ENDIF come where ParseIfBlockL expects them. *)
LEMMA IfItemsFit ==
  ASSUME NEW it \in Items, Accepted(it), pBlocks \in Seq(BOOLEAN)
  PROVE  /\ it.item \in {"elseif", "else"} => TakesElse
         /\ it.item = "endif" => Len(pBlocks) > 0
  <1>1. it.item \in Allowed
    BY AcceptedPlace
  <1>2. it.item \in {"elseif", "else", "endif"} => it.item \in IfItems
    BY <1>1 DEF Allowed, EmbeddedItems, TopItems
  <1>3. pBlocks # Empty => Len(pBlocks) > 0
    BY DEF Empty
  <1>4. CASE pBlocks = Empty
    BY <1>2, <1>4 DEF IfItems
  <1>5. CASE pBlocks # Empty /\ ~ pBlocks[Len(pBlocks)]
    BY <1>3, <1>5 DEF TakesElse
  <1>6. CASE pBlocks # Empty /\ pBlocks[Len(pBlocks)]
    <2>1. IfItems = {"endif"}
      BY <1>6 DEF IfItems
    <2> QED BY <1>2, <1>3, <1>6, <2>1
  <1> QED BY <1>4, <1>5, <1>6

(* What is not languages, names or lines leaves those alone. *)
LEMMA OtherFieldKeeps ==
  ASSUME WriterInv(w), NEW v,
         NEW f \in {"vendorName", "logos", "capabilities", "depends", "platformDepends"},
         NEW wr, wr = [w EXCEPT ![f] = v]
  PROVE  wr.languages = w.languages /\ wr.langStrings = w.langStrings /\ wr.lines = w.lines
  BY DEF WriterInv, EmptyWriter

(* So do lines. *)
LEMMA LinesKeep ==
  ASSUME WriterInv(w), NEW lines, NEW wr, wr = [w EXCEPT !.lines = lines]
  PROVE  wr.languages = w.languages /\ wr.langStrings = w.langStrings /\ wr.lines = lines
  BY DEF WriterInv, EmptyWriter

(* Before there is a header, or when there is none to come. *)
LEMMA NamesNeedLanguages ==
  ASSUME WriterInv(w), Len(w.langStrings) > 0
  PROVE  w.languages # Empty /\ w.langStrings # Empty
  <1>1. IsNodes(w.languages) /\ Len(w.languages) = Len(w.langStrings)
    BY DEF WriterInv, IsNodes
  <1>2. Len(Empty) = 0
    BY DEF Empty
  <1> QED BY <1>1, <1>2

(* Every item adds no line, a line that fits, or a language block; and the *)
(* languages stay a list of languages.                                     *)
LEMMA ItemChanges ==
  ASSUME WriterInv(w), pBlocks \in Seq(BOOLEAN), w.languages \in Seq(Languages),
         NEW it \in Items, ParseItem(it)
  PROVE  /\ AddsNoLine \/ AddsLine \/ AddsBlock
         /\ w'.languages \in Seq(Languages)
  <1>1. DOMAIN w = DOMAIN EmptyWriter
    BY DEF WriterInv
  <1>2. LanguagesOrEnglish \in Seq(Languages)
    <2>1. ELangEnglish \in Languages
      BY DEF Languages
    <2>2. <<ELangEnglish>> \in Seq(Languages)
      BY <2>1
    <2> QED BY <2>2 DEF LanguagesOrEnglish
  <1>3. CASE ParseLanguagesL(it)
    <2>1. /\ it.item = "languages" /\ Accepted(it) /\ pBlocks' = pBlocks
          /\ w' = [w EXCEPT !.languages = AddNodes(it.langs, w.languages)]
      BY <1>3 DEF ParseLanguagesL, Reads, Stores
    <2>2. w.languages = Empty /\ it.langs \in Seq(STRING)
      BY <2>1, AcceptedItem, ItemNames
    <2>3. \A i \in 1 .. Len(it.langs) : it.langs[i] \in KLangOptions
      BY <2>1, AcceptedPlace
    <2>4. PICK langs : langs = it.langs
      OBVIOUS
    <2>5. /\ Len(langs) \in Nat /\ Len(Empty) = 0
          /\ \A i \in 1 .. Len(langs) : langs[i] \in Languages
      BY <2>2, <2>3, <2>4 DEF Languages, Empty
    <2>6. AddNodes(langs, Empty) = [i \in 1 .. Len(langs) |-> langs[Len(langs) + 1 - i]]
      BY <2>5 DEF AddNodes
    <2>7. \A i \in 1 .. Len(langs) : Len(langs) + 1 - i \in 1 .. Len(langs)
      BY <2>5
    <2>8. AddNodes(langs, Empty) \in Seq(Languages)
      BY <2>5, <2>6, <2>7
    <2>9. w'.languages = AddNodes(langs, Empty) /\ w'.lines = w.lines
      BY <1>1, <2>1, <2>2, <2>4 DEF EmptyWriter
    <2>10. AddsNoLine
      BY <2>1, <2>2, <2>9, NamesNeedLanguages DEF AddsNoLine
    <2> QED BY <2>8, <2>9, <2>10
  <1>4. CASE ParseHeaderL(it)
    <2>1. /\ it.item = "header" /\ Accepted(it) /\ pBlocks' = pBlocks
          /\ w' = [w EXCEPT !.languages = LanguagesOrEnglish,
                            !.langStrings = AddNodes(it.names, w.langStrings),
                            !.uid = it.uid]
      BY <1>4 DEF ParseHeaderL, Reads, Stores
    <2>2. w'.languages = LanguagesOrEnglish /\ w'.lines = w.lines
      BY <1>1, <2>1 DEF EmptyWriter
    <2>3. w.langStrings = Empty
      BY <2>1, AcceptedItem DEF AreLangStringInit
    <2> QED BY <1>2, <2>1, <2>2, <2>3, NamesNeedLanguages DEF AddsNoLine
  <1>5. CASE ParseLocalizedVendorNamesL(it)
    <2>1. /\ w' = [w EXCEPT !.languages = LanguagesOrEnglish,
                            !.localizedVendor = AddNodes(it.names, w.localizedVendor)]
          /\ pBlocks' = pBlocks
      BY <1>5 DEF ParseLocalizedVendorNamesL, Stores
    <2>2. /\ w'.languages = LanguagesOrEnglish /\ w'.lines = w.lines
          /\ w'.langStrings = w.langStrings
      BY <1>1, <2>1 DEF EmptyWriter
    <2>3. Len(w.langStrings) > 0 => LanguagesOrEnglish = w.languages
      BY NamesNeedLanguages DEF LanguagesOrEnglish, AreLanguagesInit
    <2> QED BY <1>2, <2>1, <2>2, <2>3 DEF AddsNoLine
  <1>6. CASE ParseVendorNameL(it)
    <2>1. w' = [w EXCEPT !["vendorName"] = TRUE] /\ pBlocks' = pBlocks
      BY <1>6 DEF ParseVendorNameL, Stores
    <2> QED BY <2>1, OtherFieldKeeps DEF AddsNoLine
  <1>7. CASE ParseLogoL(it)
    <2>1. w' = [w EXCEPT !["logos"] = AddNode(it.src, w.logos)] /\ pBlocks' = pBlocks
      BY <1>7 DEF ParseLogoL, Stores
    <2> QED BY <2>1, OtherFieldKeeps DEF AddsNoLine
  <1>8. CASE ParseDependencyL(it)
    <2>1. w' = [w EXCEPT !["depends"] = AddNode(AddNodes(it.names, Empty), w.depends)] /\ pBlocks' = pBlocks
      BY <1>8 DEF ParseDependencyL, Stores
    <2> QED BY <2>1, OtherFieldKeeps DEF AddsNoLine
  <1>9. CASE ParsePlatformDependencyL(it)
    <2>1. w' = [w EXCEPT !["platformDepends"] = AddNode(AddNodes(it.names, Empty), w.platformDepends)] /\ pBlocks' = pBlocks
      BY <1>9 DEF ParsePlatformDependencyL, Stores
    <2> QED BY <2>1, OtherFieldKeeps DEF AddsNoLine
  <1>10. CASE ParseCapabilityL(it)
    <2>1. w' = [w EXCEPT !["capabilities"] = AddNodes(it.pairs, w.capabilities)] /\ pBlocks' = pBlocks
      BY <1>10 DEF ParseCapabilityL, Stores
    <2> QED BY <2>1, OtherFieldKeeps DEF AddsNoLine
  <1>11. CASE ParseSignatureL(it) \/ ParseCommentL(it) \/ ParseThrows(it)
    <2>1. w' = w /\ pBlocks' = pBlocks
      BY <1>11 DEF ParseSignatureL, ParseCommentL, ParseThrows
    <2> QED BY <2>1 DEF AddsNoLine
  <1>12. CASE ParseFileL(it)
    <2> DEFINE node == [kind |-> "File", type |-> it.type, dest |-> TRUE, uid |-> 0,
                        src |-> IF it.type = "Null" THEN "" ELSE it.src]
    <2>1. w' = [w EXCEPT !.lines = AddNode(node, w.lines)] /\ pBlocks' = pBlocks
      BY <1>12 DEF ParseFileL, Stores
    <2>2. Fits(node.kind)
      BY <2>1 DEF Fits
    <2> HIDE DEF node
    <2> QED BY <2>1, <2>2, LinesKeep DEF AddsLine
  <1>13. CASE ParsePackageL(it)
    <2> DEFINE node == [kind |-> "File", type |-> "Component", dest |-> TRUE,
                        src |-> it.src, uid |-> it.uid]
    <2>1. w' = [w EXCEPT !.lines = AddNode(node, w.lines)] /\ pBlocks' = pBlocks
      BY <1>13 DEF ParsePackageL, Stores
    <2>2. Fits(node.kind)
      BY <2>1 DEF Fits
    <2> HIDE DEF node
    <2> QED BY <2>1, <2>2, LinesKeep DEF AddsLine
  <1>14. CASE ParseOptionsBlockL(it)
    <2> DEFINE node == [kind |-> "Option", numOptions |-> Len(it.groups),
                        strings |-> [i \in 1 .. Len(it.groups) * GetNoLanguages |->
                          it.groups[Len(it.groups) - ((i - 1) \div GetNoLanguages)]
                                   [GetNoLanguages - ((i - 1) % GetNoLanguages)]]]
    <2>1. w' = [w EXCEPT !.lines = AddNode(node, w.lines)] /\ pBlocks' = pBlocks
      BY <1>14 DEF ParseOptionsBlockL, Stores
    <2>2. Fits(node.kind)
      BY <2>1 DEF Fits
    <2> HIDE DEF node
    <2> QED BY <2>1, <2>2, LinesKeep DEF AddsLine
  <1>15. CASE ParseIf(it)
    <2> DEFINE node == [kind |-> "If", cond |-> it.cond]
    <2>1. /\ w' = [w EXCEPT !.lines = AddNode(node, w.lines)]
          /\ pBlocks' = Append(pBlocks, FALSE) /\ it.item = "if" /\ Accepted(it)
      BY <1>15 DEF ParseIf, AddCondition, Reads, Outer, Outermost
    <2>2. Fits(node.kind)
      BY <2>1, IfItemsFit DEF Fits
    <2> HIDE DEF node
    <2> QED BY <2>1, <2>2, LinesKeep DEF AddsLine
  <1>16. CASE ParseElseIf(it)
    <2> DEFINE node == [kind |-> "ElseIf", cond |-> it.cond]
    <2>1. /\ w' = [w EXCEPT !.lines = AddNode(node, w.lines)]
          /\ pBlocks' = pBlocks /\ it.item = "elseif" /\ Accepted(it)
      BY <1>16 DEF ParseElseIf, AddCondition, Reads, Outer, Outermost
    <2>2. Fits(node.kind)
      BY <2>1, IfItemsFit DEF Fits
    <2> HIDE DEF node
    <2> QED BY <2>1, <2>2, LinesKeep DEF AddsLine
  <1>17. CASE ParseElse(it)
    <2> DEFINE node == [kind |-> "Else"]
    <2>1. /\ w' = [w EXCEPT !.lines = AddNode(node, w.lines)]
          /\ pBlocks' = Append(Outermost(pBlocks), TRUE) /\ it.item = "else" /\ Accepted(it)
      BY <1>17 DEF ParseElse, AddCondition, Reads, Outer, Outermost
    <2>2. Fits(node.kind)
      BY <2>1, IfItemsFit DEF Fits
    <2> HIDE DEF node
    <2> QED BY <2>1, <2>2, LinesKeep DEF AddsLine
  <1>18. CASE ParseEndIf(it)
    <2> DEFINE node == [kind |-> "EndIf"]
    <2>1. /\ w' = [w EXCEPT !.lines = AddNode(node, w.lines)]
          /\ pBlocks' = Outermost(pBlocks) /\ it.item = "endif" /\ Accepted(it)
      BY <1>18 DEF ParseEndIf, AddCondition, Reads, Outer, Outermost
    <2>2. Fits(node.kind)
      BY <2>1, IfItemsFit DEF Fits
    <2> HIDE DEF node
    <2> QED BY <2>1, <2>2, LinesKeep DEF AddsLine
  <1>19. CASE ParseLanguageFiles(it)
    <2>1. it.item = "langFiles" /\ Accepted(it) /\ LanguageBlock(it.srcs, "Simple", it.type, 0)
      BY <1>19 DEF ParseLanguageFiles, Reads
    <2>2. AddsBlock
      BY <2>1, OrderedBlock DEF AddsBlock
    <2>3. w'.languages = w.languages
      BY <2>2, LinesKeep DEF AddsBlock
    <2> QED BY <2>2, <2>3
  <1>20. CASE ParseLanguagePackages(it)
    <2>1. it.item = "langPackages" /\ Accepted(it) /\ LanguageBlock(it.srcs, "Component", "Component", it.uid)
      BY <1>20 DEF ParseLanguagePackages, Reads
    <2>2. AddsBlock
      BY <2>1, OrderedBlock DEF AddsBlock
    <2>3. w'.languages = w.languages
      BY <2>2, LinesKeep DEF AddsBlock
    <2> QED BY <2>2, <2>3
  <1> QED
    BY <1>3, <1>4, <1>5, <1>6, <1>7, <1>8, <1>9, <1>10, <1>11,
       <1>12, <1>13, <1>14, <1>15, <1>16, <1>17, <1>18, <1>19, <1>20
    DEF ParseItem
-----------------------------------------------------------------------------
(***************************************************************************)
(* The invariant of the parser.                                            *)
(***************************************************************************)
KindsKnown(lines) ==
  \A i \in 1 .. Len(lines) :
    lines[i].kind \in {"File", "LanguageFile", "Option", "If", "ElseIf", "Else", "EndIf"}

LinesInv(wr, blocks) ==
  /\ NestInv(Ordered(wr.lines), blocks)
  /\ LanguageInv(Ordered(wr.lines), Len(wr.languages))
  /\ Len(wr.langStrings) = 0 => NoLanguageFile(Ordered(wr.lines))
  /\ KindsKnown(Ordered(wr.lines))

ParserInv ==
  /\ WriterInv(w)
  /\ LinesInv(w, pBlocks)
  /\ w.languages \in Seq(Languages)
  /\ pState \in {"parsing", "parsed", "error"}
  /\ pStub \in BOOLEAN /\ pEnough \in BOOLEAN
  /\ pRead \in 0 .. MaxItems
  /\ pState = "parsed" => pBlocks = Empty

(* No line. *)
LEMMA NoLineKeeps ==
  ASSUME WriterInv(w), WriterInv(w)', LinesInv(w, pBlocks), AddsNoLine
  PROVE  LinesInv(w', pBlocks')
  <1> DEFINE lines == Ordered(w.lines)
  <1>1. w'.lines = w.lines /\ pBlocks' = pBlocks
    BY DEF AddsNoLine
  <1>2. Len(lines) \in Nat /\ Len(w'.languages) \in Nat /\ Len(w.langStrings) \in Nat
    BY OrderedIs DEF WriterInv, IsNodes
  <1> HIDE DEF lines
  <1>3. CASE Len(w.langStrings) > 0
    <2>1. w'.languages = w.languages /\ Len(w'.langStrings) > 0
      BY <1>3 DEF AddsNoLine
    <2>2. Len(w'.langStrings) # 0
      BY <2>1
    <2> QED BY <1>1, <2>1, <2>2 DEF LinesInv, lines
  <1>4. CASE Len(w.langStrings) = 0
    <2>1. NoLanguageFile(lines)
      BY <1>4 DEF LinesInv, lines
    <2>2. LanguageInv(lines, Len(w'.languages))
      BY <1>2, <2>1, LanguageNone
    <2> QED BY <1>1, <2>1, <2>2 DEF LinesInv, lines
  <1> QED BY <1>2, <1>3, <1>4

(* One line that fits. *)
LEMMA LineKeeps ==
  ASSUME WriterInv(w), LinesInv(w, pBlocks), AddsLine
  PROVE  LinesInv(w', pBlocks')
  <1>1. PICK node : w' = [w EXCEPT !.lines = AddNode(node, w.lines)] /\ Fits(node.kind)
    BY DEF AddsLine
  <1> DEFINE lines == Ordered(w.lines)
             more == Ordered(AddNode(node, w.lines))
  <1>2. IsNodes(w.lines) /\ Len(w.languages) \in Nat
    BY DEF WriterInv, IsNodes
  <1>3. /\ w'.lines = AddNode(node, w.lines)
        /\ w'.languages = w.languages /\ w'.langStrings = w.langStrings
    BY <1>1, LinesKeep
  <1>4. /\ Extends(more, lines, 1) /\ more[Len(lines) + 1] = node
        /\ Len(lines) \in Nat
    BY <1>2, OrderedLine, OrderedIs
  <1>5. /\ NestInv(lines, pBlocks) /\ LanguageInv(lines, Len(w.languages))
        /\ KindsKnown(lines)
        /\ Len(w.langStrings) = 0 => NoLanguageFile(lines)
    BY DEF LinesInv
  <1>6. more = Ordered(w'.lines)
    BY <1>3
  <1> HIDE DEF lines, more
  <1>7. node.kind \in {"File", "Option", "If", "ElseIf", "Else", "EndIf"}
    BY <1>1 DEF Fits
  <1>8. NestInv(more, pBlocks')
    <2>1. CASE node.kind \in {"File", "Option"}
      <3>1. pBlocks' = pBlocks
        BY <1>1, <2>1 DEF Fits
      <3>2. \A j \in Len(lines) + 1 .. Len(lines) + 1 :
              more[j].kind \notin {"If", "ElseIf", "Else", "EndIf"}
        BY <1>4, <2>1
      <3> QED BY <1>4, <1>5, <3>1, <3>2, NestOther
    <2>2. CASE node.kind = "If"
      <3>1. pBlocks' = Append(pBlocks, FALSE)
        BY <1>1, <2>2 DEF Fits
      <3> QED BY <1>4, <1>5, <2>2, <3>1, NestIf
    <2>3. CASE node.kind = "ElseIf"
      <3>1. pBlocks' = pBlocks /\ TakesElse
        BY <1>1, <2>3 DEF Fits
      <3> QED BY <1>4, <1>5, <2>3, <3>1, NestElseIf DEF TakesElse
    <2>4. CASE node.kind = "Else"
      <3>1. pBlocks' = Append(Outermost(pBlocks), TRUE) /\ TakesElse
        BY <1>1, <2>4 DEF Fits
      <3> QED BY <1>4, <1>5, <2>4, <3>1, NestElse DEF TakesElse
    <2>5. CASE node.kind = "EndIf"
      <3>1. pBlocks' = Outermost(pBlocks) /\ Len(pBlocks) > 0
        BY <1>1, <2>5 DEF Fits
      <3> QED BY <1>4, <1>5, <2>5, <3>1, NestEndIf
    <2> QED BY <1>7, <2>1, <2>2, <2>3, <2>4, <2>5
  <1>9. LanguageInv(more, Len(w.languages))
    BY <1>2, <1>4, <1>5, <1>7, LanguageOther
  <1>10. \A i \in 1 .. Len(more) : more[i] = node \/ (i \in 1 .. Len(lines) /\ more[i] = lines[i])
    BY <1>4 DEF Extends
  <1>11. KindsKnown(more) /\ (NoLanguageFile(lines) => NoLanguageFile(more))
    BY <1>5, <1>7, <1>10 DEF KindsKnown, NoLanguageFile
  <1> QED BY <1>3, <1>5, <1>6, <1>8, <1>9, <1>11 DEF LinesInv

(* A language block. *)
LEMMA BlockKeeps ==
  ASSUME WriterInv(w), LinesInv(w, pBlocks), AddsBlock
  PROVE  LinesInv(w', pBlocks')
  <1> DEFINE lines == Ordered(w.lines)
             n == GetNoLanguages
  <1>1. PICK new : /\ w' = [w EXCEPT !.lines = new]
                   /\ Extends(Ordered(new), Ordered(w.lines), GetNoLanguages)
                   /\ \A j \in 1 .. GetNoLanguages :
                        /\ Ordered(new)[Len(w.lines) + j].kind = "LanguageFile"
                        /\ Ordered(new)[Len(w.lines) + j].dest
    BY DEF AddsBlock
  <1>2. /\ w'.lines = new /\ w'.languages = w.languages /\ w'.langStrings = w.langStrings
        /\ pBlocks' = pBlocks /\ Len(w.langStrings) > 0
    BY <1>1, LinesKeep DEF AddsBlock
  <1>3. n \in Nat /\ n > 0 /\ n = Len(w.languages)
    BY <1>2 DEF WriterInv, IsNodes, GetNoLanguages
  <1> DEFINE more == Ordered(new)
  <1>4. Len(lines) = Len(w.lines) /\ Len(lines) \in Nat
    BY OrderedIs DEF WriterInv
  <1>5. /\ Extends(more, lines, n)
        /\ \A j \in 1 .. n : more[Len(lines) + j].kind = "LanguageFile" /\ more[Len(lines) + j].dest
    BY <1>1, <1>4
  <1>6. NestInv(lines, pBlocks) /\ LanguageInv(lines, n) /\ KindsKnown(lines)
    BY <1>3 DEF LinesInv
  <1> HIDE DEF lines, more, n
  <1>7. ASSUME NEW i \in Len(lines) + 1 .. Len(lines) + n
        PROVE  more[i].kind = "LanguageFile"
    <2>1. \A a, b \in Nat : \A k \in a + 1 .. a + b : k - a \in 1 .. b /\ a + (k - a) = k
      OBVIOUS
    <2>2. i - Len(lines) \in 1 .. n /\ Len(lines) + (i - Len(lines)) = i
      BY <1>3, <1>4, <2>1, Zenon
    <2> QED BY <1>5, <2>2
  <1>8. NestInv(more, pBlocks)
    <2>1. \A j \in Len(lines) + 1 .. Len(lines) + n :
            more[j].kind \notin {"If", "ElseIf", "Else", "EndIf"}
      BY <1>7
    <2> QED BY <1>5, <1>6, <2>1, NestOther
  <1>9. LanguageInv(more, n)
    BY <1>3, <1>5, <1>6, LanguageMore
  <1>10. KindsKnown(more)
    <2> SUFFICES ASSUME NEW i \in 1 .. Len(more)
                 PROVE  more[i].kind \in {"File", "LanguageFile", "Option", "If", "ElseIf",
                                          "Else", "EndIf"}
      BY DEF KindsKnown
    <2>1. CASE i \in 1 .. Len(lines)
      BY <1>5, <1>6, <2>1 DEF Extends, KindsKnown
    <2>2. CASE i \in Len(lines) + 1 .. Len(lines) + n
      BY <1>7, <2>2
    <2>3. \A a, b \in Nat : \A k \in 1 .. a + b : k \in 1 .. a \/ k \in a + 1 .. a + b
      OBVIOUS
    <2>4. Len(more) = Len(lines) + n
      BY <1>5 DEF Extends
    <2> QED BY <1>3, <1>4, <2>1, <2>2, <2>3, <2>4, Zenon
  <1> QED BY <1>2, <1>3, <1>8, <1>9, <1>10 DEF LinesInv, more
(* The beginning. *)
LEMMA ParserInvInit == PInit => ParserInv
  <1> SUFFICES ASSUME PInit PROVE ParserInv
    OBVIOUS
  <1>1. /\ WriterInv(w) /\ w = EmptyWriter /\ pBlocks = Empty
        /\ pState = "parsing" /\ pStub \in BOOLEAN /\ pEnough = FALSE /\ pRead = 0
    BY WriterInvInit DEF PInit
  <1>2. w.lines = Empty /\ w.languages = Empty /\ w.langStrings = Empty
    BY <1>1 DEF EmptyWriter
  <1>3. IsNodes(Empty) /\ Len(Empty) = 0 /\ Empty \in Seq(BOOLEAN) /\ Empty \in Seq(Languages)
    BY DEF IsNodes, Empty
  <1>4. Len(Ordered(Empty)) = 0
    BY <1>3, OrderedIs
  <1>5. PICK lines : lines = Ordered(Empty)
    OBVIOUS
  <1>6. Len(lines) = 0 /\ Len(lines) \in Nat /\ \A i \in 1 .. Len(lines) : FALSE
    BY <1>4, <1>5
  <1>7. Depth(lines, Len(lines)) = 0
    BY <1>6, CountZero DEF Depth
  <1>8. NestInv(lines, Empty)
    BY <1>3, <1>6, <1>7 DEF NestInv
  <1>9. NoLanguageFile(lines) /\ KindsKnown(lines)
    BY <1>6 DEF NoLanguageFile, KindsKnown
  <1>10. LanguageInv(lines, 0)
    BY <1>6, <1>9, LanguageNone
  <1>11. LinesInv(w, pBlocks)
    BY <1>1, <1>2, <1>3, <1>5, <1>8, <1>9, <1>10 DEF LinesInv
  <1>12. 0 \in 0 .. MaxItems
    BY MaxItemsAssumption
  <1> QED BY <1>1, <1>2, <1>3, <1>11, <1>12 DEF ParserInv

(* What an item does to the rest of the state. *)
LEMMA ItemTypes ==
  ASSUME ParserInv, NEW it \in Items, ParseItem(it)
  PROVE  /\ pState = "parsing"
         /\ pState' \in {"parsing", "error"}
         /\ pStub' \in BOOLEAN /\ pEnough' \in BOOLEAN
         /\ pRead' \in 0 .. MaxItems
  <1> USE MaxItemsAssumption
  <1>1. pStub \in BOOLEAN /\ pEnough \in BOOLEAN /\ pRead \in 0 .. MaxItems
    BY DEF ParserInv
  <1>2. ASSUME NEW item, Reads(it, item)
        PROVE  /\ pState = "parsing" /\ pState' = pState /\ pStub' = pStub
               /\ pRead' \in 0 .. MaxItems
    BY <1>1, <1>2 DEF Reads
  <1>3. CASE ParseThrows(it)
    BY <1>1, <1>3 DEF ParseThrows
  <1>4. CASE \/ ParseLanguagesL(it) \/ ParseHeaderL(it) \/ ParseLocalizedVendorNamesL(it)
             \/ ParseVendorNameL(it) \/ ParseLogoL(it) \/ ParseFileL(it) \/ ParsePackageL(it)
    <2>1. (\E item : Reads(it, item)) /\ pEnough' = pEnough
      BY <1>4 DEF ParseLanguagesL, ParseHeaderL, ParseLocalizedVendorNamesL,
         ParseVendorNameL, ParseLogoL, ParseFileL, ParsePackageL, Stores
    <2> QED BY <1>1, <1>2, <2>1
  <1>5. CASE \/ ParseDependencyL(it) \/ ParsePlatformDependencyL(it) \/ ParseSignatureL(it)
             \/ ParseCapabilityL(it) \/ ParseOptionsBlockL(it)
    <2>1. (\E item : Reads(it, item)) /\ pEnough' \in {pEnough, TRUE}
      BY <1>5 DEF ParseDependencyL, ParsePlatformDependencyL, ParseSignatureL,
         ParseCapabilityL, ParseOptionsBlockL, Stores
    <2> QED BY <1>1, <1>2, <2>1
  <1>6. CASE ParseLanguageFiles(it) \/ ParseLanguagePackages(it) \/ ParseCommentL(it)
    <2>1. (\E item : Reads(it, item)) /\ pEnough' = pEnough
      BY <1>6 DEF ParseLanguageFiles, ParseLanguagePackages, ParseCommentL, LanguageBlock,
         Stores
    <2> QED BY <1>1, <1>2, <2>1
  <1>7. CASE ParseIf(it) \/ ParseElseIf(it) \/ ParseElse(it) \/ ParseEndIf(it)
    <2>1. (\E item : Reads(it, item)) /\ pEnough' = pEnough
      BY <1>7 DEF ParseIf, ParseElseIf, ParseElse, ParseEndIf, AddCondition
    <2> QED BY <1>1, <1>2, <2>1
  <1> QED BY <1>3, <1>4, <1>5, <1>6, <1>7 DEF ParseItem

(* The invariant is kept by every step. *)
LEMMA ParserInvStep == ParserInv /\ [PNext]_pVars => ParserInv'
  <1> SUFFICES ASSUME ParserInv, [PNext]_pVars PROVE ParserInv'
    OBVIOUS
  <1>1. WriterInv(w)'
    BY StepKeepsInv DEF ParserInv
  <1>2. CASE \E it \in Items : ParseItem(it)
    <2>1. PICK it \in Items : ParseItem(it)
      BY <1>2
    <2>2. pBlocks \in Seq(BOOLEAN)
      BY DEF ParserInv, LinesInv, NestInv
    <2>3. /\ AddsNoLine \/ AddsLine \/ AddsBlock
          /\ w'.languages \in Seq(Languages)
      BY <2>1, <2>2, ItemChanges DEF ParserInv
    <2>4. LinesInv(w', pBlocks')
      BY <1>1, <2>3, NoLineKeeps, LineKeeps, BlockKeeps DEF ParserInv
    <2>5. /\ pState' \in {"parsing", "error"} /\ pStub' \in BOOLEAN /\ pEnough' \in BOOLEAN
          /\ pRead' \in 0 .. MaxItems
      BY <2>1, ItemTypes
    <2> QED BY <1>1, <2>3, <2>4, <2>5 DEF ParserInv
  <1>3. CASE ParseEnds
    BY <1>1, <1>3 DEF ParseEnds, ParserInv
  <1>4. CASE ParseEndsInside
    BY <1>1, <1>4 DEF ParseEndsInside, ParserInv
  <1>5. CASE UNCHANGED pVars
    BY <1>1, <1>5 DEF pVars, ParserInv
  <1> QED BY <1>2, <1>3, <1>4, <1>5 DEF PNext

(* For PKG files of every length and depth: the conditions are closed in   *)
(* what is handed to GenerateSISFile, whose stacks are popped unchecked    *)
(* (parsepkg.cpp ParseIfBlockL, sisfilegen.cpp).                           *)
THEOREM ConditionsAreClosed == PSpec => []ConditionsClosed
  <1>1. ParserInv => ConditionsClosed
    <2> SUFFICES ASSUME ParserInv PROVE ConditionsClosed
      OBVIOUS
    <2>1. InOrder = Ordered(w.lines)
      BY DEF InOrder, Ordered
    <2>2. /\ IsNodes(w.lines) /\ DOMAIN w = DOMAIN EmptyWriter
          /\ NestInv(InOrder, pBlocks) /\ KindsKnown(InOrder)
      BY <2>1 DEF ParserInv, LinesInv, WriterInv
    <2>3. NestedSoFar(InOrder)
      BY <2>2 DEF NestInv, NestedAt, NestedSoFar
    <2>4. Depth(InOrder, Len(InOrder)) = Len(pBlocks) /\ pBlocks \in Seq(BOOLEAN)
      BY <2>2 DEF NestInv
    <2>5. pState = "parsed" => Len(pBlocks) = 0
      BY DEF ParserInv, Empty
    <2>6. ASSUME NEW i \in 1 .. Len(w.lines)
          PROVE  w.lines[i].kind \in {"File", "LanguageFile", "Option",
                                      "If", "ElseIf", "Else", "EndIf"}
      <3>1. /\ Len(w.lines) \in Nat /\ Len(InOrder) = Len(w.lines)
            /\ \A k \in 1 .. Len(w.lines) : InOrder[k] = w.lines[Len(w.lines) + 1 - k]
        BY <2>1, <2>2, OrderedIs
      <3>2. PICK k \in 1 .. Len(w.lines) : Len(w.lines) + 1 - k = i
        <4>1. Len(w.lines) + 1 - i \in 1 .. Len(w.lines)
          BY <3>1
        <4>2. Len(w.lines) + 1 - (Len(w.lines) + 1 - i) = i
          BY <3>1
        <4> QED BY <4>1, <4>2
      <3>3. w.lines[i] = InOrder[k] /\ k \in 1 .. Len(InOrder)
        BY <3>1, <3>2
      <3> QED BY <2>2, <3>3 DEF KindsKnown
    <2>7. PTypeOK
      BY <2>2, <2>4, <2>6 DEF PTypeOK, ParserInv, Languages
    <2> QED BY <2>3, <2>4, <2>5, <2>7 DEF ConditionsClosed, WellNested
  <1> QED BY <1>1, ParserInvInit, ParserInvStep, PTL DEF PSpec

(* And language blocks are whole: GenerateSISFile takes a line for each    *)
(* language without looking at it (parsepkg.cpp ParseLanguageBlockL,       *)
(* crtsis.cpp SetLangDependFileDestinations).                              *)
THEOREM LanguageGroupsAreWhole == PSpec => []LanguageGroupsWhole
  <1>1. ParserInv => LanguageGroupsWhole
    <2> SUFFICES ASSUME ParserInv PROVE LanguageGroupsWhole
      OBVIOUS
    <2>1. InOrder = Ordered(w.lines) /\ IsNodes(w.lines)
      BY DEF InOrder, Ordered, ParserInv, WriterInv
    <2>2. LanguageInv(InOrder, GetNoLanguages)
      BY <2>1 DEF ParserInv, LinesInv, GetNoLanguages
    <2>3. ASSUME NEW i \in 1 .. Len(w.lines), w.lines[i].kind = "LanguageFile"
          PROVE  w.lines[i].dest
      <3>1. /\ Len(w.lines) \in Nat /\ Len(InOrder) = Len(w.lines)
            /\ \A k \in 1 .. Len(w.lines) : InOrder[k] = w.lines[Len(w.lines) + 1 - k]
        BY <2>1, OrderedIs
      <3>2. PICK k \in 1 .. Len(w.lines) : Len(w.lines) + 1 - k = i
        <4>1. Len(w.lines) + 1 - i \in 1 .. Len(w.lines)
          BY <3>1
        <4>2. Len(w.lines) + 1 - (Len(w.lines) + 1 - i) = i
          BY <3>1
        <4> QED BY <4>1, <4>2
      <3>3. w.lines[i] = InOrder[k] /\ k \in 1 .. Len(InOrder)
        BY <3>1, <3>2
      <3> QED BY <2>2, <2>3, <3>3 DEF LanguageInv
    <2> QED BY <2>2, <2>3 DEF LanguageGroupsWhole, LanguageInv
  <1> QED BY <1>1, ParserInvInit, ParserInvStep, PTL DEF PSpec

=============================================================================
