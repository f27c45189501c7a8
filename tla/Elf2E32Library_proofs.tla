------------------------ MODULE Elf2E32Library_proofs ------------------------
(***************************************************************************)
(* Proofs about Elf2E32Library, for any names, ELF files, .def files and   *)
(* number of builds: a program that was linked to a frozen export finds it *)
(* in every complete image, doSort compares only names, freezing keeps     *)
(* what was frozen, and the chains of a .dso lead to what the image has.   *)
(*                                                                         *)
(* The argument: what is frozen stays frozen (Good: the .def file that a   *)
(* build writes has every frozen name at its ordinal, so taking it as the  *)
(* next input loses none), a build puts every frozen name at its ordinal   *)
(* before it adds others (Placed), and it gets as far as an image only     *)
(* when each of them has its address (Checked).  A recorded size follows   *)
(* its ordinal from the line to the list and to the next .def file (SInv). *)
(* The chains are threaded one symbol after the other, which is induction  *)
(* over the symbols (Threaded), and DInv carries them over the builds.     *)
(***************************************************************************)
EXTENDS Elf2E32Library, DataLemmas

FrozenIn(lines, n, o) ==
  \E k \in 1 .. Len(lines) :
    ~ lines[k].comment /\ lines[k].name = n /\ lines[k].ordinal = o

AfterCheck == {"writeDef", "finishDef", "writeDso", "finishDso", "writeImage"}

AfterParsing == AfterCheck \cup {"findExports", "dsoOnly", "finishDsoOnly"}

LType ==
  /\ elf \in ElfFiles
  /\ def \in Seq(DefLines)
  /\ exports \in Seq(Export)
  /\ presetOrdinals \in 0 .. Len(exports)
  /\ builds \in 0 .. MaxBuilds
  /\ done \in Nat
  /\ lpc \in AfterParsing \cup {"idle", "parseDefFile"}

LKinds ==
  /\ defoutput.kind \in {"none", "torn", "def"}
  /\ dso.kind \in {"none", "torn", "dso"}
  /\ image.kind \in {"none", "torn", "image"}

Idle == lpc = "idle" => exports = << >> /\ presetOrdinals = 0

(* While the lines are parsed, all entries are preset ones. *)
Full == lpc = "parseDefFile" => presetOrdinals = Len(exports)

(* The first n preset lines are in the list. *)
PlacedUpTo(n) ==
  \A k \in 1 .. n :
    ~ Preset[k].comment => /\ Preset[k].ordinal <= presetOrdinals
                           /\ exports[Preset[k].ordinal].name = Preset[k].name

Placed ==
  /\ lpc = "parseDefFile" => done <= Len(Preset) /\ PlacedUpTo(done)
  /\ lpc \in AfterParsing => PlacedUpTo(Len(Preset))

(* A name among the preset ones is frozen there. *)
Backed ==
  \A i \in 1 .. presetOrdinals :
    exports[i].name = NoName \/ FrozenIn(Preset, exports[i].name, i)

Addresses ==
  /\ \A i \in 1 .. Len(exports) : exports[i].address \in {NoAddress, exports[i].name}
  /\ lpc = "parseDefFile" =>
       \A i \in 1 .. Len(exports) : exports[i].address = NoAddress

Checked ==
  /\ lpc \in AfterCheck => \A i \in 1 .. Len(exports) : exports[i].address # NoAddress
  /\ lpc \in AfterCheck \cup {"findExports"} => image.kind = "torn"

(* What a build has written agrees with all that is frozen. *)
Good ==
  defoutput.kind = "def" =>
    /\ defoutput.lines \in Seq(DefLines)
    /\ \A i \in 1 .. Len(defoutput.lines) :
         defoutput.lines[i].ordinal = i /\ ~ defoutput.lines[i].comment
    /\ \A n \in Name, o \in Nat \ {0} : FrozenIn(Preset, n, o) =>
         o <= Len(defoutput.lines) /\ defoutput.lines[o].name = n

GoodImage ==
  image.kind = "image" =>
    \A n \in Name, o \in Nat \ {0} : FrozenIn(Preset, n, o) =>
      o <= Len(image.directory) /\ image.directory[o] = n

GoodDso ==
  dso.kind = "dso" =>
    /\ dso.frozen \in 0 .. Len(dso.symbols)
    /\ \A i \in 1 .. dso.frozen :
         dso.symbols[i].name = NoName \/ FrozenIn(Preset, dso.symbols[i].name, i)

Linked == \A p \in linked : /\ p \in Name \X (Nat \ {0})
                            /\ FrozenIn(Preset, p[1], p[2])

IInv ==
  /\ LType /\ LKinds /\ Idle /\ Full /\ Consistent(Preset) /\ Placed /\ Backed /\ Addresses
  /\ Checked /\ Good /\ GoodImage /\ GoodDso /\ Linked
-----------------------------------------------------------------------------
LEMMA PresetLines ==
  ASSUME def \in Seq(DefLines)
  PROVE  /\ Preset \in Seq(DefLines)
         /\ Len(Preset) = Len(def) + Len(SysDef)
         /\ \A k \in 1 .. Len(def) : Preset[k] = def[k]
         /\ \A k \in 1 .. Len(SysDef) : Preset[Len(def) + k] = SysDef[k]
  BY InputsAssumption DEF Preset

LEMMA LineTypes ==
  ASSUME def \in Seq(DefLines)
  PROVE  \A k \in 1 .. Len(Preset) : /\ Preset[k] \in DefLines
                                     /\ Preset[k].name \in Name
                                     /\ Preset[k].ordinal \in Nat \ {0}
<1>1. Preset \in Seq(DefLines)
  BY PresetLines
<1>2. \A k \in 1 .. Len(Preset) : Preset[k] \in DefLines
  BY <1>1
<1> QED
  BY <1>2 DEF DefLines

(* Sorting moves entries behind the preset ones and makes none. *)
LEMMA SortKeeps ==
  ASSUME NEW e \in Seq(Export), NEW n \in 0 .. Len(e), NEW t \in doSort(e, n)
  PROVE  /\ t \in Seq(Export)
         /\ Len(t) = Len(e)
         /\ \A i \in 1 .. n : t[i] = e[i]
         /\ \A i \in 1 .. Len(e) : \E j \in 1 .. Len(e) : t[i] = e[j]
<1>1. PICK p \in Bijection(n + 1 .. Len(e), n + 1 .. Len(e)) :
        t = [i \in 1 .. Len(e) |-> IF i < n + 1 THEN e[i] ELSE e[p[i]]]
  BY DEF doSort, SortedFrom
<1>2. p \in [n + 1 .. Len(e) -> n + 1 .. Len(e)]
  BY DEF Bijection, Injection, Surjection, IsInjective
<1>3. \A i \in 1 .. Len(e) : \E j \in 1 .. Len(e) : t[i] = e[j]
  <2> SUFFICES ASSUME NEW i \in 1 .. Len(e) PROVE \E j \in 1 .. Len(e) : t[i] = e[j]
    OBVIOUS
  <2>1. CASE i < n + 1
    BY <1>1, <2>1
  <2>2. CASE ~ (i < n + 1)
    <3>1. i \in n + 1 .. Len(e)
      BY <2>2
    <3>2. p[i] \in n + 1 .. Len(e)
      BY <3>1, <1>2
    <3>3. t[i] = e[p[i]] /\ p[i] \in 1 .. Len(e)
      BY <1>1, <2>2, <3>2
    <3> QED
      BY <3>3
  <2> QED
    BY <2>1, <2>2
<1>4. \A i \in 1 .. Len(e) : t[i] \in Export
  <2>1. \A j \in 1 .. Len(e) : e[j] \in Export
    OBVIOUS
  <2> QED
    BY <2>1, <1>3
<1>5. t \in [1 .. Len(e) -> Export] /\ Len(e) \in Nat
  BY <1>1, <1>4
<1>6. t \in Seq(Export) /\ Len(t) = Len(e)
  BY <1>5
<1>7. \A i \in 1 .. n : t[i] = e[i]
  BY <1>1
<1> QED
  BY <1>3, <1>6, <1>7

(* A line of the .def file gets its place, and nothing else moves. *)
LEMMA PlaceKeeps ==
  ASSUME NEW e \in Seq(Export), NEW line \in DefLines
  PROVE  LET t == addExportOrdinal(e, line) IN
         /\ t \in Seq(Export)
         /\ Len(t) = Longest(Len(e), line.ordinal)
         /\ line.ordinal <= Len(t) /\ Len(e) <= Len(t)
         /\ t[line.ordinal].name = line.name
         /\ \A i \in 1 .. Len(t) : i # line.ordinal =>
              t[i] = IF i \in 1 .. Len(e) THEN e[i] ELSE Hole
         /\ \A i \in 1 .. Len(t) :
              t[i].address = IF i \in 1 .. Len(e) THEN e[i].address ELSE NoAddress
<1> DEFINE m == Longest(Len(e), line.ordinal)
           t == addExportOrdinal(e, line)
<1>0. /\ line.ordinal \in Nat \ {0} /\ line.name \in Name
      /\ line.code \in BOOLEAN /\ line.size \in Nat
  BY DEF DefLines
<1>1. m \in Nat /\ line.ordinal \in 1 .. m /\ Len(e) <= m
  BY <1>0 DEF Longest
<1>2. t = [i \in 1 .. m |->
            IF i = line.ordinal
            THEN [name    |-> line.name,
                  address |-> IF i \in 1 .. Len(e) THEN e[i].address ELSE NoAddress,
                  code    |-> line.code,
                  size    |-> line.size]
            ELSE IF i \in 1 .. Len(e) THEN e[i] ELSE Hole]
  BY DEF addExportOrdinal
<1> HIDE DEF t, m
<1>t. \A i \in 1 .. Len(e) : e[i] \in Export /\ e[i].address \in Name \cup {NoAddress}
  <2>1. \A i \in 1 .. Len(e) : e[i] \in Export
    OBVIOUS
  <2> QED
    BY <2>1 DEF Export
<1>h. Hole \in Export
  BY DEF Export, Hole, NoName, NoAddress
<1>3. \A i \in 1 .. m : t[i] \in Export
  <2> SUFFICES ASSUME NEW i \in 1 .. m PROVE t[i] \in Export
    OBVIOUS
  <2>1. CASE i = line.ordinal
    <3>1. t[i] = [name |-> line.name,
                  address |-> IF i \in 1 .. Len(e) THEN e[i].address ELSE NoAddress,
                  code |-> line.code, size |-> line.size]
      BY <1>2, <2>1
    <3>2. (IF i \in 1 .. Len(e) THEN e[i].address ELSE NoAddress) \in Name \cup {NoAddress}
      BY <1>t
    <3> QED
      BY <3>1, <3>2, <1>0 DEF Export
  <2>2. CASE i # line.ordinal
    BY <1>2, <2>2, <1>t, <1>h
  <2> QED
    BY <2>1, <2>2
<1>4. t \in [1 .. m -> Export]
  BY <1>2, <1>3
<1>5. t \in Seq(Export) /\ Len(t) = m
  BY <1>4, <1>1
<1>6. t[line.ordinal].name = line.name
  BY <1>2, <1>1
<1>7. \A i \in 1 .. m : i # line.ordinal => t[i] = IF i \in 1 .. Len(e) THEN e[i] ELSE Hole
  BY <1>2
<1>8. \A i \in 1 .. m :
        t[i].address = IF i \in 1 .. Len(e) THEN e[i].address ELSE NoAddress
  BY <1>2 DEF Hole
<1> QED
  BY <1>1, <1>5, <1>6, <1>7, <1>8 DEF t, m

(* A symbol of the ELF file gets its address under its own name only. *)
LEMMA AddKeeps ==
  ASSUME NEW e \in Seq(Export), NEW sym \in Symbols, sym.name \in Name
  PROVE  LET t == addExport(e, sym) IN
         /\ t \in Seq(Export)
         /\ Len(e) <= Len(t)
         /\ \A i \in 1 .. Len(e) : t[i].name = e[i].name
         /\ \A i \in 1 .. Len(t) :
              \/ t[i].address = t[i].name
              \/ i \in 1 .. Len(e) /\ t[i].address = e[i].address
<1> DEFINE new == [name |-> sym.name, address |-> sym.name,
                   code |-> sym.code, size |-> sym.size]
           t == addExport(e, sym)
<1>0. new \in Export
  BY DEF Export, Symbols
<1>1. CASE ~ Known(e, sym.name)
  <2>1. t = Append(e, new)
    BY <1>1 DEF addExport
  <2>2. /\ t \in Seq(Export) /\ Len(t) = Len(e) + 1 /\ t[Len(t)] = new
        /\ \A i \in 1 .. Len(e) : t[i] = e[i]
    BY <2>1, <1>0
  <2>3. \A i \in 1 .. Len(t) : i \in 1 .. Len(e) \/ i = Len(t)
    BY <2>2
  <2> QED
    BY <2>2, <2>3
<1>2. CASE Known(e, sym.name)
  <2>1. t = [i \in 1 .. Len(e) |->
          IF ~ IsFirst(e, sym.name, i) THEN e[i]
          ELSE IF e[i].size = 0
               THEN [e[i] EXCEPT !.address = sym.name, !.code = sym.code, !.size = sym.size]
               ELSE [e[i] EXCEPT !.address = sym.name]]
    BY <1>2 DEF addExport
  <2> HIDE DEF t
  <2>2. \A i \in 1 .. Len(e) :
          /\ t[i] \in Export
          /\ t[i].name = e[i].name
          /\ t[i].address = t[i].name \/ t[i].address = e[i].address
    <3> SUFFICES ASSUME NEW i \in 1 .. Len(e)
                 PROVE  /\ t[i] \in Export
                        /\ t[i].name = e[i].name
                        /\ t[i].address = t[i].name \/ t[i].address = e[i].address
      OBVIOUS
    <3>1. e[i] \in Export /\ (IsFirst(e, sym.name, i) => e[i].name = sym.name)
      BY DEF IsFirst
    <3>2. CASE ~ IsFirst(e, sym.name, i)
      BY <2>1, <3>1, <3>2
    <3>3. CASE IsFirst(e, sym.name, i) /\ e[i].size = 0
      <4>1. t[i] = [e[i] EXCEPT !.address = sym.name, !.code = sym.code, !.size = sym.size]
        BY <2>1, <3>3
      <4> QED
        BY <4>1, <3>1, <3>3 DEF Export, Symbols
    <3>4. CASE IsFirst(e, sym.name, i) /\ e[i].size # 0
      <4>1. t[i] = [e[i] EXCEPT !.address = sym.name]
        BY <2>1, <3>4
      <4> QED
        BY <4>1, <3>1, <3>4 DEF Export, Symbols
    <3> QED
      BY <3>2, <3>3, <3>4
  <2>d. t = [i \in 1 .. Len(e) |-> t[i]]
    BY <2>1
  <2>3. t \in [1 .. Len(e) -> Export] /\ Len(e) \in Nat
    BY <2>d, <2>2
  <2>4. t \in Seq(Export) /\ Len(t) = Len(e)
    BY <2>3
  <2> QED
    BY <2>2, <2>4 DEF t
<1> QED
  BY <1>1, <1>2

(* The .def file of a list without holes. *)
LEMMA DefGood ==
  ASSUME NEW e \in Seq(Export),
         \A i \in 1 .. Len(e) : e[i].address # NoAddress /\ e[i].address = e[i].name
  PROVE  /\ writeDef(e) \in Seq(DefLines)
         /\ Len(writeDef(e)) = Len(e)
         /\ \A i \in 1 .. Len(e) : /\ writeDef(e)[i].ordinal = i
                                   /\ ~ writeDef(e)[i].comment
                                   /\ writeDef(e)[i].name = e[i].name
<1>1. \A i \in 1 .. Len(e) : writeDef(e)[i] = DefLine(e, i)
  BY DEF writeDef
<1>t. \A i \in 1 .. Len(e) : e[i] \in Export
  OBVIOUS
<1>2. \A i \in 1 .. Len(e) : /\ DefLine(e, i) \in DefLines
                             /\ DefLine(e, i).ordinal = i
                             /\ ~ DefLine(e, i).comment
                             /\ DefLine(e, i).name = e[i].name
  <2> SUFFICES ASSUME NEW i \in 1 .. Len(e)
               PROVE  /\ DefLine(e, i) \in DefLines
                      /\ DefLine(e, i).ordinal = i
                      /\ ~ DefLine(e, i).comment
                      /\ DefLine(e, i).name = e[i].name
    OBVIOUS
  <2>1. /\ e[i].name \in Name /\ e[i].code \in BOOLEAN /\ e[i].size \in Nat
        /\ e[i].address # NoAddress
    BY <1>t DEF Export, NoAddress
  <2>2. i \in Nat \ {0}
    OBVIOUS
  <2> QED
    BY <2>1, <2>2 DEF DefLine, DefLines
<1>3. writeDef(e) \in [1 .. Len(e) -> DefLines] /\ Len(e) \in Nat
  BY <1>1, <1>2 DEF writeDef
<1> QED
  BY <1>1, <1>2, <1>3

LEMMA KeepsStartBuild ==
  ASSUME IInv, StartBuild PROVE IInv'
<1>e. /\ lpc = "idle"
      /\ builds' \in 0 .. MaxBuilds
      /\ elf' = elf
      /\ def' = def
      /\ defoutput' = defoutput
      /\ dso' = dso
      /\ image' = image
      /\ linked' = linked
      /\ lpc' = "parseDefFile"
      /\ done' = 0
      /\ exports' = exports
      /\ presetOrdinals' = presetOrdinals
  BY InputsAssumption DEF StartBuild, Goto, files, IInv, LType
<1>p. Preset' = Preset
  BY <1>e DEF Preset
<1>i. LType /\ LKinds /\ Idle /\ Full /\ Consistent(Preset) /\ Placed /\ Backed /\ Addresses
      /\ Checked /\ Good /\ GoodImage /\ GoodDso /\ Linked
  BY DEF IInv
<1>1. LType'
  BY <1>e, <1>p, <1>i DEF LType, AfterParsing, AfterCheck
<1>2. LKinds'
  BY <1>e, <1>p, <1>i DEF LKinds
<1>3. Idle'
  BY <1>e, <1>p, <1>i DEF Idle
<1>4. Full'
  BY <1>e, <1>p, <1>i DEF Full, Idle
<1>5. Consistent(Preset)'
  BY <1>p, <1>i
<1>6. Placed'
  BY <1>e, <1>p, <1>i DEF Placed, PlacedUpTo, AfterParsing, AfterCheck
<1>7. Backed'
  BY <1>e, <1>p, <1>i DEF Backed
<1>8. Addresses'
  BY <1>e, <1>p, <1>i DEF Addresses, Idle
<1>9. Checked'
  BY <1>e, <1>p, <1>i DEF Checked, AfterCheck
<1>10. Good'
  BY <1>e, <1>p, <1>i DEF Good
<1>11. GoodImage'
  BY <1>e, <1>p, <1>i DEF GoodImage
<1>12. GoodDso'
  BY <1>e, <1>p, <1>i DEF GoodDso
<1>13. Linked'
  BY <1>e, <1>p, <1>i DEF Linked
<1> QED
  BY <1>1, <1>2, <1>3, <1>4, <1>5, <1>6, <1>7, <1>8, <1>9, <1>10, <1>11, <1>12, <1>13 DEF IInv

LEMMA KeepsOpenOutput ==
  ASSUME IInv, OpenOutput PROVE IInv'
<1>e. /\ lpc = "parseDefFile"
      /\ done = Len(Preset)
      /\ elf' = elf
      /\ def' = def
      /\ defoutput' = defoutput
      /\ dso' = dso
      /\ image' = Torn
      /\ linked' = linked
      /\ builds' = builds
      /\ lpc' = "findExports"
      /\ done' = 0
      /\ exports' = exports
      /\ presetOrdinals' = presetOrdinals
  BY DEF OpenOutput, Goto, files
<1>p. Preset' = Preset
  BY <1>e DEF Preset
<1>i. LType /\ LKinds /\ Idle /\ Full /\ Consistent(Preset) /\ Placed /\ Backed /\ Addresses
      /\ Checked /\ Good /\ GoodImage /\ GoodDso /\ Linked
  BY DEF IInv
<1>1. LType'
  BY <1>e, <1>p, <1>i DEF LType, AfterParsing, AfterCheck
<1>2. LKinds'
  BY <1>e, <1>p, <1>i DEF LKinds, Torn
<1>3. Idle'
  BY <1>e, <1>p, <1>i DEF Idle
<1>4. Full'
  BY <1>e, <1>p, <1>i DEF Full, Idle
<1>5. Consistent(Preset)'
  BY <1>p, <1>i
<1>6. Placed'
  BY <1>e, <1>p, <1>i DEF Placed, PlacedUpTo, AfterParsing, AfterCheck
<1>7. Backed'
  BY <1>e, <1>p, <1>i DEF Backed
<1>8. Addresses'
  BY <1>e, <1>p, <1>i DEF Addresses
<1>9. Checked'
  BY <1>e, <1>p, <1>i DEF Checked, AfterCheck, Torn
<1>10. Good'
  BY <1>e, <1>p, <1>i DEF Good, Torn
<1>11. GoodImage'
  BY <1>e, <1>p, <1>i DEF GoodImage, Torn
<1>12. GoodDso'
  BY <1>e, <1>p, <1>i DEF GoodDso, Torn
<1>13. Linked'
  BY <1>e, <1>p, <1>i DEF Linked
<1> QED
  BY <1>1, <1>2, <1>3, <1>4, <1>5, <1>6, <1>7, <1>8, <1>9, <1>10, <1>11, <1>12, <1>13 DEF IInv

LEMMA KeepsDsoOnly ==
  ASSUME IInv, DsoOnly PROVE IInv'
<1>e. /\ lpc = "parseDefFile"
      /\ done = Len(Preset)
      /\ exports' \in doSort(exports, presetOrdinals)
      /\ elf' = elf
      /\ def' = def
      /\ defoutput' = defoutput
      /\ dso' = dso
      /\ image' = image
      /\ linked' = linked
      /\ builds' = builds
      /\ lpc' = "dsoOnly"
      /\ done' = 0
      /\ presetOrdinals' = presetOrdinals
  BY DEF DsoOnly, Goto, files
<1>p. Preset' = Preset
  BY <1>e DEF Preset
<1>i. LType /\ LKinds /\ Idle /\ Full /\ Consistent(Preset) /\ Placed /\ Backed /\ Addresses
      /\ Checked /\ Good /\ GoodImage /\ GoodDso /\ Linked
  BY DEF IInv
<1>s. /\ exports' \in Seq(Export)
      /\ Len(exports') = Len(exports)
      /\ \A i \in 1 .. presetOrdinals : exports'[i] = exports[i]
      /\ \A i \in 1 .. Len(exports) : \E j \in 1 .. Len(exports) : exports'[i] = exports[j]
  BY <1>e, <1>i, SortKeeps DEF LType
<1>t. lpc = "findExports" => image.kind = "torn"
  BY <1>i DEF Checked
<1>1. LType'
  BY <1>e, <1>p, <1>i, <1>s DEF LType, AfterParsing, AfterCheck
<1>2. LKinds'
  BY <1>e, <1>p, <1>i DEF LKinds
<1>3. Idle'
  BY <1>e, <1>p, <1>i DEF Idle
<1>4. Full'
  BY <1>e, <1>p, <1>i DEF Full, Idle
<1>5. Consistent(Preset)'
  BY <1>p, <1>i
<1>6. Placed'
  <2>1. PlacedUpTo(Len(Preset))
    BY <1>e, <1>i DEF Placed, AfterParsing
  <2>2. \A k \in 1 .. Len(Preset) : Preset[k].ordinal \in Nat \ {0}
    BY <1>i, LineTypes DEF LType
  <2>3. PlacedUpTo(Len(Preset))'
    <3>1. ASSUME NEW k \in 1 .. Len(Preset), ~ Preset[k].comment
          PROVE  /\ Preset[k].ordinal <= presetOrdinals
                 /\ exports'[Preset[k].ordinal].name = Preset[k].name
      <4>1. /\ Preset[k].ordinal <= presetOrdinals
            /\ exports[Preset[k].ordinal].name = Preset[k].name
        BY <2>1, <3>1 DEF PlacedUpTo
      <4>2. Preset[k].ordinal \in 1 .. presetOrdinals
        BY <4>1, <2>2, <1>i DEF LType
      <4> QED BY <4>1, <4>2, <1>s
    <3> QED BY <3>1, <1>e, <1>p DEF PlacedUpTo
  <2> QED
    BY <2>3, <1>e, <1>p DEF Placed
<1>7. Backed'
  BY <1>e, <1>p, <1>i, <1>s DEF Backed
<1>8. Addresses'
  BY <1>e, <1>p, <1>i, <1>s DEF Addresses
<1>9. Checked'
  BY <1>e, <1>p, <1>i DEF Checked, AfterCheck
<1>10. Good'
  BY <1>e, <1>p, <1>i DEF Good
<1>11. GoodImage'
  BY <1>e, <1>p, <1>i DEF GoodImage
<1>12. GoodDso'
  BY <1>e, <1>p, <1>i DEF GoodDso
<1>13. Linked'
  BY <1>e, <1>p, <1>i DEF Linked
<1> QED
  BY <1>1, <1>2, <1>3, <1>4, <1>5, <1>6, <1>7, <1>8, <1>9, <1>10, <1>11, <1>12, <1>13 DEF IInv

LEMMA KeepsNothingToDo ==
  ASSUME IInv, NothingToDo PROVE IInv'
<1>e. /\ lpc = "parseDefFile"
      /\ elf' = elf
      /\ def' = def
      /\ defoutput' = defoutput
      /\ dso' = dso
      /\ image' = image
      /\ linked' = linked
      /\ builds' = builds
      /\ lpc' = "idle"
      /\ done' = 0
      /\ exports' = << >>
      /\ presetOrdinals' = 0
  BY DEF NothingToDo, Goto, files, NoBuild
<1>p. Preset' = Preset
  BY <1>e DEF Preset
<1>i. LType /\ LKinds /\ Idle /\ Full /\ Consistent(Preset) /\ Placed /\ Backed /\ Addresses
      /\ Checked /\ Good /\ GoodImage /\ GoodDso /\ Linked
  BY DEF IInv
<1>1. LType'
  BY <1>e, <1>p, <1>i DEF LType, AfterParsing, AfterCheck
<1>2. LKinds'
  BY <1>e, <1>p, <1>i DEF LKinds
<1>3. Idle'
  BY <1>e, <1>p, <1>i DEF Idle
<1>4. Full'
  BY <1>e, <1>p, <1>i DEF Full, Idle
<1>5. Consistent(Preset)'
  BY <1>p, <1>i
<1>6. Placed'
  BY <1>e, <1>p, <1>i DEF Placed, PlacedUpTo, AfterParsing, AfterCheck
<1>7. Backed'
  BY <1>e, <1>p, <1>i DEF Backed
<1>8. Addresses'
  BY <1>e, <1>p, <1>i DEF Addresses
<1>9. Checked'
  BY <1>e, <1>p, <1>i DEF Checked, AfterCheck
<1>10. Good'
  BY <1>e, <1>p, <1>i DEF Good
<1>11. GoodImage'
  BY <1>e, <1>p, <1>i DEF GoodImage
<1>12. GoodDso'
  BY <1>e, <1>p, <1>i DEF GoodDso
<1>13. Linked'
  BY <1>e, <1>p, <1>i DEF Linked
<1> QED
  BY <1>1, <1>2, <1>3, <1>4, <1>5, <1>6, <1>7, <1>8, <1>9, <1>10, <1>11, <1>12, <1>13 DEF IInv

LEMMA KeepsParseDefLine ==
  ASSUME IInv, ParseDefLine PROVE IInv'
<1>e. /\ lpc = "parseDefFile"
      /\ done < Len(Preset)
      /\ elf' = elf
      /\ def' = def
      /\ defoutput' = defoutput
      /\ dso' = dso
      /\ image' = image
      /\ linked' = linked
      /\ builds' = builds
      /\ lpc' = lpc
      /\ done' = done + 1
  BY DEF ParseDefLine, files
<1>p. Preset' = Preset
  BY <1>e DEF Preset
<1>i. LType /\ LKinds /\ Idle /\ Full /\ Consistent(Preset) /\ Placed /\ Backed /\ Addresses
      /\ Checked /\ Good /\ GoodImage /\ GoodDso /\ Linked
  BY DEF IInv
<1>0. done + 1 \in 1 .. Len(Preset) /\ Preset \in Seq(DefLines)
  BY <1>e, <1>i, PresetLines DEF LType
<1> DEFINE line == Preset[done + 1]
<1>l. line \in DefLines /\ line.ordinal \in Nat \ {0} /\ line.name \in Name
  BY <1>0, <1>i, LineTypes DEF LType
<1>c. line.comment => exports' = exports /\ presetOrdinals' = presetOrdinals
  BY DEF ParseDefLine
<1>n. ~ line.comment => /\ exports' = addExportOrdinal(exports, line)
                        /\ presetOrdinals' = Longest(presetOrdinals, line.ordinal)
  BY DEF ParseDefLine, PresetUpTo
<1> HIDE DEF line
<1>a. ~ line.comment =>
         /\ exports' \in Seq(Export)
         /\ Len(exports') = Longest(Len(exports), line.ordinal)
         /\ line.ordinal <= Len(exports') /\ Len(exports) <= Len(exports')
         /\ exports'[line.ordinal].name = line.name
         /\ \A i \in 1 .. Len(exports') : i # line.ordinal =>
              exports'[i] = IF i \in 1 .. Len(exports) THEN exports[i] ELSE Hole
         /\ \A i \in 1 .. Len(exports') :
              exports'[i].address = IF i \in 1 .. Len(exports) THEN exports[i].address ELSE NoAddress
  <2> SUFFICES ASSUME ~ line.comment
               PROVE  LET t == addExportOrdinal(exports, line) IN
         /\ t \in Seq(Export)
         /\ Len(t) = Longest(Len(exports), line.ordinal)
         /\ line.ordinal <= Len(t) /\ Len(exports) <= Len(t)
         /\ t[line.ordinal].name = line.name
         /\ \A i \in 1 .. Len(t) : i # line.ordinal =>
              t[i] = IF i \in 1 .. Len(exports) THEN exports[i] ELSE Hole
         /\ \A i \in 1 .. Len(t) :
              t[i].address = IF i \in 1 .. Len(exports) THEN exports[i].address ELSE NoAddress
    BY <1>n
  <2>1. exports \in Seq(Export) /\ line \in DefLines
    BY <1>l, <1>i DEF LType
  <2> QED
    BY <2>1, PlaceKeeps
<1>b. /\ exports' \in Seq(Export)
      /\ presetOrdinals' \in 0 .. Len(exports')
      /\ presetOrdinals <= presetOrdinals'
  BY <1>a, <1>c, <1>n, <1>l, <1>i DEF LType, Longest
<1>1. LType'
  BY <1>e, <1>p, <1>i, <1>b DEF LType, AfterParsing, AfterCheck
<1>2. LKinds'
  BY <1>e, <1>p, <1>i DEF LKinds
<1>3. Idle'
  BY <1>e, <1>p, <1>i DEF Idle
<1>4. Full'
  BY <1>a, <1>n, <1>c, <1>e, <1>i DEF Full
<1>5. Consistent(Preset)'
  BY <1>p, <1>i
<1>6. Placed'
  <2>1. done' <= Len(Preset')
    BY <1>0, <1>e, <1>p
  <2>2. PlacedUpTo(done)'
    <3> SUFFICES ASSUME NEW k \in 1 .. done + 1, ~ Preset[k].comment
                 PROVE  /\ Preset[k].ordinal <= presetOrdinals'
                        /\ exports'[Preset[k].ordinal].name = Preset[k].name
      BY <1>e, <1>p DEF PlacedUpTo
    <3>k. k \in 1 .. Len(Preset) /\ Preset[k].ordinal \in Nat \ {0}
      BY <1>0, <1>e, <1>i, LineTypes DEF LType
    <3>1. CASE k = done + 1
      <4>1. Preset[k] = line
        BY <3>1 DEF line
      <4> QED
        BY <4>1, <1>a, <1>n, <1>l, <1>i DEF Longest, LType
    <3>2. CASE k # done + 1
      <4>1. /\ Preset[k].ordinal <= presetOrdinals
            /\ exports[Preset[k].ordinal].name = Preset[k].name
        BY <3>2, <1>e, <1>i DEF Placed, PlacedUpTo, LType
      <4>2. CASE line.comment
        BY <4>1, <4>2, <1>c
      <4>3. CASE ~ line.comment /\ Preset[k].ordinal = line.ordinal
        <5>1. Preset[k].name = line.name
          BY <4>3, <3>k, <1>0, <1>i DEF Consistent, line
        <5> QED
          BY <5>1, <4>3, <4>1, <1>a, <1>b, <1>i, <3>k DEF LType
      <4>4. CASE ~ line.comment /\ Preset[k].ordinal # line.ordinal
        <5>1. Preset[k].ordinal \in 1 .. Len(exports) /\ Preset[k].ordinal \in 1 .. Len(exports')
          BY <4>1, <3>k, <4>4, <1>a, <1>i DEF LType
        <5>2. exports'[Preset[k].ordinal] = exports[Preset[k].ordinal]
          BY <5>1, <4>4, <1>a
        <5> QED
          BY <5>2, <4>1, <1>b, <1>i, <3>k DEF LType
      <4> QED
        BY <4>2, <4>3, <4>4
    <3> QED
      BY <3>1, <3>2
  <2> QED
    BY <2>1, <2>2, <1>e DEF Placed, AfterParsing, AfterCheck
<1>7. Backed'
  <2>1. CASE line.comment
    BY <2>1, <1>c, <1>p, <1>i DEF Backed
  <2>2. CASE ~ line.comment
    <3> SUFFICES ASSUME NEW i \in 1 .. presetOrdinals', exports'[i].name # NoName
                 PROVE  FrozenIn(Preset, exports'[i].name, i)
      BY <1>p DEF Backed
    <3>0. i \in 1 .. Len(exports')
      BY <1>b
    <3>1. CASE i = line.ordinal
      BY <3>1, <2>2, <1>a, <1>0 DEF FrozenIn, line
    <3>2. CASE i # line.ordinal
      <4>1. exports'[i] = IF i \in 1 .. Len(exports) THEN exports[i] ELSE Hole
        BY <3>0, <3>2, <2>2, <1>a
      <4>2. i \in 1 .. Len(exports) /\ exports'[i] = exports[i]
        BY <4>1 DEF Hole
      <4>3. CASE i <= presetOrdinals
        BY <4>2, <4>3, <1>i DEF Backed, LType
      <4>4. CASE i > presetOrdinals
        <5>1. presetOrdinals' = line.ordinal /\ i < line.ordinal
          BY <4>4, <2>2, <1>n, <3>2, <1>l, <1>i DEF Longest, LType
        <5>2. presetOrdinals = Len(exports)
          BY <1>i, <1>e DEF Full
        <5> QED
          BY <5>2, <4>4, <4>2
      <4> QED
        BY <4>3, <4>4, <4>2, <1>i DEF LType
    <3> QED
      BY <3>1, <3>2
  <2> QED
    BY <2>1, <2>2
<1>8. Addresses'
  <2>1. \A i \in 1 .. Len(exports') : exports'[i].address = NoAddress
    BY <1>a, <1>c, <1>e, <1>i DEF Addresses
  <2> QED
    BY <2>1 DEF Addresses
<1>9. Checked'
  BY <1>e, <1>p, <1>i DEF Checked, AfterCheck
<1>10. Good'
  BY <1>e, <1>p, <1>i DEF Good
<1>11. GoodImage'
  BY <1>e, <1>p, <1>i DEF GoodImage
<1>12. GoodDso'
  BY <1>e, <1>p, <1>i DEF GoodDso
<1>13. Linked'
  BY <1>e, <1>p, <1>i DEF Linked
<1> QED
  BY <1>1, <1>2, <1>3, <1>4, <1>5, <1>6, <1>7, <1>8, <1>9, <1>10, <1>11, <1>12, <1>13 DEF IInv

LEMMA KeepsFindExport ==
  ASSUME IInv, FindExport PROVE IInv'
<1>e. /\ lpc = "findExports"
      /\ done < Len(elf)
      /\ exports' = IF IsExport(elf[done + 1]) THEN addExport(exports, elf[done + 1]) ELSE exports
      /\ elf' = elf
      /\ def' = def
      /\ defoutput' = defoutput
      /\ dso' = dso
      /\ image' = image
      /\ linked' = linked
      /\ builds' = builds
      /\ lpc' = lpc
      /\ done' = done + 1
      /\ presetOrdinals' = presetOrdinals
  BY DEF FindExport, files
<1>p. Preset' = Preset
  BY <1>e DEF Preset
<1>i. LType /\ LKinds /\ Idle /\ Full /\ Consistent(Preset) /\ Placed /\ Backed /\ Addresses
      /\ Checked /\ Good /\ GoodImage /\ GoodDso /\ Linked
  BY DEF IInv
<1>0. elf \in Seq(Symbols) /\ done + 1 \in 1 .. Len(elf)
  BY <1>e, <1>i, InputsAssumption DEF LType
<1>1a. elf[done + 1] \in Symbols /\ (IsExport(elf[done + 1]) => elf[done + 1].name \in Name)
  BY <1>0, <1>i, InputsAssumption DEF LType, IsExport
<1>s. /\ exports' \in Seq(Export)
      /\ Len(exports) <= Len(exports')
      /\ \A i \in 1 .. Len(exports) : exports'[i].name = exports[i].name
      /\ \A i \in 1 .. Len(exports') :
           \/ exports'[i].address = exports'[i].name
           \/ i \in 1 .. Len(exports) /\ exports'[i].address = exports[i].address
  <2>1. CASE IsExport(elf[done + 1])
    <3>1. exports' = addExport(exports, elf[done + 1])
      BY <2>1, <1>e
    <3> QED
      BY <3>1, <2>1, <1>1a, <1>i, AddKeeps DEF LType
  <2>2. CASE ~ IsExport(elf[done + 1])
    BY <2>2, <1>e, <1>i DEF LType
  <2> QED
    BY <2>1, <2>2
<1>1. LType'
  BY <1>e, <1>p, <1>i, <1>s DEF LType, AfterParsing, AfterCheck
<1>2. LKinds'
  BY <1>e, <1>p, <1>i DEF LKinds
<1>3. Idle'
  BY <1>e, <1>p, <1>i DEF Idle
<1>4. Full'
  BY <1>e, <1>p, <1>i DEF Full, Idle
<1>5. Consistent(Preset)'
  BY <1>p, <1>i
<1>6. Placed'
  <2>1. PlacedUpTo(Len(Preset))
    BY <1>e, <1>i DEF Placed, AfterParsing
  <2>2. \A k \in 1 .. Len(Preset) : Preset[k].ordinal \in Nat \ {0}
    BY <1>i, LineTypes DEF LType
  <2>3. \A k \in 1 .. Len(Preset) : Preset[k].ordinal <= presetOrdinals
                                    => Preset[k].ordinal \in 1 .. Len(exports)
    BY <2>2, <1>i DEF LType
  <2>4. PlacedUpTo(Len(Preset))'
    BY <2>1, <2>3, <1>e, <1>p, <1>s DEF PlacedUpTo
  <2> QED
    BY <2>4, <1>e, <1>p DEF Placed
<1>7. Backed'
  BY <1>e, <1>p, <1>i, <1>s DEF Backed, LType
<1>8. Addresses'
  BY <1>e, <1>p, <1>i, <1>s DEF Addresses
<1>9. Checked'
  BY <1>e, <1>p, <1>i DEF Checked, AfterCheck
<1>10. Good'
  BY <1>e, <1>p, <1>i DEF Good
<1>11. GoodImage'
  BY <1>e, <1>p, <1>i DEF GoodImage
<1>12. GoodDso'
  BY <1>e, <1>p, <1>i DEF GoodDso
<1>13. Linked'
  BY <1>e, <1>p, <1>i DEF Linked
<1> QED
  BY <1>1, <1>2, <1>3, <1>4, <1>5, <1>6, <1>7, <1>8, <1>9, <1>10, <1>11, <1>12, <1>13 DEF IInv

LEMMA KeepsMissing ==
  ASSUME IInv, Missing PROVE IInv'
<1>e. /\ lpc = "findExports"
      /\ elf' = elf
      /\ def' = def
      /\ defoutput' = defoutput
      /\ dso' = dso
      /\ image' = image
      /\ linked' = linked
      /\ builds' = builds
      /\ lpc' = "idle"
      /\ done' = 0
      /\ exports' = << >>
      /\ presetOrdinals' = 0
  BY DEF Missing, Goto, files, NoBuild
<1>p. Preset' = Preset
  BY <1>e DEF Preset
<1>i. LType /\ LKinds /\ Idle /\ Full /\ Consistent(Preset) /\ Placed /\ Backed /\ Addresses
      /\ Checked /\ Good /\ GoodImage /\ GoodDso /\ Linked
  BY DEF IInv
<1>1. LType'
  BY <1>e, <1>p, <1>i DEF LType, AfterParsing, AfterCheck
<1>2. LKinds'
  BY <1>e, <1>p, <1>i DEF LKinds
<1>3. Idle'
  BY <1>e, <1>p, <1>i DEF Idle
<1>4. Full'
  BY <1>e, <1>p, <1>i DEF Full, Idle
<1>5. Consistent(Preset)'
  BY <1>p, <1>i
<1>6. Placed'
  BY <1>e, <1>p, <1>i DEF Placed, PlacedUpTo, AfterParsing, AfterCheck
<1>7. Backed'
  BY <1>e, <1>p, <1>i DEF Backed
<1>8. Addresses'
  BY <1>e, <1>p, <1>i DEF Addresses
<1>9. Checked'
  BY <1>e, <1>p, <1>i DEF Checked, AfterCheck
<1>10. Good'
  BY <1>e, <1>p, <1>i DEF Good
<1>11. GoodImage'
  BY <1>e, <1>p, <1>i DEF GoodImage
<1>12. GoodDso'
  BY <1>e, <1>p, <1>i DEF GoodDso
<1>13. Linked'
  BY <1>e, <1>p, <1>i DEF Linked
<1> QED
  BY <1>1, <1>2, <1>3, <1>4, <1>5, <1>6, <1>7, <1>8, <1>9, <1>10, <1>11, <1>12, <1>13 DEF IInv

LEMMA KeepsSortExports ==
  ASSUME IInv, SortExports PROVE IInv'
<1>e. /\ lpc = "findExports"
      /\ ~ warnMissing(exports)
      /\ exports' \in doSort(exports, presetOrdinals)
      /\ elf' = elf
      /\ def' = def
      /\ defoutput' = defoutput
      /\ dso' = dso
      /\ image' = image
      /\ linked' = linked
      /\ builds' = builds
      /\ lpc' = "writeDef"
      /\ done' = 0
      /\ presetOrdinals' = presetOrdinals
  BY DEF SortExports, Goto, files
<1>p. Preset' = Preset
  BY <1>e DEF Preset
<1>i. LType /\ LKinds /\ Idle /\ Full /\ Consistent(Preset) /\ Placed /\ Backed /\ Addresses
      /\ Checked /\ Good /\ GoodImage /\ GoodDso /\ Linked
  BY DEF IInv
<1>s. /\ exports' \in Seq(Export)
      /\ Len(exports') = Len(exports)
      /\ \A i \in 1 .. presetOrdinals : exports'[i] = exports[i]
      /\ \A i \in 1 .. Len(exports) : \E j \in 1 .. Len(exports) : exports'[i] = exports[j]
  BY <1>e, <1>i, SortKeeps DEF LType
<1>t. lpc = "findExports" => image.kind = "torn"
  BY <1>i DEF Checked
<1>1. LType'
  BY <1>e, <1>p, <1>i, <1>s DEF LType, AfterParsing, AfterCheck
<1>2. LKinds'
  BY <1>e, <1>p, <1>i DEF LKinds
<1>3. Idle'
  BY <1>e, <1>p, <1>i DEF Idle
<1>4. Full'
  BY <1>e, <1>p, <1>i DEF Full, Idle
<1>5. Consistent(Preset)'
  BY <1>p, <1>i
<1>6. Placed'
  <2>1. PlacedUpTo(Len(Preset))
    BY <1>e, <1>i DEF Placed, AfterParsing
  <2>2. \A k \in 1 .. Len(Preset) : Preset[k].ordinal \in Nat \ {0}
    BY <1>i, LineTypes DEF LType
  <2>3. PlacedUpTo(Len(Preset))'
    <3>1. ASSUME NEW k \in 1 .. Len(Preset), ~ Preset[k].comment
          PROVE  /\ Preset[k].ordinal <= presetOrdinals
                 /\ exports'[Preset[k].ordinal].name = Preset[k].name
      <4>1. /\ Preset[k].ordinal <= presetOrdinals
            /\ exports[Preset[k].ordinal].name = Preset[k].name
        BY <2>1, <3>1 DEF PlacedUpTo
      <4>2. Preset[k].ordinal \in 1 .. presetOrdinals
        BY <4>1, <2>2, <1>i DEF LType
      <4> QED BY <4>1, <4>2, <1>s
    <3> QED BY <3>1, <1>e, <1>p DEF PlacedUpTo
  <2> QED
    BY <2>3, <1>e, <1>p DEF Placed
<1>7. Backed'
  BY <1>e, <1>p, <1>i, <1>s DEF Backed
<1>8. Addresses'
  BY <1>e, <1>p, <1>i, <1>s DEF Addresses
<1>9. Checked'
  <2>1. \A i \in 1 .. Len(exports') : exports'[i].address # NoAddress
    BY <1>e, <1>s DEF warnMissing
  <2> QED
    BY <2>1, <1>t, <1>e DEF Checked
<1>10. Good'
  BY <1>e, <1>p, <1>i DEF Good
<1>11. GoodImage'
  BY <1>e, <1>p, <1>i DEF GoodImage
<1>12. GoodDso'
  BY <1>e, <1>p, <1>i DEF GoodDso
<1>13. Linked'
  BY <1>e, <1>p, <1>i DEF Linked
<1> QED
  BY <1>1, <1>2, <1>3, <1>4, <1>5, <1>6, <1>7, <1>8, <1>9, <1>10, <1>11, <1>12, <1>13 DEF IInv

LEMMA KeepsNoDef ==
  ASSUME IInv, NoDef PROVE IInv'
<1>e. /\ lpc = "writeDef"
      /\ elf' = elf
      /\ def' = def
      /\ defoutput' = defoutput
      /\ dso' = dso
      /\ image' = image
      /\ linked' = linked
      /\ builds' = builds
      /\ lpc' = "writeDso"
      /\ done' = 0
      /\ exports' = exports
      /\ presetOrdinals' = presetOrdinals
  BY DEF NoDef, Goto, files
<1>p. Preset' = Preset
  BY <1>e DEF Preset
<1>i. LType /\ LKinds /\ Idle /\ Full /\ Consistent(Preset) /\ Placed /\ Backed /\ Addresses
      /\ Checked /\ Good /\ GoodImage /\ GoodDso /\ Linked
  BY DEF IInv
<1>1. LType'
  BY <1>e, <1>p, <1>i DEF LType, AfterParsing, AfterCheck
<1>2. LKinds'
  BY <1>e, <1>p, <1>i DEF LKinds
<1>3. Idle'
  BY <1>e, <1>p, <1>i DEF Idle
<1>4. Full'
  BY <1>e, <1>p, <1>i DEF Full, Idle
<1>5. Consistent(Preset)'
  BY <1>p, <1>i
<1>6. Placed'
  BY <1>e, <1>p, <1>i DEF Placed, PlacedUpTo, AfterParsing, AfterCheck
<1>7. Backed'
  BY <1>e, <1>p, <1>i DEF Backed
<1>8. Addresses'
  BY <1>e, <1>p, <1>i DEF Addresses
<1>9. Checked'
  BY <1>e, <1>p, <1>i DEF Checked, AfterCheck
<1>10. Good'
  BY <1>e, <1>p, <1>i DEF Good
<1>11. GoodImage'
  BY <1>e, <1>p, <1>i DEF GoodImage
<1>12. GoodDso'
  BY <1>e, <1>p, <1>i DEF GoodDso
<1>13. Linked'
  BY <1>e, <1>p, <1>i DEF Linked
<1> QED
  BY <1>1, <1>2, <1>3, <1>4, <1>5, <1>6, <1>7, <1>8, <1>9, <1>10, <1>11, <1>12, <1>13 DEF IInv

LEMMA KeepsTruncateDef ==
  ASSUME IInv, TruncateDef PROVE IInv'
<1>e. /\ lpc = "writeDef"
      /\ elf' = elf
      /\ def' = def
      /\ defoutput' = Torn
      /\ dso' = dso
      /\ image' = image
      /\ linked' = linked
      /\ builds' = builds
      /\ lpc' = "finishDef"
      /\ done' = 0
      /\ exports' = exports
      /\ presetOrdinals' = presetOrdinals
  BY DEF TruncateDef, Goto
<1>p. Preset' = Preset
  BY <1>e DEF Preset
<1>i. LType /\ LKinds /\ Idle /\ Full /\ Consistent(Preset) /\ Placed /\ Backed /\ Addresses
      /\ Checked /\ Good /\ GoodImage /\ GoodDso /\ Linked
  BY DEF IInv
<1>1. LType'
  BY <1>e, <1>p, <1>i DEF LType, AfterParsing, AfterCheck
<1>2. LKinds'
  BY <1>e, <1>p, <1>i DEF LKinds, Torn
<1>3. Idle'
  BY <1>e, <1>p, <1>i DEF Idle
<1>4. Full'
  BY <1>e, <1>p, <1>i DEF Full, Idle
<1>5. Consistent(Preset)'
  BY <1>p, <1>i
<1>6. Placed'
  BY <1>e, <1>p, <1>i DEF Placed, PlacedUpTo, AfterParsing, AfterCheck
<1>7. Backed'
  BY <1>e, <1>p, <1>i DEF Backed
<1>8. Addresses'
  BY <1>e, <1>p, <1>i DEF Addresses
<1>9. Checked'
  BY <1>e, <1>p, <1>i DEF Checked, AfterCheck, Torn
<1>10. Good'
  BY <1>e, <1>p, <1>i DEF Good, Torn
<1>11. GoodImage'
  BY <1>e, <1>p, <1>i DEF GoodImage, Torn
<1>12. GoodDso'
  BY <1>e, <1>p, <1>i DEF GoodDso, Torn
<1>13. Linked'
  BY <1>e, <1>p, <1>i DEF Linked
<1> QED
  BY <1>1, <1>2, <1>3, <1>4, <1>5, <1>6, <1>7, <1>8, <1>9, <1>10, <1>11, <1>12, <1>13 DEF IInv

LEMMA KeepsWriteDef ==
  ASSUME IInv, WriteDef PROVE IInv'
<1>e. /\ lpc = "finishDef"
      /\ elf' = elf
      /\ def' = def
      /\ defoutput' = [kind |-> "def", lines |-> writeDef(exports)]
      /\ dso' = dso
      /\ image' = image
      /\ linked' = linked
      /\ builds' = builds
      /\ lpc' = "writeDso"
      /\ done' = 0
      /\ exports' = exports
      /\ presetOrdinals' = presetOrdinals
  BY DEF WriteDef, Goto
<1>p. Preset' = Preset
  BY <1>e DEF Preset
<1>i. LType /\ LKinds /\ Idle /\ Full /\ Consistent(Preset) /\ Placed /\ Backed /\ Addresses
      /\ Checked /\ Good /\ GoodImage /\ GoodDso /\ Linked
  BY DEF IInv
<1>d. /\ exports \in Seq(Export)
      /\ \A i \in 1 .. Len(exports) :
           exports[i].address # NoAddress /\ exports[i].address = exports[i].name
  BY <1>e, <1>i DEF LType, Addresses, Checked, AfterCheck
<1>g. /\ writeDef(exports) \in Seq(DefLines)
      /\ Len(writeDef(exports)) = Len(exports)
      /\ \A i \in 1 .. Len(exports) : /\ writeDef(exports)[i].ordinal = i
                                       /\ ~ writeDef(exports)[i].comment
                                       /\ writeDef(exports)[i].name = exports[i].name
  BY <1>d, DefGood
<1>h. \A n \in Name, o \in Nat \ {0} : FrozenIn(Preset, n, o) =>
        o <= Len(exports) /\ exports[o].name = n
  BY <1>e, <1>i DEF FrozenIn, Placed, PlacedUpTo, AfterParsing, AfterCheck, LType
<1>1. LType'
  BY <1>e, <1>p, <1>i DEF LType, AfterParsing, AfterCheck
<1>2. LKinds'
  BY <1>e, <1>p, <1>i DEF LKinds
<1>3. Idle'
  BY <1>e, <1>p, <1>i DEF Idle
<1>4. Full'
  BY <1>e, <1>p, <1>i DEF Full, Idle
<1>5. Consistent(Preset)'
  BY <1>p, <1>i
<1>6. Placed'
  BY <1>e, <1>p, <1>i DEF Placed, PlacedUpTo, AfterParsing, AfterCheck
<1>7. Backed'
  BY <1>e, <1>p, <1>i DEF Backed
<1>8. Addresses'
  BY <1>e, <1>p, <1>i DEF Addresses
<1>9. Checked'
  BY <1>e, <1>p, <1>i DEF Checked, AfterCheck
<1>10. Good'
  BY <1>e, <1>p, <1>g, <1>h DEF Good
<1>11. GoodImage'
  BY <1>e, <1>p, <1>i DEF Checked, AfterCheck, GoodImage
<1>12. GoodDso'
  BY <1>e, <1>p, <1>i DEF GoodDso
<1>13. Linked'
  BY <1>e, <1>p, <1>i DEF Linked
<1> QED
  BY <1>1, <1>2, <1>3, <1>4, <1>5, <1>6, <1>7, <1>8, <1>9, <1>10, <1>11, <1>12, <1>13 DEF IInv

LEMMA KeepsNoDso ==
  ASSUME IInv, NoDso PROVE IInv'
<1>e. /\ lpc = "writeDso"
      /\ elf' = elf
      /\ def' = def
      /\ defoutput' = defoutput
      /\ dso' = dso
      /\ image' = image
      /\ linked' = linked
      /\ builds' = builds
      /\ lpc' = "writeImage"
      /\ done' = 0
      /\ exports' = exports
      /\ presetOrdinals' = presetOrdinals
  BY DEF NoDso, Goto, files
<1>p. Preset' = Preset
  BY <1>e DEF Preset
<1>i. LType /\ LKinds /\ Idle /\ Full /\ Consistent(Preset) /\ Placed /\ Backed /\ Addresses
      /\ Checked /\ Good /\ GoodImage /\ GoodDso /\ Linked
  BY DEF IInv
<1>1. LType'
  BY <1>e, <1>p, <1>i DEF LType, AfterParsing, AfterCheck
<1>2. LKinds'
  BY <1>e, <1>p, <1>i DEF LKinds
<1>3. Idle'
  BY <1>e, <1>p, <1>i DEF Idle
<1>4. Full'
  BY <1>e, <1>p, <1>i DEF Full, Idle
<1>5. Consistent(Preset)'
  BY <1>p, <1>i
<1>6. Placed'
  BY <1>e, <1>p, <1>i DEF Placed, PlacedUpTo, AfterParsing, AfterCheck
<1>7. Backed'
  BY <1>e, <1>p, <1>i DEF Backed
<1>8. Addresses'
  BY <1>e, <1>p, <1>i DEF Addresses
<1>9. Checked'
  BY <1>e, <1>p, <1>i DEF Checked, AfterCheck
<1>10. Good'
  BY <1>e, <1>p, <1>i DEF Good
<1>11. GoodImage'
  BY <1>e, <1>p, <1>i DEF GoodImage
<1>12. GoodDso'
  BY <1>e, <1>p, <1>i DEF GoodDso
<1>13. Linked'
  BY <1>e, <1>p, <1>i DEF Linked
<1> QED
  BY <1>1, <1>2, <1>3, <1>4, <1>5, <1>6, <1>7, <1>8, <1>9, <1>10, <1>11, <1>12, <1>13 DEF IInv

LEMMA KeepsNoDsoOnly ==
  ASSUME IInv, NoDsoOnly PROVE IInv'
<1>e. /\ lpc = "dsoOnly"
      /\ elf' = elf
      /\ def' = def
      /\ defoutput' = defoutput
      /\ dso' = dso
      /\ image' = image
      /\ linked' = linked
      /\ builds' = builds
      /\ lpc' = "idle"
      /\ done' = 0
      /\ exports' = << >>
      /\ presetOrdinals' = 0
  BY DEF NoDsoOnly, Goto, files, NoBuild
<1>p. Preset' = Preset
  BY <1>e DEF Preset
<1>i. LType /\ LKinds /\ Idle /\ Full /\ Consistent(Preset) /\ Placed /\ Backed /\ Addresses
      /\ Checked /\ Good /\ GoodImage /\ GoodDso /\ Linked
  BY DEF IInv
<1>1. LType'
  BY <1>e, <1>p, <1>i DEF LType, AfterParsing, AfterCheck
<1>2. LKinds'
  BY <1>e, <1>p, <1>i DEF LKinds
<1>3. Idle'
  BY <1>e, <1>p, <1>i DEF Idle
<1>4. Full'
  BY <1>e, <1>p, <1>i DEF Full, Idle
<1>5. Consistent(Preset)'
  BY <1>p, <1>i
<1>6. Placed'
  BY <1>e, <1>p, <1>i DEF Placed, PlacedUpTo, AfterParsing, AfterCheck
<1>7. Backed'
  BY <1>e, <1>p, <1>i DEF Backed
<1>8. Addresses'
  BY <1>e, <1>p, <1>i DEF Addresses
<1>9. Checked'
  BY <1>e, <1>p, <1>i DEF Checked, AfterCheck
<1>10. Good'
  BY <1>e, <1>p, <1>i DEF Good
<1>11. GoodImage'
  BY <1>e, <1>p, <1>i DEF GoodImage
<1>12. GoodDso'
  BY <1>e, <1>p, <1>i DEF GoodDso
<1>13. Linked'
  BY <1>e, <1>p, <1>i DEF Linked
<1> QED
  BY <1>1, <1>2, <1>3, <1>4, <1>5, <1>6, <1>7, <1>8, <1>9, <1>10, <1>11, <1>12, <1>13 DEF IInv

LEMMA KeepsTruncateDso ==
  ASSUME IInv, TruncateDso PROVE IInv'
<1>e. /\ (lpc = "writeDso" /\ lpc' = "finishDso") \/ (lpc = "dsoOnly" /\ lpc' = "finishDsoOnly")
      /\ elf' = elf
      /\ def' = def
      /\ defoutput' = defoutput
      /\ dso' = Torn
      /\ image' = image
      /\ linked' = linked
      /\ builds' = builds
      /\ done' = 0
      /\ exports' = exports
      /\ presetOrdinals' = presetOrdinals
  BY DEF TruncateDso, Goto, files
<1>p. Preset' = Preset
  BY <1>e DEF Preset
<1>i. LType /\ LKinds /\ Idle /\ Full /\ Consistent(Preset) /\ Placed /\ Backed /\ Addresses
      /\ Checked /\ Good /\ GoodImage /\ GoodDso /\ Linked
  BY DEF IInv
<1>1. LType'
  BY <1>e, <1>p, <1>i DEF LType, AfterParsing, AfterCheck
<1>2. LKinds'
  BY <1>e, <1>p, <1>i DEF LKinds, Torn
<1>3. Idle'
  BY <1>e, <1>p, <1>i DEF Idle
<1>4. Full'
  BY <1>e, <1>p, <1>i DEF Full, Idle
<1>5. Consistent(Preset)'
  BY <1>p, <1>i
<1>6. Placed'
  BY <1>e, <1>p, <1>i DEF Placed, PlacedUpTo, AfterParsing, AfterCheck
<1>7. Backed'
  BY <1>e, <1>p, <1>i DEF Backed
<1>8. Addresses'
  BY <1>e, <1>p, <1>i DEF Addresses
<1>9. Checked'
  BY <1>e, <1>p, <1>i DEF Checked, AfterCheck, Torn
<1>10. Good'
  BY <1>e, <1>p, <1>i DEF Good, Torn
<1>11. GoodImage'
  BY <1>e, <1>p, <1>i DEF GoodImage, Torn
<1>12. GoodDso'
  BY <1>e, <1>p, <1>i DEF GoodDso, Torn
<1>13. Linked'
  BY <1>e, <1>p, <1>i DEF Linked
<1> QED
  BY <1>1, <1>2, <1>3, <1>4, <1>5, <1>6, <1>7, <1>8, <1>9, <1>10, <1>11, <1>12, <1>13 DEF IInv

LEMMA KeepsWriteDso ==
  ASSUME IInv, WriteDso PROVE IInv'
<1>e. /\ lpc = "finishDso"
      /\ elf' = elf
      /\ def' = def
      /\ defoutput' = defoutput
      /\ dso' = writeDso(exports, presetOrdinals, builds)
      /\ image' = image
      /\ linked' = linked
      /\ builds' = builds
      /\ lpc' = "writeImage"
      /\ done' = 0
      /\ exports' = exports
      /\ presetOrdinals' = presetOrdinals
  BY DEF WriteDso, Goto
<1>p. Preset' = Preset
  BY <1>e DEF Preset
<1>i. LType /\ LKinds /\ Idle /\ Full /\ Consistent(Preset) /\ Placed /\ Backed /\ Addresses
      /\ Checked /\ Good /\ GoodImage /\ GoodDso /\ Linked
  BY DEF IInv
<1>1. LType'
  BY <1>e, <1>p, <1>i DEF LType, AfterParsing, AfterCheck
<1>2. LKinds'
  BY <1>e, <1>p, <1>i DEF LKinds, writeDso
<1>3. Idle'
  BY <1>e, <1>p, <1>i DEF Idle
<1>4. Full'
  BY <1>e, <1>p, <1>i DEF Full, Idle
<1>5. Consistent(Preset)'
  BY <1>p, <1>i
<1>6. Placed'
  BY <1>e, <1>p, <1>i DEF Placed, PlacedUpTo, AfterParsing, AfterCheck
<1>7. Backed'
  BY <1>e, <1>p, <1>i DEF Backed
<1>8. Addresses'
  BY <1>e, <1>p, <1>i DEF Addresses
<1>9. Checked'
  BY <1>e, <1>p, <1>i DEF Checked, AfterCheck
<1>10. Good'
  BY <1>e, <1>p, <1>i DEF Good
<1>11. GoodImage'
  BY <1>e, <1>p, <1>i DEF GoodImage
<1>12. GoodDso'
  <2>1. /\ Len(dso'.symbols) = Len(exports)
        /\ dso'.frozen = presetOrdinals
        /\ \A i \in 1 .. Len(exports) : dso'.symbols[i].name = exports[i].name
    BY <1>e, <1>i DEF writeDso, DsoSymbol, LType
  <2> QED
    BY <2>1, <1>e, <1>p, <1>i DEF GoodDso, Backed, LType
<1>13. Linked'
  BY <1>e, <1>p, <1>i DEF Linked
<1> QED
  BY <1>1, <1>2, <1>3, <1>4, <1>5, <1>6, <1>7, <1>8, <1>9, <1>10, <1>11, <1>12, <1>13 DEF IInv

LEMMA KeepsWriteDsoOnly ==
  ASSUME IInv, WriteDsoOnly PROVE IInv'
<1>e. /\ lpc = "finishDsoOnly"
      /\ elf' = elf
      /\ def' = def
      /\ defoutput' = defoutput
      /\ dso' = writeDso(exports, presetOrdinals, builds)
      /\ image' = image
      /\ linked' = linked
      /\ builds' = builds
      /\ lpc' = "idle"
      /\ done' = 0
      /\ exports' = << >>
      /\ presetOrdinals' = 0
  BY DEF WriteDsoOnly, Goto, NoBuild
<1>p. Preset' = Preset
  BY <1>e DEF Preset
<1>i. LType /\ LKinds /\ Idle /\ Full /\ Consistent(Preset) /\ Placed /\ Backed /\ Addresses
      /\ Checked /\ Good /\ GoodImage /\ GoodDso /\ Linked
  BY DEF IInv
<1>1. LType'
  BY <1>e, <1>p, <1>i DEF LType, AfterParsing, AfterCheck
<1>2. LKinds'
  BY <1>e, <1>p, <1>i DEF LKinds, writeDso
<1>3. Idle'
  BY <1>e, <1>p, <1>i DEF Idle
<1>4. Full'
  BY <1>e, <1>p, <1>i DEF Full, Idle
<1>5. Consistent(Preset)'
  BY <1>p, <1>i
<1>6. Placed'
  BY <1>e, <1>p, <1>i DEF Placed, PlacedUpTo, AfterParsing, AfterCheck
<1>7. Backed'
  BY <1>e, <1>p, <1>i DEF Backed
<1>8. Addresses'
  BY <1>e, <1>p, <1>i DEF Addresses
<1>9. Checked'
  BY <1>e, <1>p, <1>i DEF Checked, AfterCheck
<1>10. Good'
  BY <1>e, <1>p, <1>i DEF Good
<1>11. GoodImage'
  BY <1>e, <1>p, <1>i DEF GoodImage
<1>12. GoodDso'
  <2>1. /\ Len(dso'.symbols) = Len(exports)
        /\ dso'.frozen = presetOrdinals
        /\ \A i \in 1 .. Len(exports) : dso'.symbols[i].name = exports[i].name
    BY <1>e, <1>i DEF writeDso, DsoSymbol, LType
  <2> QED
    BY <2>1, <1>e, <1>p, <1>i DEF GoodDso, Backed, LType
<1>13. Linked'
  BY <1>e, <1>p, <1>i DEF Linked
<1> QED
  BY <1>1, <1>2, <1>3, <1>4, <1>5, <1>6, <1>7, <1>8, <1>9, <1>10, <1>11, <1>12, <1>13 DEF IInv

LEMMA KeepsWriteImage ==
  ASSUME IInv, WriteImage PROVE IInv'
<1>e. /\ lpc = "writeImage"
      /\ elf' = elf
      /\ def' = def
      /\ defoutput' = defoutput
      /\ dso' = dso
      /\ image' = [kind |-> "image", build |-> builds, directory |-> ExportDirectory(exports)]
      /\ linked' = linked
      /\ builds' = builds
      /\ lpc' = "idle"
      /\ done' = 0
      /\ exports' = << >>
      /\ presetOrdinals' = 0
  BY DEF WriteImage, Goto, NoBuild
<1>p. Preset' = Preset
  BY <1>e DEF Preset
<1>i. LType /\ LKinds /\ Idle /\ Full /\ Consistent(Preset) /\ Placed /\ Backed /\ Addresses
      /\ Checked /\ Good /\ GoodImage /\ GoodDso /\ Linked
  BY DEF IInv
<1>d. /\ exports \in Seq(Export)
      /\ \A i \in 1 .. Len(exports) : exports[i].address = exports[i].name
  BY <1>e, <1>i DEF LType, Addresses, Checked, AfterCheck
<1>g. /\ Len(ExportDirectory(exports)) = Len(exports)
      /\ \A i \in 1 .. Len(exports) : ExportDirectory(exports)[i] = exports[i].name
  BY <1>d DEF ExportDirectory
<1>h. \A n \in Name, o \in Nat \ {0} : FrozenIn(Preset, n, o) =>
        o <= Len(exports) /\ exports[o].name = n
  BY <1>e, <1>i DEF FrozenIn, Placed, PlacedUpTo, AfterParsing, AfterCheck, LType
<1>m. /\ image'.kind = "image"
      /\ Len(image'.directory) = Len(exports)
      /\ \A i \in 1 .. Len(exports) : image'.directory[i] = exports[i].name
  BY <1>e, <1>g
<1>1. LType'
  BY <1>e, <1>p, <1>i DEF LType, AfterParsing, AfterCheck
<1>2. LKinds'
  BY <1>e, <1>p, <1>i DEF LKinds
<1>3. Idle'
  BY <1>e, <1>p, <1>i DEF Idle
<1>4. Full'
  BY <1>e, <1>p, <1>i DEF Full, Idle
<1>5. Consistent(Preset)'
  BY <1>p, <1>i
<1>6. Placed'
  BY <1>e, <1>p, <1>i DEF Placed, PlacedUpTo, AfterParsing, AfterCheck
<1>7. Backed'
  BY <1>e, <1>p, <1>i DEF Backed
<1>8. Addresses'
  BY <1>e, <1>p, <1>i DEF Addresses
<1>9. Checked'
  BY <1>e, <1>p, <1>i DEF Checked, AfterCheck
<1>10. Good'
  BY <1>e, <1>p, <1>i DEF Good
<1>11. GoodImage'
  BY <1>m, <1>e, <1>p, <1>h DEF GoodImage
<1>12. GoodDso'
  BY <1>e, <1>p, <1>i DEF GoodDso
<1>13. Linked'
  BY <1>e, <1>p, <1>i DEF Linked
<1> QED
  BY <1>1, <1>2, <1>3, <1>4, <1>5, <1>6, <1>7, <1>8, <1>9, <1>10, <1>11, <1>12, <1>13 DEF IInv

LEMMA KeepsKillBuild ==
  ASSUME IInv, KillBuild PROVE IInv'
<1>e. /\ elf' = elf
      /\ def' = def
      /\ defoutput' = defoutput
      /\ dso' = dso
      /\ image' = image
      /\ linked' = linked
      /\ builds' = builds
      /\ lpc' = "idle"
      /\ done' = 0
      /\ exports' = << >>
      /\ presetOrdinals' = 0
  BY DEF KillBuild, Goto, files, NoBuild
<1>p. Preset' = Preset
  BY <1>e DEF Preset
<1>i. LType /\ LKinds /\ Idle /\ Full /\ Consistent(Preset) /\ Placed /\ Backed /\ Addresses
      /\ Checked /\ Good /\ GoodImage /\ GoodDso /\ Linked
  BY DEF IInv
<1>1. LType'
  BY <1>e, <1>p, <1>i DEF LType, AfterParsing, AfterCheck
<1>2. LKinds'
  BY <1>e, <1>p, <1>i DEF LKinds
<1>3. Idle'
  BY <1>e, <1>p, <1>i DEF Idle
<1>4. Full'
  BY <1>e, <1>p, <1>i DEF Full, Idle
<1>5. Consistent(Preset)'
  BY <1>p, <1>i
<1>6. Placed'
  BY <1>e, <1>p, <1>i DEF Placed, PlacedUpTo, AfterParsing, AfterCheck
<1>7. Backed'
  BY <1>e, <1>p, <1>i DEF Backed
<1>8. Addresses'
  BY <1>e, <1>p, <1>i DEF Addresses
<1>9. Checked'
  BY <1>e, <1>p, <1>i DEF Checked, AfterCheck
<1>10. Good'
  BY <1>e, <1>p, <1>i DEF Good
<1>11. GoodImage'
  BY <1>e, <1>p, <1>i DEF GoodImage
<1>12. GoodDso'
  BY <1>e, <1>p, <1>i DEF GoodDso
<1>13. Linked'
  BY <1>e, <1>p, <1>i DEF Linked
<1> QED
  BY <1>1, <1>2, <1>3, <1>4, <1>5, <1>6, <1>7, <1>8, <1>9, <1>10, <1>11, <1>12, <1>13 DEF IInv

LEMMA KeepsChangeSources ==
  ASSUME IInv, ChangeSources PROVE IInv'
<1>e. /\ lpc = "idle"
      /\ elf' \in ElfFiles
      /\ def' = def
      /\ defoutput' = defoutput
      /\ dso' = dso
      /\ image' = image
      /\ linked' = linked
      /\ builds' = builds
      /\ lpc' = lpc
      /\ done' = done
      /\ exports' = exports
      /\ presetOrdinals' = presetOrdinals
  BY DEF ChangeSources, files, buildVars
<1>p. Preset' = Preset
  BY <1>e DEF Preset
<1>i. LType /\ LKinds /\ Idle /\ Full /\ Consistent(Preset) /\ Placed /\ Backed /\ Addresses
      /\ Checked /\ Good /\ GoodImage /\ GoodDso /\ Linked
  BY DEF IInv
<1>1. LType'
  BY <1>e, <1>p, <1>i DEF LType, AfterParsing, AfterCheck
<1>2. LKinds'
  BY <1>e, <1>p, <1>i DEF LKinds
<1>3. Idle'
  BY <1>e, <1>p, <1>i DEF Idle
<1>4. Full'
  BY <1>e, <1>p, <1>i DEF Full, Idle
<1>5. Consistent(Preset)'
  BY <1>p, <1>i
<1>6. Placed'
  BY <1>e, <1>p, <1>i DEF Placed, PlacedUpTo, AfterParsing, AfterCheck
<1>7. Backed'
  BY <1>e, <1>p, <1>i DEF Backed
<1>8. Addresses'
  BY <1>e, <1>p, <1>i DEF Addresses
<1>9. Checked'
  BY <1>e, <1>p, <1>i DEF Checked, AfterCheck
<1>10. Good'
  BY <1>e, <1>p, <1>i DEF Good
<1>11. GoodImage'
  BY <1>e, <1>p, <1>i DEF GoodImage
<1>12. GoodDso'
  BY <1>e, <1>p, <1>i DEF GoodDso
<1>13. Linked'
  BY <1>e, <1>p, <1>i DEF Linked
<1> QED
  BY <1>1, <1>2, <1>3, <1>4, <1>5, <1>6, <1>7, <1>8, <1>9, <1>10, <1>11, <1>12, <1>13 DEF IInv

(* What is frozen stays frozen. *)
LEMMA FreezeKeepsFrozen ==
  ASSUME IInv, Freeze
  PROVE  \A n \in Name, o \in Nat \ {0} : FrozenIn(Preset, n, o) => FrozenIn(Preset', n, o)
<1> SUFFICES ASSUME NEW n \in Name, NEW o \in Nat \ {0}, FrozenIn(Preset, n, o)
             PROVE  FrozenIn(Preset', n, o)
  OBVIOUS
<1>1. /\ defoutput.kind = "def" /\ def' = defoutput.lines
      /\ Good /\ defoutput.lines \in Seq(DefLines)
  BY DEF Freeze, IInv, Good
<1>2. /\ Preset' \in Seq(DefLines)
      /\ Len(Preset') = Len(def') + Len(SysDef)
      /\ \A k \in 1 .. Len(def') : Preset'[k] = def'[k]
  BY <1>1, InputsAssumption DEF Preset
<1>3. /\ o \in 1 .. Len(defoutput.lines)
      /\ defoutput.lines[o].name = n
      /\ defoutput.lines[o].ordinal = o
      /\ ~ defoutput.lines[o].comment
  BY <1>1 DEF Good
<1>4. o \in 1 .. Len(Preset') /\ Preset'[o] = defoutput.lines[o]
  BY <1>1, <1>2, <1>3, InputsAssumption
<1> QED
  BY <1>3, <1>4 DEF FrozenIn

LEMMA KeepsFreeze ==
  ASSUME IInv, Freeze PROVE IInv'
<1>e. /\ lpc = "idle"
      /\ image.kind = "image"
      /\ defoutput.kind = "def"
      /\ image.directory = [i \in DOMAIN defoutput.lines |-> defoutput.lines[i].name]
      /\ elf' = elf
      /\ def' = defoutput.lines
      /\ defoutput' = defoutput
      /\ dso' = dso
      /\ image' = image
      /\ linked' = linked
      /\ builds' = builds
      /\ lpc' = lpc
      /\ done' = done
      /\ exports' = exports
      /\ presetOrdinals' = presetOrdinals
  BY DEF Freeze, files, buildVars
<1>i. LType /\ LKinds /\ Idle /\ Full /\ Consistent(Preset) /\ Placed /\ Backed /\ Addresses
      /\ Checked /\ Good /\ GoodImage /\ GoodDso /\ Linked
  BY DEF IInv
<1>d. defoutput.lines \in Seq(DefLines) /\ def' \in Seq(DefLines)
  BY <1>e, <1>i DEF Good
<1>q. /\ Preset' \in Seq(DefLines)
      /\ Len(Preset') = Len(def') + Len(SysDef)
      /\ \A k \in 1 .. Len(def') : Preset'[k] = def'[k]
      /\ \A k \in 1 .. Len(SysDef) : Preset'[Len(def') + k] = SysDef[k]
  BY <1>d, InputsAssumption DEF Preset
<1>l. \A k \in 1 .. Len(Preset') : /\ Preset'[k].name \in Name
                                   /\ Preset'[k].ordinal \in Nat \ {0}
  <2>1. Preset' \in Seq(DefLines)
    BY <1>q
  <2>2. \A k \in 1 .. Len(Preset') : Preset'[k] \in DefLines
    BY <2>1
  <2> QED
    BY <2>2 DEF DefLines
<1>r. \A n \in Name, o \in Nat \ {0} : FrozenIn(Preset, n, o) => FrozenIn(Preset', n, o)
  BY FreezeKeepsFrozen
<1>s. \A n \in Name, o \in Nat \ {0} : FrozenIn(Preset', n, o) =>
        o <= Len(defoutput.lines) /\ defoutput.lines[o].name = n
  <2> SUFFICES ASSUME NEW n \in Name, NEW o \in Nat \ {0}, FrozenIn(Preset', n, o)
               PROVE  o <= Len(defoutput.lines) /\ defoutput.lines[o].name = n
    OBVIOUS
  <2>1. PICK k \in 1 .. Len(Preset') :
          ~ Preset'[k].comment /\ Preset'[k].name = n /\ Preset'[k].ordinal = o
    BY DEF FrozenIn
  <2>2. CASE k <= Len(def')
    <3>1. k \in 1 .. Len(defoutput.lines) /\ Preset'[k] = defoutput.lines[k]
      BY <2>2, <1>q, <1>e, <1>d
    <3> QED
      BY <3>1, <2>1, <1>e, <1>i DEF Good
  <2>3. CASE k > Len(def')
    <3> DEFINE j == k - Len(def')
    <3>0. Len(def') \in Nat /\ Len(def) \in Nat /\ Len(SysDef) \in Nat /\ k \in Nat
      BY <1>d, <1>i, InputsAssumption DEF LType
    <3>1. j \in 1 .. Len(SysDef) /\ k = Len(def') + j
      BY <2>3, <1>q, <3>0
    <3> HIDE DEF j
    <3>2. Preset'[k] = SysDef[j]
      BY <3>1, <1>q
    <3>3. Preset[Len(def) + j] = SysDef[j] /\ Len(def) + j \in 1 .. Len(Preset)
      <4>1. def \in Seq(DefLines)
        BY <1>i DEF LType
      <4>2. /\ Len(Preset) = Len(def) + Len(SysDef)
            /\ \A m \in 1 .. Len(SysDef) : Preset[Len(def) + m] = SysDef[m]
        BY <4>1, PresetLines
      <4> QED
        BY <4>2, <3>0, <3>1
    <3>4. FrozenIn(Preset, n, o)
      BY <3>2, <3>3, <2>1 DEF FrozenIn
    <3> QED
      BY <3>4, <1>i, <1>e DEF Good
  <2> QED
    BY <2>2, <2>3, <1>d
<1>1. LType'
  BY <1>e, <1>d, <1>i DEF LType, AfterParsing, AfterCheck
<1>2. LKinds'
  BY <1>e, <1>i DEF LKinds
<1>3. Idle'
  BY <1>e, <1>i DEF Idle
<1>4. Full'
  BY <1>e DEF Full
<1>5. Consistent(Preset)'
  <2> SUFFICES ASSUME NEW j \in 1 .. Len(Preset'), NEW k \in 1 .. Len(Preset'),
                      Preset'[j].ordinal = Preset'[k].ordinal,
                      ~ Preset'[j].comment, ~ Preset'[k].comment
               PROVE  Preset'[j].name = Preset'[k].name
    BY DEF Consistent
  <2>1. /\ FrozenIn(Preset', Preset'[j].name, Preset'[j].ordinal)
        /\ FrozenIn(Preset', Preset'[k].name, Preset'[j].ordinal)
    BY DEF FrozenIn
  <2> QED
    BY <2>1, <1>l, <1>s
<1>6. Placed'
  BY <1>e, <1>i DEF Placed, AfterParsing, AfterCheck
<1>7. Backed'
  BY <1>e, <1>i DEF Backed, Idle
<1>8. Addresses'
  BY <1>e, <1>i DEF Addresses, Idle
<1>9. Checked'
  BY <1>e, <1>i DEF Checked, AfterCheck
<1>10. Good'
  BY <1>e, <1>i, <1>s DEF Good
<1>11. GoodImage'
  <2> SUFFICES ASSUME NEW n \in Name, NEW o \in Nat \ {0}, FrozenIn(Preset', n, o)
               PROVE  o <= Len(image.directory) /\ image.directory[o] = n
    BY <1>e, <1>i DEF GoodImage
  <2>1. o \in 1 .. Len(defoutput.lines) /\ defoutput.lines[o].name = n
    BY <1>d, <1>s
  <2>2. /\ Len(image.directory) = Len(defoutput.lines)
        /\ \A i \in 1 .. Len(defoutput.lines) : image.directory[i] = defoutput.lines[i].name
    BY <1>d, <1>e
  <2> QED
    BY <2>1, <2>2
<1>12. GoodDso'
  <2> SUFFICES ASSUME dso.kind = "dso", NEW i \in 1 .. dso.frozen, dso.symbols[i].name # NoName
               PROVE  FrozenIn(Preset', dso.symbols[i].name, i)
    BY <1>e, <1>i DEF GoodDso
  <2>1. FrozenIn(Preset, dso.symbols[i].name, i)
    BY <1>i DEF GoodDso
  <2>2. PICK k \in 1 .. Len(Preset) : Preset[k].name = dso.symbols[i].name
    BY <2>1 DEF FrozenIn
  <2>3. Preset[k] \in DefLines
    BY <1>i, PresetLines DEF LType
  <2>4. dso.symbols[i].name \in Name /\ i \in Nat \ {0}
    BY <2>2, <2>3, <1>i DEF DefLines, GoodDso
  <2> QED
    BY <2>1, <2>4, <1>r
<1>13. Linked'
  BY <1>e, <1>i, <1>r DEF Linked
<1> QED
  BY <1>1, <1>2, <1>3, <1>4, <1>5, <1>6, <1>7, <1>8, <1>9, <1>10, <1>11, <1>12, <1>13 DEF IInv

LEMMA KeepsLinkProgram ==
  ASSUME IInv, NEW name \in Name, NEW ordinal \in Ordinals, LinkProgram(name, ordinal) PROVE IInv'
<1>e. /\ dso.kind = "dso"
      /\ FoundAt(dso, name, ordinal)
      /\ ordinal <= dso.frozen
      /\ elf' = elf
      /\ def' = def
      /\ defoutput' = defoutput
      /\ dso' = dso
      /\ image' = image
      /\ linked' = linked \cup {<<name, ordinal>>}
      /\ builds' = builds
      /\ lpc' = lpc
      /\ done' = done
      /\ exports' = exports
      /\ presetOrdinals' = presetOrdinals
  BY DEF LinkProgram, files, buildVars
<1>p. Preset' = Preset
  BY <1>e DEF Preset
<1>i. LType /\ LKinds /\ Idle /\ Full /\ Consistent(Preset) /\ Placed /\ Backed /\ Addresses
      /\ Checked /\ Good /\ GoodImage /\ GoodDso /\ Linked
  BY DEF IInv
<1>1. LType'
  BY <1>e, <1>p, <1>i DEF LType, AfterParsing, AfterCheck
<1>2. LKinds'
  BY <1>e, <1>p, <1>i DEF LKinds
<1>3. Idle'
  BY <1>e, <1>p, <1>i DEF Idle
<1>4. Full'
  BY <1>e, <1>p, <1>i DEF Full, Idle
<1>5. Consistent(Preset)'
  BY <1>p, <1>i
<1>6. Placed'
  BY <1>e, <1>p, <1>i DEF Placed, PlacedUpTo, AfterParsing, AfterCheck
<1>7. Backed'
  BY <1>e, <1>p, <1>i DEF Backed
<1>8. Addresses'
  BY <1>e, <1>p, <1>i DEF Addresses
<1>9. Checked'
  BY <1>e, <1>p, <1>i DEF Checked, AfterCheck
<1>10. Good'
  BY <1>e, <1>p, <1>i DEF Good
<1>11. GoodImage'
  BY <1>e, <1>p, <1>i DEF GoodImage
<1>12. GoodDso'
  BY <1>e, <1>p, <1>i DEF GoodDso
<1>13. Linked'
  <2>1. ordinal \in 1 .. dso.frozen /\ ordinal \in Nat \ {0} /\ dso.symbols[ordinal].name = name
    BY <1>e, <1>i DEF FoundAt, GoodDso
  <2>2. name # NoName
    BY NamesAssumption DEF NoName
  <2>3. FrozenIn(Preset, name, ordinal)
    BY <2>1, <2>2, <1>e, <1>i DEF GoodDso
  <2> QED
    BY <2>1, <2>3, <1>e, <1>p, <1>i DEF Linked
<1> QED
  BY <1>1, <1>2, <1>3, <1>4, <1>5, <1>6, <1>7, <1>8, <1>9, <1>10, <1>11, <1>12, <1>13 DEF IInv

LEMMA InitHolds == LibInit => IInv
<1> SUFFICES ASSUME LibInit PROVE IInv
  OBVIOUS
<1>1. /\ elf \in ElfFiles /\ def \in DefFiles /\ linked = {} /\ builds = 0
      /\ lpc = "idle" /\ done = 0 /\ exports = << >> /\ presetOrdinals = 0
      /\ defoutput.kind = "none" /\ dso.kind = "none" /\ image.kind = "none"
  BY DEF LibInit, NoFile
<1>2. def \in Seq(DefLines) /\ Consistent(Preset) /\ MaxBuilds \in Nat
  BY <1>1, InputsAssumption DEF Preset
<1>3. exports \in Seq(Export) /\ Len(exports) = 0
  BY <1>1
<1>4. LType /\ LKinds
  BY <1>1, <1>2, <1>3 DEF LType, LKinds
<1>5. Idle /\ Full /\ Placed /\ Checked
  BY <1>1 DEF Idle, Full, Placed, Checked, AfterParsing, AfterCheck
<1>6. Backed /\ Addresses
  BY <1>1, <1>3 DEF Backed, Addresses
<1>7. Good /\ GoodImage /\ GoodDso /\ Linked
  BY <1>1 DEF Good, GoodImage, GoodDso, Linked
<1> QED
  BY <1>2, <1>4, <1>5, <1>6, <1>7 DEF IInv

LEMMA BuildStepKeeps ==
  ASSUME IInv, BuildStep PROVE IInv'
<1>1. CASE ParseDefLine
  BY <1>1, KeepsParseDefLine
<1>2. CASE OpenOutput
  BY <1>2, KeepsOpenOutput
<1>3. CASE DsoOnly
  BY <1>3, KeepsDsoOnly
<1>4. CASE NothingToDo
  BY <1>4, KeepsNothingToDo
<1>5. CASE FindExport
  BY <1>5, KeepsFindExport
<1>6. CASE Missing
  BY <1>6, KeepsMissing
<1>7. CASE SortExports
  BY <1>7, KeepsSortExports
<1>8. CASE TruncateDef
  BY <1>8, KeepsTruncateDef
<1>9. CASE WriteDef
  BY <1>9, KeepsWriteDef
<1>10. CASE TruncateDso
  BY <1>10, KeepsTruncateDso
<1>11. CASE WriteDso
  BY <1>11, KeepsWriteDso
<1>12. CASE WriteDsoOnly
  BY <1>12, KeepsWriteDsoOnly
<1>13. CASE WriteImage
  BY <1>13, KeepsWriteImage
<1>14. CASE NoDef
  BY <1>14, KeepsNoDef
<1>15. CASE NoDso
  BY <1>15, KeepsNoDso
<1>16. CASE NoDsoOnly
  BY <1>16, KeepsNoDsoOnly
<1> QED
  BY <1>1, <1>2, <1>3, <1>4, <1>5, <1>6, <1>7, <1>8, <1>9, <1>10, <1>11, <1>12,
     <1>13, <1>14, <1>15, <1>16 DEF BuildStep

LEMMA StutterKeeps ==
  ASSUME IInv, UNCHANGED libVars PROVE IInv'
<1>e. /\ elf' = elf /\ def' = def /\ defoutput' = defoutput /\ dso' = dso
      /\ image' = image /\ linked' = linked /\ builds' = builds /\ lpc' = lpc
      /\ done' = done /\ exports' = exports /\ presetOrdinals' = presetOrdinals
  BY DEF libVars
<1>p. Preset' = Preset
  BY <1>e DEF Preset
<1>1. (LType /\ LKinds /\ Idle /\ Full /\ Placed)'
  BY <1>e, <1>p DEF IInv, LType, LKinds, Idle, Full, Placed, PlacedUpTo
<1>2. (Backed /\ Addresses /\ Checked)'
  BY <1>e, <1>p DEF IInv, Backed, Addresses, Checked
<1>3. (Good /\ GoodImage /\ GoodDso /\ Linked)'
  BY <1>e, <1>p DEF IInv, Good, GoodImage, GoodDso, Linked
<1>4. Consistent(Preset)'
  BY <1>p DEF IInv
<1> QED
  BY <1>1, <1>2, <1>3, <1>4 DEF IInv

LEMMA NextKeeps ==
  ASSUME IInv, [LibNext]_libVars PROVE IInv'
<1>1. CASE StartBuild
  BY <1>1, KeepsStartBuild
<1>2. CASE BuildStep
  BY <1>2, BuildStepKeeps
<1>3. CASE KillBuild
  BY <1>3, KeepsKillBuild
<1>4. CASE ChangeSources
  BY <1>4, KeepsChangeSources
<1>5. CASE Freeze
  BY <1>5, KeepsFreeze
<1>6. CASE \E name \in Name, ordinal \in Ordinals : LinkProgram(name, ordinal)
  BY <1>6, KeepsLinkProgram
<1>7. CASE UNCHANGED libVars
  BY <1>7, StutterKeeps
<1> QED
  BY <1>1, <1>2, <1>3, <1>4, <1>5, <1>6, <1>7 DEF LibNext

LEMMA Inductive == LibSpec => []IInv
<1>1. LibInit => IInv
  BY InitHolds
<1>2. IInv /\ [LibNext]_libVars => IInv'
  BY NextKeeps
<1> QED
  BY <1>1, <1>2, PTL DEF LibSpec

(* The lists and files of a build keep their types, whatever the .def file *)
(* and the ELF files hold: addExportOrdinal makes the list long enough for *)
(* every preset ordinal.                                                   *)
THEOREM LibTypeCorrect == LibSpec => []LibTypeOK
<1>1. IInv => LibTypeOK
  BY DEF IInv, LType, LKinds, LibTypeOK
<1> QED
  BY <1>1, Inductive, PTL

(* A program that was linked to a frozen export finds it at its ordinal in *)
(* every complete image, over any number of builds, freezes, changes of    *)
(* the sources and interrupted runs.                                       *)
THEOREM LinkedProgramsAlwaysResolve == LibSpec => []LinkedProgramsResolve
<1>1. IInv => LinkedProgramsResolve
  <2> SUFFICES ASSUME IInv, image.kind = "image", NEW p \in linked
               PROVE  p[2] <= Len(image.directory) /\ image.directory[p[2]] = p[1]
    BY DEF LinkedProgramsResolve
  <2>1. p[1] \in Name /\ p[2] \in Nat \ {0} /\ FrozenIn(Preset, p[1], p[2])
    BY DEF IInv, Linked
  <2> QED
    BY <2>1 DEF IInv, GoodImage
<1> QED
  BY <1>1, Inductive, PTL

-----------------------------------------------------------------------------
(* What lies behind the preset ordinals has a name. *)
LEMMA AddHasName ==
  ASSUME NEW e \in Seq(Export), NEW sym \in Symbols, sym.name \in Name
  PROVE  \A i \in 1 .. Len(addExport(e, sym)) :
           i \notin 1 .. Len(e) => addExport(e, sym)[i].name = sym.name
<1>1. CASE ~ Known(e, sym.name)
  <2>1. PICK new : new = [name |-> sym.name, address |-> sym.name,
                          code |-> sym.code, size |-> sym.size]
    OBVIOUS
  <2>2. addExport(e, sym) = Append(e, new) /\ new.name = sym.name
    BY <1>1, <2>1 DEF addExport
  <2> QED
    BY <2>2
<1>2. CASE Known(e, sym.name)
  <2>1. Len(addExport(e, sym)) = Len(e)
    BY <1>2 DEF addExport
  <2> QED
    BY <2>1
<1> QED
  BY <1>1, <1>2

LEMMA NamesBehindStep ==
  ASSUME IInv, IInv', SortComparesNames, [LibNext]_libVars
  PROVE  SortComparesNames'
<1>t. /\ exports \in Seq(Export) /\ presetOrdinals \in 0 .. Len(exports)
      /\ exports' \in Seq(Export) /\ presetOrdinals' \in 0 .. Len(exports')
      /\ elf \in ElfFiles
  BY DEF IInv, LType
<1>1. CASE lpc' = "parseDefFile"
  <2>1. presetOrdinals' = Len(exports')
    BY <1>1 DEF IInv, Full
  <2> QED
    BY <2>1, <1>t DEF SortComparesNames
<1>2. CASE lpc' = "findExports" /\ exports' = exports /\ presetOrdinals' = presetOrdinals
           /\ lpc \in {"parseDefFile", "findExports"}
  BY <1>2 DEF SortComparesNames
<1>3. CASE FindExport /\ IsExport(elf[done + 1])
  <2>1. /\ lpc = "findExports" /\ done < Len(elf) /\ done \in Nat
        /\ presetOrdinals' = presetOrdinals
        /\ exports' = addExport(exports, elf[done + 1])
    BY <1>3 DEF FindExport, IInv, LType
  <2>2. elf \in Seq(Symbols)
    BY <1>t, InputsAssumption
  <2>3. done + 1 \in 1 .. Len(elf)
    BY <2>1, <2>2
  <2>4. elf[done + 1] \in Symbols /\ elf[done + 1].name \in Name
    BY <1>3, <1>t, <2>2, <2>3, InputsAssumption DEF IsExport
  <2>5. \A i \in 1 .. Len(exports') :
          i \notin 1 .. Len(exports) => exports'[i].name = elf[done + 1].name
    BY <1>t, <2>1, <2>4, AddHasName
  <2>6. \A i \in 1 .. Len(exports) : exports'[i].name = exports[i].name
    BY <1>t, <2>1, <2>4, AddKeeps
  <2>7. \A i \in presetOrdinals + 1 .. Len(exports) : exports[i].name # NoName
    BY <2>1 DEF SortComparesNames
  <2>8. elf[done + 1].name # NoName
    BY <2>4, NamesAssumption DEF NoName
  <2>9. \A i \in presetOrdinals' + 1 .. Len(exports') :
          /\ i \in 1 .. Len(exports')
          /\ i \in 1 .. Len(exports) => i \in presetOrdinals + 1 .. Len(exports)
    BY <1>t, <2>1
  <2> QED
    BY <2>5, <2>6, <2>7, <2>8, <2>9 DEF SortComparesNames
<1>4. CASE lpc' \notin {"parseDefFile", "findExports"}
  BY <1>4 DEF SortComparesNames
<1>5. lpc' = "findExports" =>
        \/ FindExport /\ IsExport(elf[done + 1])
        \/ /\ exports' = exports /\ presetOrdinals' = presetOrdinals
           /\ lpc \in {"parseDefFile", "findExports"}
  <2>1. CASE UNCHANGED libVars
    BY <2>1 DEF libVars
  <2>2. CASE BuildStep
    BY <2>2 DEF BuildStep, ParseDefLine, OpenOutput, DsoOnly, NothingToDo, FindExport, Missing,
       SortExports, NoDef, TruncateDef, WriteDef, NoDso, NoDsoOnly, TruncateDso, WriteDso,
       WriteDsoOnly, WriteImage, Goto
  <2>3. CASE StartBuild \/ KillBuild \/ ChangeSources \/ Freeze
             \/ \E name \in Name, ordinal \in Ordinals : LinkProgram(name, ordinal)
    BY <2>3 DEF StartBuild, KillBuild, ChangeSources, Freeze, LinkProgram, Goto, buildVars
  <2> QED
    BY <2>1, <2>2, <2>3 DEF LibNext
<1> QED
  BY <1>1, <1>2, <1>3, <1>4, <1>5

(* The range that doSort gives to std::sort has names only, so that        *)
(* Export::compare is an order on it: a hole is never behind the preset    *)
(* ordinals, whatever ordinals the .def file has and in whatever order.    *)
THEOREM SortAlwaysComparesNames == LibSpec => []SortComparesNames
<1>1. LibInit => SortComparesNames
  BY DEF LibInit, SortComparesNames
<1>2. IInv /\ IInv' /\ SortComparesNames /\ [LibNext]_libVars => SortComparesNames'
  BY NamesBehindStep
<1> QED
  BY <1>1, <1>2, Inductive, PTL DEF LibSpec

-----------------------------------------------------------------------------
(* The sizes on record.  While the lines are parsed, a later line for an   *)
(* ordinal takes the place of an earlier one: line k counts up to line n.  *)
RecordedUpTo(k, n) ==
  /\ ~ Preset[k].comment /\ ~ Preset[k].code /\ Preset[k].size # 0
  /\ \A j \in k + 1 .. n : Preset[j].comment \/ Preset[j].ordinal # Preset[k].ordinal

SizesUpTo(n) ==
  \A k \in 1 .. n :
    RecordedUpTo(k, n) => /\ ~ exports[Preset[k].ordinal].code
                          /\ exports[Preset[k].ordinal].size = Preset[k].size

SizesPlaced ==
  /\ lpc = "parseDefFile" => SizesUpTo(done)
  /\ lpc \in AfterParsing => SizesUpTo(Len(Preset))

SizesWritten ==
  defoutput.kind = "def" =>
    \A k \in 1 .. Len(Preset) :
      Recorded(k) =>
        /\ ~ defoutput.lines[Preset[k].ordinal].code
        /\ EpocVersion > 91 => defoutput.lines[Preset[k].ordinal].size = Preset[k].size

SInv == SizesPlaced /\ SizesWritten

LEMMA PlaceKeepsSize ==
  ASSUME NEW e \in Seq(Export), NEW line \in DefLines
  PROVE  LET t == addExportOrdinal(e, line) IN
         /\ t[line.ordinal].code = line.code /\ t[line.ordinal].size = line.size
         /\ \A i \in 1 .. Len(e) : i # line.ordinal => t[i] = e[i]
<1>1. line.ordinal \in Nat \ {0} /\ Len(e) \in Nat
  BY DEF DefLines
<1>2. \A i \in 1 .. Len(e) : i \in 1 .. Longest(Len(e), line.ordinal)
  BY <1>1 DEF Longest
<1>3. line.ordinal \in 1 .. Longest(Len(e), line.ordinal)
  BY <1>1 DEF Longest
<1> QED
  BY <1>2, <1>3 DEF addExportOrdinal

LEMMA AddKeepsSize ==
  ASSUME NEW e \in Seq(Export), NEW sym \in Symbols, sym.name \in Name
  PROVE  LET t == addExport(e, sym) IN
         \A i \in 1 .. Len(e) : e[i].size # 0 => t[i].code = e[i].code /\ t[i].size = e[i].size
<1>1. CASE ~ Known(e, sym.name)
  <2>1. PICK new : new = [name |-> sym.name, address |-> sym.name,
                          code |-> sym.code, size |-> sym.size]
    OBVIOUS
  <2>2. addExport(e, sym) = Append(e, new)
    BY <1>1, <2>1 DEF addExport
  <2> QED
    BY <2>2
<1>2. CASE Known(e, sym.name)
  <2> SUFFICES ASSUME NEW i \in 1 .. Len(e), e[i].size # 0
               PROVE  /\ addExport(e, sym)[i].code = e[i].code
                      /\ addExport(e, sym)[i].size = e[i].size
    OBVIOUS
  <2>1. addExport(e, sym)[i] = IF ~ IsFirst(e, sym.name, i) THEN e[i]
                               ELSE [e[i] EXCEPT !.address = sym.name]
    BY <1>2 DEF addExport
  <2>2. e[i] \in Export
    OBVIOUS
  <2> QED
    BY <2>1, <2>2 DEF Export
<1> QED
  BY <1>1, <1>2

(* A step that keeps the preset lines and what the list has of them. *)
LEMMA SizesStay ==
  ASSUME IInv, SInv, Preset' = Preset, presetOrdinals' = presetOrdinals,
         \A i \in 1 .. presetOrdinals : exports[i].size # 0 =>
           exports'[i].code = exports[i].code /\ exports'[i].size = exports[i].size,
         \/ lpc = "parseDefFile" /\ lpc' \in AfterParsing /\ done = Len(Preset)
         \/ lpc \in AfterParsing /\ lpc' \in AfterParsing
  PROVE  SizesPlaced'
<1>1. lpc' \in AfterParsing /\ lpc' # "parseDefFile"
  BY DEF AfterParsing, AfterCheck
<1>2. SizesUpTo(Len(Preset)) /\ PlacedUpTo(Len(Preset))
  BY DEF SInv, SizesPlaced, IInv, Placed
<1>3. def \in Seq(DefLines) /\ presetOrdinals \in Nat
  BY DEF IInv, LType
<1>4. ASSUME NEW k \in 1 .. Len(Preset), RecordedUpTo(k, Len(Preset))
      PROVE  /\ ~ exports'[Preset[k].ordinal].code
             /\ exports'[Preset[k].ordinal].size = Preset[k].size
  <2>1. Preset[k].ordinal \in Nat \ {0}
    BY <1>3, LineTypes
  <2>2. ~ Preset[k].comment /\ Preset[k].size # 0
    BY <1>4 DEF RecordedUpTo
  <2>3. Preset[k].ordinal \in 1 .. presetOrdinals
    BY <1>2, <1>3, <2>1, <2>2 DEF PlacedUpTo
  <2>4. /\ ~ exports[Preset[k].ordinal].code
        /\ exports[Preset[k].ordinal].size = Preset[k].size
    BY <1>2, <1>4 DEF SizesUpTo
  <2> QED
    BY <2>2, <2>3, <2>4
<1>5. SizesUpTo(Len(Preset))'
  BY <1>4 DEF SizesUpTo, RecordedUpTo
<1> QED
  BY <1>1, <1>5 DEF SizesPlaced

LEMMA WrittenStays ==
  ASSUME SizesWritten, Preset' = Preset, defoutput' = defoutput \/ defoutput'.kind # "def"
  PROVE  SizesWritten'
<1>1. CASE defoutput' = defoutput
  BY <1>1 DEF SizesWritten, Recorded
<1>2. CASE defoutput'.kind # "def"
  BY <1>2 DEF SizesWritten
<1> QED
  BY <1>1, <1>2

LEMMA SizesParseDefLine ==
  ASSUME IInv, SInv, ParseDefLine
  PROVE  SInv'
<1>1. /\ lpc = "parseDefFile" /\ lpc' = lpc /\ done < Len(Preset) /\ done' = done + 1
      /\ Preset' = Preset /\ defoutput' = defoutput
  BY DEF ParseDefLine, Preset, files
<1>2. PICK n : n = done + 1
  OBVIOUS
<1>3. /\ exports \in Seq(Export) /\ presetOrdinals \in 0 .. Len(exports) /\ done \in Nat
      /\ def \in Seq(DefLines) /\ Len(Preset) \in Nat
  BY PresetLines DEF IInv, LType
<1>4. n \in 1 .. Len(Preset) /\ n \in Nat /\ done = n - 1
  BY <1>1, <1>2, <1>3
<1>5. Preset[n] \in DefLines
  BY <1>3, <1>4, LineTypes
<1>6. SizesUpTo(done) /\ PlacedUpTo(done)
  BY <1>1 DEF SInv, SizesPlaced, IInv, Placed
<1>7. IF Preset[n].comment THEN exports' = exports
      ELSE exports' = addExportOrdinal(exports, Preset[n])
  BY <1>2 DEF ParseDefLine
<1>8. ASSUME NEW k \in 1 .. n, RecordedUpTo(k, n)
      PROVE  /\ ~ exports'[Preset[k].ordinal].code
             /\ exports'[Preset[k].ordinal].size = Preset[k].size
  <2>1. ~ Preset[k].comment /\ ~ Preset[k].code
    BY <1>8 DEF RecordedUpTo
  <2>2. CASE k = n
    <3>1. exports' = addExportOrdinal(exports, Preset[n])
      BY <1>7, <2>1, <2>2
    <3>2. /\ exports'[Preset[n].ordinal].code = Preset[n].code
          /\ exports'[Preset[n].ordinal].size = Preset[n].size
      BY <1>3, <1>5, <3>1, PlaceKeepsSize
    <3> QED
      BY <2>1, <2>2, <3>2
  <2>3. CASE k # n
    <3>1. k \in 1 .. done /\ n \in k + 1 .. n /\ (1 .. done) \subseteq (1 .. n)
      BY <1>3, <1>4, <2>3
    <3>2. RecordedUpTo(k, done)
      <4>1. \A j \in k + 1 .. done : j \in k + 1 .. n
        BY <1>3, <1>4
      <4> QED
        BY <1>8, <4>1 DEF RecordedUpTo
    <3>3. /\ ~ exports[Preset[k].ordinal].code
          /\ exports[Preset[k].ordinal].size = Preset[k].size
      BY <1>6, <3>1, <3>2 DEF SizesUpTo
    <3>4. Preset[n].comment \/ Preset[n].ordinal # Preset[k].ordinal
      BY <1>8, <3>1 DEF RecordedUpTo
    <3>5. Preset[k].ordinal \in 1 .. Len(exports)
      <4>1. k \in 1 .. Len(Preset)
        BY <1>3, <1>4
      <4>2. Preset[k].ordinal \in Nat \ {0}
        BY <1>3, <4>1, LineTypes
      <4>3. Preset[k].ordinal <= presetOrdinals
        BY <1>6, <2>1, <3>1 DEF PlacedUpTo
      <4> QED
        BY <1>3, <4>2, <4>3
    <3>6. exports'[Preset[k].ordinal] = exports[Preset[k].ordinal]
      <4>1. CASE Preset[n].comment
        BY <1>7, <4>1
      <4>2. CASE ~ Preset[n].comment
        <5>1. exports' = addExportOrdinal(exports, Preset[n])
          BY <1>7, <4>2
        <5> QED
          BY <1>3, <1>5, <3>4, <3>5, <4>2, <5>1, PlaceKeepsSize
      <4> QED
        BY <4>1, <4>2
    <3> QED
      BY <3>3, <3>6
  <2> QED
    BY <2>2, <2>3
<1>9. SizesUpTo(n)'
  <2>1. n' = n
    OBVIOUS
  <2> QED
    BY <1>1, <1>8 DEF SizesUpTo, RecordedUpTo
<1>10. SizesPlaced'
  <2>1. done' = n
    BY <1>1, <1>2
  <2>2. lpc' = "parseDefFile" /\ lpc' \notin AfterParsing
    BY <1>1 DEF AfterParsing, AfterCheck
  <2> QED
    BY <1>9, <2>1, <2>2 DEF SizesPlaced
<1> QED
  BY <1>1, <1>10, WrittenStays DEF SInv

LEMMA SizesFindExport ==
  ASSUME IInv, SInv, FindExport
  PROVE  SInv'
<1>1. /\ lpc = "findExports" /\ lpc' = lpc /\ done < Len(elf)
      /\ Preset' = Preset /\ defoutput' = defoutput /\ presetOrdinals' = presetOrdinals
  BY DEF FindExport, Preset, files
<1>2. /\ exports \in Seq(Export) /\ presetOrdinals \in 0 .. Len(exports)
      /\ elf \in ElfFiles /\ done \in Nat
  BY DEF IInv, LType
<1>3. \A i \in 1 .. presetOrdinals : exports[i].size # 0 =>
        exports'[i].code = exports[i].code /\ exports'[i].size = exports[i].size
  <2>1. CASE ~ IsExport(elf[done + 1])
    <3>1. exports' = exports
      BY <2>1 DEF FindExport
    <3> QED
      BY <3>1
  <2>2. CASE IsExport(elf[done + 1])
    <3>1. exports' = addExport(exports, elf[done + 1])
      BY <2>2 DEF FindExport
    <3>2. elf \in Seq(Symbols)
      BY <1>2, InputsAssumption
    <3>3. done + 1 \in 1 .. Len(elf)
      BY <1>1, <1>2, <3>2
    <3>4. elf[done + 1] \in Symbols /\ elf[done + 1].name \in Name
      BY <1>2, <2>2, <3>2, <3>3, InputsAssumption DEF IsExport
    <3>5. \A i \in 1 .. Len(exports) : exports[i].size # 0 =>
            exports'[i].code = exports[i].code /\ exports'[i].size = exports[i].size
      BY <1>2, <3>1, <3>4, AddKeepsSize
    <3>6. \A i \in 1 .. presetOrdinals : i \in 1 .. Len(exports)
      BY <1>2
    <3> QED
      BY <3>5, <3>6
  <2> QED
    BY <2>1, <2>2
<1>4. lpc \in AfterParsing /\ lpc' \in AfterParsing
  BY <1>1 DEF AfterParsing
<1>5. SizesPlaced'
  BY <1>1, <1>3, <1>4, SizesStay
<1> QED
  BY <1>1, <1>5, WrittenStays DEF SInv

LEMMA SizesSorted ==
  ASSUME IInv, SInv, DsoOnly \/ SortExports
  PROVE  SInv'
<1>1. /\ lpc \in {"findExports", "parseDefFile"} /\ lpc' \in {"writeDef", "dsoOnly"}
      /\ lpc = "parseDefFile" => done = Len(Preset)
      /\ exports' \in doSort(exports, presetOrdinals)
      /\ Preset' = Preset /\ defoutput' = defoutput /\ presetOrdinals' = presetOrdinals
  BY DEF DsoOnly, SortExports, Goto, Preset, files
<1>2. exports \in Seq(Export) /\ presetOrdinals \in 0 .. Len(exports)
  BY DEF IInv, LType
<1>3. \A i \in 1 .. presetOrdinals : exports'[i] = exports[i]
  BY <1>1, <1>2, SortKeeps
<1>4. /\ lpc' \in AfterParsing
      /\ lpc \in AfterParsing \/ lpc = "parseDefFile"
  BY <1>1 DEF AfterParsing, AfterCheck
<1>5. SizesPlaced'
  BY <1>1, <1>3, <1>4, SizesStay
<1> QED
  BY <1>1, <1>5, WrittenStays DEF SInv

LEMMA SizesWriteDef ==
  ASSUME IInv, SInv, WriteDef
  PROVE  SInv'
<1>1. /\ lpc = "finishDef" /\ lpc' = "writeDso" /\ Preset' = Preset
      /\ exports' = exports /\ presetOrdinals' = presetOrdinals
      /\ defoutput' = [kind |-> "def", lines |-> writeDef(exports)]
  BY DEF WriteDef, Goto, Preset
<1>2. lpc \in AfterParsing /\ lpc' \in AfterParsing
  BY <1>1 DEF AfterParsing, AfterCheck
<1>3. SizesPlaced'
  BY <1>1, <1>2, SizesStay
<1>4. SizesUpTo(Len(Preset)) /\ PlacedUpTo(Len(Preset))
  BY <1>2 DEF SInv, SizesPlaced, IInv, Placed
<1>5. /\ exports \in Seq(Export) /\ presetOrdinals \in 0 .. Len(exports)
      /\ def \in Seq(DefLines)
  BY DEF IInv, LType
<1>6. ASSUME NEW k \in 1 .. Len(Preset), Recorded(k)
      PROVE  /\ ~ defoutput'.lines[Preset[k].ordinal].code
             /\ EpocVersion > 91 => defoutput'.lines[Preset[k].ordinal].size = Preset[k].size
  <2>1. PICK o : o = Preset[k].ordinal
    OBVIOUS
  <2>2. o \in Nat \ {0}
    BY <1>5, <2>1, LineTypes
  <2>3. o <= presetOrdinals
    BY <1>4, <1>6, <2>1 DEF PlacedUpTo, Recorded
  <2>4. o \in 1 .. Len(exports)
    BY <1>5, <2>2, <2>3
  <2>5. ~ exports[o].code /\ exports[o].size = Preset[k].size
    BY <1>4, <1>6, <2>1 DEF SizesUpTo, RecordedUpTo, Recorded
  <2>6. defoutput'.lines[o] = DefLine(exports, o)
    BY <1>1, <2>4 DEF writeDef
  <2>7. EpocVersion > 91 => ~ (EpocVersion <= 91)
    BY VersionAssumption
  <2>8. /\ DefLine(exports, o).code = exports[o].code
        /\ DefLine(exports, o).size =
             IF EpocVersion <= 91 \/ exports[o].code THEN 0 ELSE exports[o].size
    BY DEF DefLine
  <2> QED
    BY <2>1, <2>5, <2>6, <2>7, <2>8
<1>7. SizesWritten'
  BY <1>1, <1>6 DEF SizesWritten, Recorded
<1> QED
  BY <1>3, <1>7 DEF SInv

LEMMA SizesFreeze ==
  ASSUME IInv, SInv, Freeze
  PROVE  SInv'
<1>1. /\ lpc = "idle" /\ lpc' = "idle" /\ defoutput.kind = "def"
      /\ def' = defoutput.lines /\ defoutput' = defoutput
  BY DEF Freeze, files, buildVars
<1>2. SizesPlaced'
  BY <1>1 DEF SizesPlaced, AfterParsing, AfterCheck
<1>3. /\ defoutput.lines \in Seq(DefLines) /\ def' \in Seq(DefLines) /\ def \in Seq(DefLines)
      /\ \A i \in 1 .. Len(defoutput.lines) : defoutput.lines[i].ordinal = i
  BY <1>1 DEF IInv, Good, LType
<1>4. PICK new : new = Preset'
  OBVIOUS
<1>5. /\ Len(new) = Len(def') + Len(SysDef)
      /\ \A k \in 1 .. Len(def') : new[k] = def'[k]
      /\ \A k \in 1 .. Len(SysDef) : new[Len(def') + k] = SysDef[k]
  BY <1>3, <1>4, InputsAssumption DEF Preset
<1>6. PICK a, b, c : a = Len(def') /\ b = Len(def) /\ c = Len(SysDef)
  OBVIOUS
<1>7. a \in Nat /\ b \in Nat /\ c \in Nat
  BY <1>3, <1>6, InputsAssumption
<1>8. /\ Len(Preset) = b + c
      /\ \A j \in 1 .. c : Preset[b + j] = SysDef[j]
  BY <1>3, <1>6, PresetLines
<1>9. ASSUME NEW k \in 1 .. Len(new),
             ~ new[k].comment, ~ new[k].code, new[k].size # 0,
             \A j \in k + 1 .. Len(new) : new[j].comment \/ new[j].ordinal # new[k].ordinal
      PROVE  /\ ~ defoutput.lines[new[k].ordinal].code
             /\ EpocVersion > 91 => defoutput.lines[new[k].ordinal].size = new[k].size
  <2>1. CASE k <= a
    <3>1. k \in 1 .. a
      BY <1>7, <2>1
    <3>2. new[k] = defoutput.lines[k] /\ new[k].ordinal = k
      BY <1>1, <1>3, <1>5, <1>6, <3>1
    <3> QED
      BY <1>9, <3>2
  <2>2. CASE ~ (k <= a)
    <3>1. PICK i : i = k - a
      OBVIOUS
    <3>2. i \in 1 .. c /\ k = a + i
      BY <1>5, <1>6, <1>7, <2>2, <3>1
    <3>3. new[k] = SysDef[i] /\ Preset[b + i] = SysDef[i]
      BY <1>5, <1>6, <1>8, <3>2
    <3>4. b + i \in 1 .. Len(Preset)
      BY <1>7, <1>8, <3>2
    <3>5. ASSUME NEW j \in (b + i) + 1 .. Len(Preset)
          PROVE  Preset[j].comment \/ Preset[j].ordinal # Preset[b + i].ordinal
      <4>1. PICK l : l = j - b
        OBVIOUS
      <4>2. l \in 1 .. c /\ j = b + l /\ a + l \in k + 1 .. a + c
        BY <1>7, <1>8, <3>2, <4>1, SMTT(30)
      <4>3. Preset[j] = SysDef[l] /\ new[a + l] = SysDef[l] /\ a + l \in k + 1 .. Len(new)
        BY <1>5, <1>6, <1>8, <4>2
      <4> QED
        BY <1>9, <3>3, <4>3
    <3>6. Recorded(b + i)
      BY <1>9, <3>3, <3>5 DEF Recorded
    <3>7. /\ ~ defoutput.lines[Preset[b + i].ordinal].code
          /\ EpocVersion > 91 =>
               defoutput.lines[Preset[b + i].ordinal].size = Preset[b + i].size
      BY <1>1, <3>4, <3>6 DEF SInv, SizesWritten
    <3> QED
      BY <3>3, <3>7
  <2> QED
    BY <2>1, <2>2
<1>10. SizesWritten'
  BY <1>1, <1>4, <1>9 DEF SizesWritten, Recorded
<1> QED
  BY <1>2, <1>10 DEF SInv

LEMMA SizesStep ==
  ASSUME IInv, SInv, [LibNext]_libVars
  PROVE  SInv'
<1>1. CASE ParseDefLine
  BY <1>1, SizesParseDefLine
<1>2. CASE FindExport
  BY <1>2, SizesFindExport
<1>3. CASE DsoOnly \/ SortExports
  BY <1>3, SizesSorted
<1>4. CASE WriteDef
  BY <1>4, SizesWriteDef
<1>5. CASE Freeze
  BY <1>5, SizesFreeze
<1>6. CASE OpenOutput
  <2>1. /\ lpc = "parseDefFile" /\ done = Len(Preset) /\ lpc' = "findExports"
        /\ Preset' = Preset /\ defoutput' = defoutput /\ exports' = exports
        /\ presetOrdinals' = presetOrdinals
    BY <1>6 DEF OpenOutput, Goto, Preset
  <2>2. lpc' \in AfterParsing
    BY <2>1 DEF AfterParsing
  <2>3. SizesPlaced'
    BY <2>1, <2>2, SizesStay
  <2> QED
    BY <2>1, <2>3, WrittenStays DEF SInv
<1>7. CASE NoDef \/ NoDso \/ TruncateDef \/ TruncateDso \/ WriteDso
  <2>1. /\ lpc \in {"writeDef", "writeDso", "dsoOnly", "finishDso"}
        /\ lpc' \in {"writeDso", "finishDef", "finishDso", "finishDsoOnly", "writeImage"}
        /\ Preset' = Preset /\ exports' = exports /\ presetOrdinals' = presetOrdinals
        /\ defoutput' = defoutput \/ defoutput'.kind # "def"
    BY <1>7 DEF NoDef, NoDso, TruncateDef, TruncateDso, WriteDso, Goto, Preset, files, Torn
  <2>2. lpc \in AfterParsing /\ lpc' \in AfterParsing
    BY <2>1 DEF AfterParsing, AfterCheck
  <2>3. SizesPlaced'
    BY <2>1, <2>2, SizesStay
  <2> QED
    BY <2>1, <2>3, WrittenStays DEF SInv
<1>8. CASE StartBuild
  <2>1. lpc' = "parseDefFile" /\ done' = 0 /\ Preset' = Preset /\ defoutput' = defoutput
    BY <1>8 DEF StartBuild, Goto, Preset, files
  <2>2. SizesPlaced'
    BY <2>1 DEF SizesPlaced, SizesUpTo, AfterParsing, AfterCheck
  <2> QED
    BY <2>1, <2>2, WrittenStays DEF SInv
<1>9. CASE NothingToDo \/ Missing \/ NoDsoOnly \/ WriteDsoOnly \/ WriteImage \/ KillBuild
            \/ ChangeSources
  <2>1. lpc' = "idle" /\ Preset' = Preset /\ defoutput' = defoutput
    BY <1>9 DEF NothingToDo, Missing, NoDsoOnly, WriteDsoOnly, WriteImage, KillBuild,
       ChangeSources, Goto,
       Preset, files, buildVars
  <2>2. SizesPlaced'
    BY <2>1 DEF SizesPlaced, AfterParsing, AfterCheck
  <2> QED
    BY <2>1, <2>2, WrittenStays DEF SInv
<1>10. CASE \/ UNCHANGED libVars
            \/ \E name \in Name, ordinal \in Ordinals : LinkProgram(name, ordinal)
  <2>1. /\ Preset' = Preset /\ defoutput' = defoutput /\ lpc' = lpc /\ done' = done
        /\ exports' = exports
    BY <1>10 DEF libVars, LinkProgram, Preset, files, buildVars
  <2>2. SizesPlaced'
    BY <2>1 DEF SInv, SizesPlaced, SizesUpTo, RecordedUpTo
  <2> QED
    BY <2>1, <2>2, WrittenStays DEF SInv
<1> QED
  BY <1>1, <1>2, <1>3, <1>4, <1>5, <1>6, <1>7, <1>8, <1>9, <1>10 DEF LibNext, BuildStep

LEMMA SizesHold == LibSpec => []SInv
<1>1. LibInit => SInv
  BY DEF LibInit, SInv, SizesPlaced, SizesWritten, NoFile, AfterParsing, AfterCheck
<1>2. IInv /\ SInv /\ [LibNext]_libVars => SInv'
  BY SizesStep
<1> QED
  BY <1>1, <1>2, Inductive, PTL DEF LibSpec

(* Only the developer changes the frozen .def file. *)
LEMMA OnlyFreezeChangesDef ==
  ASSUME [LibNext]_libVars, def' # def
  PROVE  Freeze
BY DEF LibNext, BuildStep, StartBuild, ParseDefLine, OpenOutput, DsoOnly, NothingToDo,
   FindExport, Missing, SortExports, NoDef, NoDso, NoDsoOnly, TruncateDef, WriteDef,
   TruncateDso, WriteDso,
   WriteDsoOnly, WriteImage, KillBuild, ChangeSources, LinkProgram, libVars

(* Freezing never moves a frozen name, never drops one, and never takes    *)
(* back that an export is data of a size on record, whatever builds came   *)
(* between and however they ended.                                         *)
THEOREM FreezeAlwaysKeeps == LibSpec => FreezeKeeps
<1> DEFINE Keeps ==
      def' # def =>
        \A k \in 1 .. Len(def) : ~ def[k].comment =>
          LET o == def[k].ordinal
          IN  /\ o <= Len(def')
              /\ def'[o].name = def[k].name
              /\ def'[o].ordinal = o
              /\ ~ def'[o].comment
              /\ Recorded(k) => /\ ~ def'[o].code
                                /\ EpocVersion > 91 => def'[o].size = def[k].size
<1>1. ASSUME IInv, SInv, [LibNext]_libVars
      PROVE  Keeps
  <2> SUFFICES ASSUME def' # def, NEW k \in 1 .. Len(def), ~ def[k].comment
               PROVE  /\ def[k].ordinal <= Len(def')
                      /\ def'[def[k].ordinal].name = def[k].name
                      /\ def'[def[k].ordinal].ordinal = def[k].ordinal
                      /\ ~ def'[def[k].ordinal].comment
                      /\ Recorded(k) =>
                           /\ ~ def'[def[k].ordinal].code
                           /\ EpocVersion > 91 => def'[def[k].ordinal].size = def[k].size
    OBVIOUS
  <2>1. defoutput.kind = "def" /\ def' = defoutput.lines
    BY <1>1, OnlyFreezeChangesDef DEF Freeze
  <2>2. def \in Seq(DefLines) /\ Good /\ SizesWritten
    BY <1>1 DEF IInv, LType, SInv
  <2>3. k \in 1 .. Len(Preset) /\ Preset[k] = def[k]
    <3>1. /\ Len(Preset) = Len(def) + Len(SysDef)
          /\ \A j \in 1 .. Len(def) : Preset[j] = def[j]
      BY <2>2, PresetLines
    <3>2. Len(def) \in Nat /\ Len(SysDef) \in Nat
      BY <2>2, InputsAssumption
    <3> QED
      BY <3>1, <3>2
  <2>4. def[k].name \in Name /\ def[k].ordinal \in Nat \ {0}
    BY <2>2, <2>3, LineTypes
  <2>5. FrozenIn(Preset, def[k].name, def[k].ordinal)
    BY <2>3 DEF FrozenIn
  <2>6. /\ def[k].ordinal <= Len(def') /\ def'[def[k].ordinal].name = def[k].name
        /\ def' \in Seq(DefLines)
    BY <2>1, <2>2, <2>4, <2>5 DEF Good
  <2>7. def[k].ordinal \in 1 .. Len(def')
    BY <2>4, <2>6
  <2>8. def'[def[k].ordinal].ordinal = def[k].ordinal /\ ~ def'[def[k].ordinal].comment
    BY <2>1, <2>2, <2>7 DEF Good
  <2>9. Recorded(k) => /\ ~ def'[def[k].ordinal].code
                       /\ EpocVersion > 91 => def'[def[k].ordinal].size = def[k].size
    BY <2>1, <2>2, <2>3 DEF SizesWritten
  <2> QED
    BY <2>6, <2>8, <2>9
<1>2. IInv /\ SInv /\ [LibNext]_libVars => [Keeps]_libVars
  BY <1>1
<1>3. [][Keeps]_libVars <=> FreezeKeeps
  BY PTL DEF FreezeKeeps
<1> HIDE DEF Keeps
<1> QED
  BY <1>2, <1>3, Inductive, SizesHold, PTL DEF LibSpec

-----------------------------------------------------------------------------
(* The hash table of the .dso.  The symbols of a bucket among the first n, *)
(* and what it means for m to be the last of such a set.                   *)
Members(e, b, n) == {i \in 1 .. n : e[i].name # NoName /\ Bucket(e, i) = b}

LastOf(m, M) == IF M = {} THEN m = 0 ELSE m \in M /\ \A k \in M : k <= m

Tables(e) == [table : [0 .. Buckets(e) - 1 -> 0 .. Len(e)],
              chain : [0 .. Len(e) -> 0 .. Len(e)]]

(* After n symbols: every bucket leads to its last symbol, and every       *)
(* symbol to the one before it in its bucket.                              *)
Threaded(e, t, n) ==
  /\ t.chain[0] = 0
  /\ \A b \in 0 .. Buckets(e) - 1 : LastOf(t.table[b], Members(e, b, n))
  /\ \A i \in 1 .. n : e[i].name # NoName =>
       LastOf(t.chain[i], Members(e, Bucket(e, i), i - 1))

LEMMA BucketTypes ==
  ASSUME NEW e \in Seq(Export)
  PROVE  /\ Buckets(e) \in Nat \ {0} /\ Len(e) \in Nat
         /\ \A i \in 1 .. Len(e) : e[i].name # NoName => Bucket(e, i) \in 0 .. Buckets(e) - 1
<1>1. Buckets(e) \in Nat \ {0} /\ Len(e) \in Nat
  BY DEF Buckets
<1>2. ASSUME NEW i \in 1 .. Len(e), e[i].name # NoName
      PROVE  Bucket(e, i) \in 0 .. Buckets(e) - 1
  <2>1. e[i] \in Export
    OBVIOUS
  <2>2. e[i].name \in Name
    BY <1>2, <2>1 DEF Export
  <2>3. Hash(e[i].name) \in Nat
    BY <2>2, HashAssumption
  <2>4. PICK h \in Nat : h = Hash(e[i].name)
    BY <2>3
  <2>5. PICK m \in Nat \ {0} : m = Buckets(e)
    BY <1>1
  <2>6. h % m \in 0 .. m - 1
    OBVIOUS
  <2>7. Bucket(e, i) = h % m
    BY <2>4, <2>5 DEF Bucket
  <2> QED
    BY <2>5, <2>6, <2>7
<1> QED
  BY <1>1, <1>2

(* One more symbol. *)
ThreadOne(e, t, i) == IF e[i].name = NoName THEN t ELSE LinkedIn(t, Bucket(e, i), i)

LEMMA ThreadOneKeeps ==
  ASSUME NEW e \in Seq(Export), NEW i \in 1 .. Len(e), NEW t \in Tables(e)
  PROVE  /\ ThreadOne(e, t, i) \in Tables(e)
         /\ Threaded(e, t, i - 1) => Threaded(e, ThreadOne(e, t, i), i)
<1>b. /\ Buckets(e) \in Nat \ {0} /\ Len(e) \in Nat
      /\ \A j \in 1 .. Len(e) : e[j].name # NoName => Bucket(e, j) \in 0 .. Buckets(e) - 1
  BY BucketTypes
<1>i. i \in Nat \ {0} /\ \A j \in 1 .. i : j \in 1 .. i - 1 \/ j = i
  BY <1>b
<1>1. CASE e[i].name = NoName
  <2>1. ThreadOne(e, t, i) = t
    BY <1>1 DEF ThreadOne
  <2>2. \A b : Members(e, b, i) = Members(e, b, i - 1)
    BY <1>1, <1>i DEF Members
  <2>3. Threaded(e, t, i - 1) => Threaded(e, t, i)
    BY <1>1, <1>i, <2>2 DEF Threaded
  <2> QED
    BY <2>1, <2>3
<1>2. CASE e[i].name # NoName
  <2>1. PICK c : c = Bucket(e, i)
    OBVIOUS
  <2>2. c \in 0 .. Buckets(e) - 1
    BY <1>2, <1>b, <2>1
  <2>3. PICK u : u = LinkedIn(t, c, i)
    OBVIOUS
  <2>4. ThreadOne(e, t, i) = u
    BY <1>2, <2>1, <2>3 DEF ThreadOne
  <2>5. /\ t.table \in [0 .. Buckets(e) - 1 -> 0 .. Len(e)]
        /\ t.chain \in [0 .. Len(e) -> 0 .. Len(e)]
    BY DEF Tables
  <2>6. u.table = [t.table EXCEPT ![c] = i] /\ u.chain = [t.chain EXCEPT ![i] = t.table[c]]
    BY <2>3 DEF LinkedIn
  <2>7. i \in 0 .. Len(e) /\ t.table[c] \in 0 .. Len(e)
    BY <1>b, <2>2, <2>5
  <2>8. u \in Tables(e)
    <3>a. PICK A, B : A = 0 .. Buckets(e) - 1 /\ B = 0 .. Len(e)
      OBVIOUS
    <3>b. u.table \in [A -> B]
      BY <2>2, <2>5, <2>6, <2>7, <3>a
    <3>c. u.chain \in [B -> B]
      BY <2>5, <2>6, <2>7, <3>a
    <3>1. /\ u.table \in [0 .. Buckets(e) - 1 -> 0 .. Len(e)]
          /\ u.chain \in [0 .. Len(e) -> 0 .. Len(e)]
      BY <3>a, <3>b, <3>c
    <3>2. u = [table |-> u.table, chain |-> u.chain]
      BY <2>3 DEF LinkedIn
    <3> QED
      BY <3>1, <3>2 DEF Tables
  <2>9. ASSUME Threaded(e, t, i - 1)
        PROVE  Threaded(e, u, i)
    <3>1. ASSUME NEW b \in 0 .. Buckets(e) - 1
          PROVE  LastOf(u.table[b], Members(e, b, i))
      <4>1. CASE b = c
        <5>1. u.table[b] = i
          BY <2>5, <2>6, <4>1
        <5>2. i \in Members(e, b, i)
          BY <1>2, <1>i, <2>1, <4>1 DEF Members
        <5>3. \A k \in Members(e, b, i) : k <= i
          BY <1>i DEF Members
        <5> QED
          BY <5>1, <5>2, <5>3 DEF LastOf
      <4>2. CASE b # c
        <5>1. u.table[b] = t.table[b]
          BY <2>5, <2>6, <4>2
        <5>2. Members(e, b, i) = Members(e, b, i - 1)
          BY <1>i, <2>1, <4>2 DEF Members
        <5> QED
          BY <2>9, <5>1, <5>2 DEF Threaded
      <4> QED
        BY <4>1, <4>2
    <3>2. ASSUME NEW j \in 1 .. i, e[j].name # NoName
          PROVE  LastOf(u.chain[j], Members(e, Bucket(e, j), j - 1))
      <4>1. CASE j = i
        <5>1. u.chain[j] = t.table[c] /\ Bucket(e, j) = c
          BY <2>1, <2>5, <2>6, <2>7, <4>1
        <5>2. LastOf(t.table[c], Members(e, c, i - 1))
          BY <2>2, <2>9 DEF Threaded
        <5> QED
          BY <4>1, <5>1, <5>2
      <4>2. CASE j # i
        <5>1. j \in 1 .. i - 1 /\ j \in 0 .. Len(e)
          BY <1>b, <1>i, <4>2
        <5>2. u.chain[j] = t.chain[j]
          BY <2>5, <2>6, <4>2, <5>1
        <5> QED
          BY <2>9, <3>2, <5>1, <5>2 DEF Threaded
      <4> QED
        BY <4>1, <4>2
    <3>3. u.chain[0] = 0
      BY <1>i, <2>5, <2>6, <2>7, <2>9 DEF Threaded
    <3> QED
      BY <3>1, <3>2, <3>3 DEF Threaded
  <2> QED
    BY <2>4, <2>8, <2>9
<1> QED
  BY <1>1, <1>2

LEMMA NoChainsThreaded ==
  ASSUME NEW e \in Seq(Export)
  PROVE  NoChains(e) \in Tables(e) /\ Threaded(e, NoChains(e), 0)
<1>1. Buckets(e) \in Nat \ {0} /\ Len(e) \in Nat
  BY BucketTypes
<1>2. NoChains(e) \in Tables(e)
  BY <1>1 DEF NoChains, Tables
<1>3. \A b \in 0 .. Buckets(e) - 1 : NoChains(e).table[b] = 0 /\ Members(e, b, 0) = {}
  BY DEF NoChains, Members
<1>4. NoChains(e).chain[0] = 0
  BY <1>1 DEF NoChains
<1> QED
  BY <1>2, <1>3, <1>4 DEF Threaded, LastOf

(* HashTables is the recursion that it is written as. *)
LEMMA HashTablesStep ==
  ASSUME NEW e \in Seq(Export)
  PROVE  \E t \in [0 .. Len(e) -> Tables(e)] :
           /\ t[0] = NoChains(e)
           /\ \A i \in 1 .. Len(e) : t[i] = ThreadOne(e, t[i - 1], i)
           /\ HashTables(e) = t[Len(e)]
<1> DEFINE t[i \in 0 .. Len(e)] ==
             IF i = 0 THEN NoChains(e)
             ELSE IF e[i].name = NoName THEN t[i - 1]
             ELSE LinkedIn(t[i - 1], Bucket(e, i), i)
<1>1. HashTables(e) = t[Len(e)]
  BY Zenon DEF HashTables
<1>2. t = CHOOSE f : f = [i \in 0 .. Len(e) |->
                            IF i = 0 THEN NoChains(e)
                            ELSE IF e[i].name = NoName THEN f[i - 1]
                            ELSE LinkedIn(f[i - 1], Bucket(e, i), i)]
  BY Zenon DEF t
<1> HIDE DEF t
<1>3. PICK g : g = [p \in (1 .. Len(e)) \X Tables(e) |-> ThreadOne(e, p[2], p[1])]
  OBVIOUS
<1>4. Len(e) \in Nat /\ NoChains(e) \in Tables(e)
  BY NoChainsThreaded
<1>5. g \in [(1 .. Len(e)) \X Tables(e) -> Tables(e)]
  BY <1>3, ThreadOneKeeps
<1>6. PICK f \in [0 .. Len(e) -> Tables(e)] : Follows(f, Len(e), NoChains(e), g)
  BY <1>4, <1>5, RecursionExists
<1>7. f[0] = NoChains(e) /\ \A i \in 1 .. Len(e) : f[i] = ThreadOne(e, f[i - 1], i)
  <2>1. ASSUME NEW i \in 1 .. Len(e)
        PROVE  f[i] = ThreadOne(e, f[i - 1], i)
    <3>1. f[i] = g[<<i, f[i - 1]>>]
      BY <1>6 DEF Follows
    <3>2. i - 1 \in 0 .. Len(e)
      BY <1>4
    <3>3. f[i - 1] \in Tables(e)
      BY <3>2
    <3> QED
      BY <1>3, <3>1, <3>3
  <2> QED
    BY <1>6, <2>1 DEF Follows
<1>8. f = [i \in 0 .. Len(e) |->
             IF i = 0 THEN NoChains(e)
             ELSE IF e[i].name = NoName THEN f[i - 1]
             ELSE LinkedIn(f[i - 1], Bucket(e, i), i)]
  <2>1. \A i \in 0 .. Len(e) : i = 0 \/ i \in 1 .. Len(e)
    BY <1>4
  <2>2. \A i \in 0 .. Len(e) :
          f[i] = IF i = 0 THEN NoChains(e)
                 ELSE IF e[i].name = NoName THEN f[i - 1]
                 ELSE LinkedIn(f[i - 1], Bucket(e, i), i)
    BY <1>7, <2>1 DEF ThreadOne
  <2> QED
    BY <2>2
<1>9. t = [i \in 0 .. Len(e) |->
             IF i = 0 THEN NoChains(e)
             ELSE IF e[i].name = NoName THEN t[i - 1]
             ELSE LinkedIn(t[i - 1], Bucket(e, i), i)]
  BY <1>2, <1>8, Zenon
<1>10. t[0] = NoChains(e) /\ \A i \in 1 .. Len(e) : t[i] = ThreadOne(e, t[i - 1], i)
  <2>1. 0 \in 0 .. Len(e) /\ \A i \in 1 .. Len(e) : i \in 0 .. Len(e) /\ i # 0
    BY <1>4
  <2> QED
    BY <1>9, <2>1, Zenon DEF ThreadOne
<1>11. \A i \in 0 .. Len(e) : i \in {k \in 0 .. Len(e) : t[k] \in Tables(e)}
  <2>1. PICK T : T = {k \in 0 .. Len(e) : t[k] \in Tables(e)}
    OBVIOUS
  <2>2. 0 \in T
    BY <1>4, <1>10, <2>1
  <2>3. ASSUME NEW n \in 0 .. Len(e) - 1, n \in T
        PROVE  n + 1 \in T
    <3>1. n + 1 \in 1 .. Len(e) /\ (n + 1) - 1 = n /\ n + 1 \in 0 .. Len(e)
      BY <1>4
    <3>2. t[n + 1] = ThreadOne(e, t[n], n + 1) /\ t[n] \in Tables(e)
      BY <1>10, <2>1, <2>3, <3>1
    <3> QED
      BY <2>1, <3>1, <3>2, ThreadOneKeeps
  <2>4. \A n \in 0 .. Len(e) : n \in T
    BY <1>4, <2>2, <2>3, SetInduction
  <2> QED
    BY <2>1, <2>4
<1>12. t \in [0 .. Len(e) -> Tables(e)]
  <2>1. \A i \in 0 .. Len(e) : t[i] \in Tables(e)
    BY <1>11
  <2>2. t = [i \in 0 .. Len(e) |-> t[i]]
    BY <1>9, Zenon
  <2> QED
    BY <2>1, <2>2, Zenon
<1> QED
  BY <1>1, <1>10, <1>12

LEMMA HashTablesThreaded ==
  ASSUME NEW e \in Seq(Export)
  PROVE  HashTables(e) \in Tables(e) /\ Threaded(e, HashTables(e), Len(e))
<1>1. PICK t \in [0 .. Len(e) -> Tables(e)] :
        /\ t[0] = NoChains(e)
        /\ \A i \in 1 .. Len(e) : t[i] = ThreadOne(e, t[i - 1], i)
        /\ HashTables(e) = t[Len(e)]
  BY HashTablesStep
<1>2. PICK T : T = {n \in 0 .. Len(e) : Threaded(e, t[n], n)}
  OBVIOUS
<1>3. Len(e) \in Nat
  OBVIOUS
<1>4. 0 \in T
  BY <1>1, <1>2, <1>3, NoChainsThreaded
<1>5. ASSUME NEW n \in 0 .. Len(e) - 1, n \in T
      PROVE  n + 1 \in T
  <2>1. n + 1 \in 1 .. Len(e) /\ (n + 1) - 1 = n /\ n + 1 \in 0 .. Len(e) /\ n \in 0 .. Len(e)
    BY <1>3
  <2>2. t[n + 1] = ThreadOne(e, t[n], n + 1) /\ t[n] \in Tables(e)
    BY <1>1, <2>1
  <2>3. Threaded(e, t[n], (n + 1) - 1)
    BY <1>2, <1>5, <2>1
  <2>4. Threaded(e, t[n + 1], n + 1)
    BY <2>1, <2>2, <2>3, ThreadOneKeeps
  <2> QED
    BY <1>2, <2>1, <2>4
<1>6. \A n \in 0 .. Len(e) : n \in T
  BY <1>3, <1>4, <1>5, SetInduction
<1>7. Len(e) \in 0 .. Len(e)
  BY <1>3
<1> QED
  BY <1>1, <1>2, <1>6, <1>7

(* Following a chain: what a linker meets after n steps. *)
Walks(step, lib, N, b) ==
  /\ step[0] = lib.hash.table[b]
  /\ \A n \in 1 .. N : step[n] = lib.hash.chain[step[n - 1]]
  /\ Chain(lib, b) = {step[n] : n \in 0 .. N} \ {0}

LEMMA ChainStep ==
  ASSUME NEW lib, NEW N \in Nat, Len(lib.symbols) = N, NEW b,
         lib.hash.table[b] \in 0 .. N, lib.hash.chain \in [0 .. N -> 0 .. N]
  PROVE  \E step \in [0 .. N -> 0 .. N] : Walks(step, lib, N, b)
<1> DEFINE step[n \in 0 .. Len(lib.symbols)] ==
             IF n = 0 THEN lib.hash.table[b]
             ELSE lib.hash.chain[step[n - 1]]
<1>1. Chain(lib, b) = {step[n] : n \in 0 .. Len(lib.symbols)} \ {0}
  BY Zenon DEF Chain
<1>2. step = CHOOSE f : f = [n \in 0 .. Len(lib.symbols) |->
                               IF n = 0 THEN lib.hash.table[b]
                               ELSE lib.hash.chain[f[n - 1]]]
  BY Zenon DEF step
<1> HIDE DEF step
<1>3. PICK g : g = [p \in (1 .. N) \X (0 .. N) |-> lib.hash.chain[p[2]]]
  OBVIOUS
<1>4. g \in [(1 .. N) \X (0 .. N) -> 0 .. N]
  BY <1>3
<1>5. PICK f \in [0 .. N -> 0 .. N] : Follows(f, N, lib.hash.table[b], g)
  BY <1>4, RecursionExists
<1>6. /\ f[0] = lib.hash.table[b]
      /\ \A n \in 1 .. N : f[n] = lib.hash.chain[f[n - 1]]
  <2>1. ASSUME NEW n \in 1 .. N
        PROVE  f[n] = lib.hash.chain[f[n - 1]]
    <3>1. f[n] = g[<<n, f[n - 1]>>]
      BY <1>5 DEF Follows
    <3>2. n - 1 \in 0 .. N
      OBVIOUS
    <3>3. f[n - 1] \in 0 .. N
      BY <3>2
    <3> QED
      BY <1>3, <3>1, <3>3
  <2> QED
    BY <1>5, <2>1 DEF Follows
<1>7. f = [n \in 0 .. N |-> IF n = 0 THEN lib.hash.table[b] ELSE lib.hash.chain[f[n - 1]]]
  <2>1. \A n \in 0 .. N : n = 0 \/ n \in 1 .. N
    OBVIOUS
  <2>2. \A n \in 0 .. N :
          f[n] = IF n = 0 THEN lib.hash.table[b] ELSE lib.hash.chain[f[n - 1]]
    BY <1>6, <2>1
  <2> QED
    BY <2>2
<1>8. step = [n \in 0 .. N |-> IF n = 0 THEN lib.hash.table[b] ELSE lib.hash.chain[step[n - 1]]]
  BY <1>2, <1>7, Zenon
<1>9. /\ step[0] = lib.hash.table[b]
      /\ \A n \in 1 .. N : step[n] = lib.hash.chain[step[n - 1]]
  <2>1. 0 \in 0 .. N /\ \A n \in 1 .. N : n \in 0 .. N /\ n # 0
    OBVIOUS
  <2> QED
    BY <1>8, <2>1, Zenon
<1>10. \A n \in 0 .. N : n \in {k \in 0 .. N : step[k] \in 0 .. N}
  <2>1. PICK T : T = {k \in 0 .. N : step[k] \in 0 .. N}
    OBVIOUS
  <2>a. 0 \in 0 .. N /\ step[0] \in 0 .. N
    BY <1>9
  <2>2. 0 \in T
    BY <2>1, <2>a, Zenon
  <2>3. ASSUME NEW n \in 0 .. N - 1, n \in T
        PROVE  n + 1 \in T
    <3>1. n + 1 \in 1 .. N /\ (n + 1) - 1 = n /\ n + 1 \in 0 .. N
      OBVIOUS
    <3>2. step[n + 1] = lib.hash.chain[step[n]] /\ step[n] \in 0 .. N
      BY <1>9, <2>1, <2>3, <3>1
    <3> QED
      BY <2>1, <3>1, <3>2
  <2>4. \A n \in 0 .. N : n \in T
    BY <2>2, <2>3, SetInduction
  <2> QED
    BY <2>1, <2>4
<1>11. step \in [0 .. N -> 0 .. N]
  <2>1. \A n \in 0 .. N : step[n] \in 0 .. N
    BY <1>10
  <2>2. step = [n \in 0 .. N |-> step[n]]
    BY <1>8, Zenon
  <2> QED
    BY <2>1, <2>2, Zenon
<1>12. Walks(step, lib, N, b)
  BY <1>1, <1>9 DEF Walks
<1> QED
  BY <1>11, <1>12

(* The chain of a bucket has its members and no others: it goes down from  *)
(* the last of them, leaves none out, and has come to its end after as     *)
(* many steps as there are symbols.                                        *)
LEMMA ChainIsBucket ==
  ASSUME NEW e \in Seq(Export), NEW lib, Len(lib.symbols) = Len(e),
         lib.hash \in Tables(e), Threaded(e, lib.hash, Len(e)),
         NEW b \in 0 .. Buckets(e) - 1
  PROVE  Chain(lib, b) = Members(e, b, Len(e))
<1>1. PICK N \in Nat : N = Len(e)
  OBVIOUS
<1>2. /\ lib.hash.table \in [0 .. Buckets(e) - 1 -> 0 .. N]
      /\ lib.hash.chain \in [0 .. N -> 0 .. N]
  BY <1>1 DEF Tables
<1>w. PICK step \in [0 .. N -> 0 .. N] : Walks(step, lib, N, b)
  <2>1. lib.hash.table[b] \in 0 .. N /\ Len(lib.symbols) = N
    BY <1>1, <1>2
  <2> QED
    BY <1>2, <2>1, ChainStep
<1>3. /\ step[0] = lib.hash.table[b]
      /\ \A n \in 1 .. N : step[n] = lib.hash.chain[step[n - 1]]
      /\ Chain(lib, b) = {step[n] : n \in 0 .. N} \ {0}
  BY <1>w DEF Walks
<1>4. PICK M : M = Members(e, b, N)
  OBVIOUS
<1>5. /\ M \subseteq 1 .. N
      /\ \A m \in M : Members(e, Bucket(e, m), m - 1) = {i \in M : i < m}
  BY <1>1, <1>4 DEF Members
<1>6. LastOf(step[0], M)
  BY <1>1, <1>3, <1>4 DEF Threaded
<1>7. \A m \in M : LastOf(lib.hash.chain[m], {i \in M : i < m})
  <2>1. \A m \in M : m \in 1 .. N /\ e[m].name # NoName
    BY <1>4 DEF Members
  <2> QED
    BY <1>1, <1>5, <2>1 DEF Threaded
<1>8. PICK T : T = {n \in 0 .. N : /\ step[n] \in M \cup {0}
                                   /\ step[n] <= N - n
                                   /\ \A i \in M : (\E k \in 0 .. n : step[k] = i) \/ i < step[n]}
  OBVIOUS
<1>9. 0 \in T
  <2>1. step[0] \in M \cup {0} /\ \A i \in M : i <= step[0]
    BY <1>6 DEF LastOf
  <2>2. \A i \in M : i = step[0] \/ i < step[0]
    BY <1>5, <2>1
  <2>3. step[0] <= N - 0 /\ 0 \in 0 .. N /\ 0 \in 0 .. 0
    BY <1>3, SMTT(30)
  <2> QED
    BY <1>8, <2>1, <2>2, <2>3
<1>10. ASSUME NEW n \in 0 .. N - 1, n \in T
       PROVE  n + 1 \in T
  <2>1. /\ n + 1 \in 1 .. N /\ (n + 1) - 1 = n /\ n + 1 \in 0 .. N /\ n \in 0 .. N /\ n \in Nat
        /\ \A k \in 0 .. n : k \in 0 .. n + 1
    OBVIOUS
  <2>2. step[n + 1] = lib.hash.chain[step[n]]
    BY <1>3, <2>1
  <2>3. /\ step[n] \in M \cup {0} /\ step[n] <= N - n
        /\ \A i \in M : (\E k \in 0 .. n : step[k] = i) \/ i < step[n]
    BY <1>8, <1>10
  <2>4. step[n] \in 0 .. N /\ step[n + 1] \in 0 .. N
    BY <1>3, <2>1
  <2>5. CASE step[n] \in M
    <3>1. LastOf(step[n + 1], {i \in M : i < step[n]})
      BY <1>7, <2>2, <2>5
    <3>2. step[n + 1] \in M \cup {0} /\ step[n + 1] < step[n]
      <4>1. step[n] \in 1 .. N
        BY <1>5, <2>5
      <4>2. CASE {i \in M : i < step[n]} = {}
        <5>1. step[n + 1] = 0
          BY <3>1, <4>2 DEF LastOf
        <5> QED
          BY <4>1, <5>1
      <4>3. CASE {i \in M : i < step[n]} # {}
        BY <3>1, <4>3 DEF LastOf
      <4> QED
        BY <4>2, <4>3
    <3>3. \A i \in M : i < step[n] => i <= step[n + 1]
      BY <3>1 DEF LastOf
    <3>4. \A i \in M : (\E k \in 0 .. n + 1 : step[k] = i) \/ i < step[n + 1]
      <4>1. \A i \in M : i < step[n] => i = step[n + 1] \/ i < step[n + 1]
        BY <1>5, <2>4, <3>3
      <4>2. n + 1 \in 0 .. n + 1
        BY <2>1
      <4> QED
        BY <2>1, <2>3, <4>1, <4>2
    <3>5. step[n + 1] <= N - (n + 1)
      BY <2>1, <2>3, <2>4, <3>2
    <3> QED
      BY <1>8, <2>1, <3>2, <3>4, <3>5
  <2>6. CASE step[n] = 0
    <3>1. \A i \in M : ~ (i < step[n])
      BY <1>5, <2>6
    <3>2. step[n + 1] = 0
      BY <2>2, <2>6 DEF Threaded
    <3>3. \A i \in M : \E k \in 0 .. n + 1 : step[k] = i
      BY <2>1, <2>3, <3>1
    <3>4. step[n + 1] <= N - (n + 1)
      BY <2>1, <3>2
    <3> QED
      BY <1>8, <2>1, <3>2, <3>3, <3>4
  <2> QED
    BY <2>3, <2>5, <2>6
<1>11. \A n \in 0 .. N : n \in T
  BY <1>9, <1>10, SetInduction
<1>12. {step[n] : n \in 0 .. N} \ {0} \subseteq M
  BY <1>8, <1>11
<1>13. M \subseteq {step[n] : n \in 0 .. N} \ {0}
  <2>1. N \in T /\ N \in 0 .. N
    BY <1>11
  <2>2. step[N] \in 0 .. N /\ step[N] <= N - N
    BY <1>8, <2>1
  <2>3. \A i \in M : ~ (i < step[N]) /\ i # 0
    BY <1>5, <2>2
  <2> QED
    BY <1>8, <2>1, <2>3
<1> QED
  BY <1>1, <1>3, <1>4, <1>12, <1>13

-----------------------------------------------------------------------------
(* The .dso and the image. *)
ChainsSound(lib) ==
  \A b \in 0 .. lib.buckets - 1 :
    Chain(lib, b) = {i \in 1 .. Len(lib.symbols) :
                       /\ lib.symbols[i].name # NoName
                       /\ Hash(lib.symbols[i].name) % lib.buckets = b}

AgreeWith(lib, img) ==
  \A i \in 1 .. Len(lib.symbols) :
    i <= Len(img.directory) /\ img.directory[i] = lib.symbols[i].name

(* What is in a .dso that is complete, and that it agrees with an image    *)
(* that is not newer.                                                      *)
DsoSound ==
  dso.kind = "dso" =>
    /\ ChainsSound(dso)
    /\ (image.kind = "image" /\ dso.build >= image.build) => AgreeWith(dso, image)

(* What a .dso has below its last frozen ordinal is what is frozen there,  *)
(* however old it is.                                                      *)
DsoFrozen ==
  dso.kind = "dso" =>
    /\ dso.frozen # 0 => \E n \in Name : FrozenIn(Preset, n, dso.frozen)
    /\ \A i \in 1 .. dso.frozen : \A n \in Name :
         FrozenIn(Preset, n, i) => dso.symbols[i].name = n

(* A .dso has the number of an earlier run until the run writes its own,   *)
(* which it may leave out.                                                 *)
BuildNumbers ==
  /\ dso.kind = "dso" =>
       /\ dso.build \in 0 .. builds
       /\ lpc \notin {"idle", "writeImage"} => dso.build < builds
  /\ image.kind = "image" => image.build \in 0 .. builds

(* The number of preset ordinals is that of a line. *)
Reached ==
  presetOrdinals # 0 =>
    \E k \in 1 .. Len(Preset) : ~ Preset[k].comment /\ Preset[k].ordinal = presetOrdinals

(* With the .def file alone, all entries are preset ones. *)
OnlyPreset == lpc \in {"dsoOnly", "finishDsoOnly"} => presetOrdinals = Len(exports)

(* Under every frozen ordinal all ordinals are frozen, once an image could *)
(* be made: a hole would have been missing.                                *)
FrozenBelow(lines) ==
  \A k \in 1 .. Len(lines) : ~ lines[k].comment =>
    \A i \in 1 .. lines[k].ordinal : \E n \in Name : FrozenIn(lines, n, i)

NoHoles == image.kind = "image" => FrozenBelow(Preset)

DsoOfBuild ==
  (lpc = "writeImage" /\ dso.kind = "dso" /\ dso.build = builds) =>
    dso = writeDso(exports, presetOrdinals, builds)

DInv == /\ DsoSound /\ DsoFrozen /\ BuildNumbers
        /\ Reached /\ OnlyPreset /\ NoHoles /\ DsoOfBuild

LEMMA DsoChains ==
  ASSUME NEW e \in Seq(Export), NEW n, NEW m
  PROVE  /\ ChainsSound(writeDso(e, n, m))
         /\ Len(writeDso(e, n, m).symbols) = Len(e)
         /\ \A i \in 1 .. Len(e) : writeDso(e, n, m).symbols[i].name = e[i].name
<1>1. PICK lib : lib = writeDso(e, n, m)
  OBVIOUS
<1>2. /\ lib.hash = HashTables(e) /\ lib.buckets = Buckets(e)
      /\ lib.symbols = [i \in 1 .. Len(e) |-> DsoSymbol(e, i)]
  BY <1>1 DEF writeDso
<1>3. Len(lib.symbols) = Len(e) /\ \A i \in 1 .. Len(e) : lib.symbols[i].name = e[i].name
  BY <1>2 DEF DsoSymbol
<1>4. ASSUME NEW b \in 0 .. lib.buckets - 1
      PROVE  Chain(lib, b) = {i \in 1 .. Len(lib.symbols) :
                                /\ lib.symbols[i].name # NoName
                                /\ Hash(lib.symbols[i].name) % lib.buckets = b}
  <2>1. lib.hash \in Tables(e) /\ Threaded(e, lib.hash, Len(e))
    BY <1>2, HashTablesThreaded
  <2>2. Chain(lib, b) = Members(e, b, Len(e))
    BY <1>2, <1>3, <1>4, <2>1, ChainIsBucket
  <2>3. \A i \in 1 .. Len(e) : Bucket(e, i) = Hash(lib.symbols[i].name) % lib.buckets
    BY <1>2, <1>3 DEF Bucket
  <2> QED
    BY <1>3, <2>2, <2>3 DEF Members
<1> QED
  BY <1>1, <1>3, <1>4 DEF ChainsSound

(* A .dso that is written from a list with all the preset lines has what   *)
(* is frozen.                                                              *)
LEMMA WrittenDsoFrozen ==
  ASSUME IInv, DInv, lpc \in AfterParsing,
         Preset' = Preset, dso' = writeDso(exports, presetOrdinals, builds)
  PROVE  DsoFrozen'
<1>1. /\ exports \in Seq(Export) /\ presetOrdinals \in 0 .. Len(exports)
      /\ def \in Seq(DefLines) /\ PlacedUpTo(Len(Preset)) /\ Reached
  BY DEF IInv, LType, DInv, Placed
<1>2. /\ dso'.frozen = presetOrdinals
      /\ \A i \in 1 .. Len(exports) : dso'.symbols[i].name = exports[i].name
  <2>1. \A i \in 1 .. Len(exports) :
          writeDso(exports, presetOrdinals, builds).symbols[i].name = exports[i].name
    BY <1>1, DsoChains
  <2> QED
    BY <2>1 DEF writeDso
<1>3. presetOrdinals # 0 => \E n \in Name : FrozenIn(Preset, n, presetOrdinals)
  <2> SUFFICES ASSUME presetOrdinals # 0
               PROVE  \E n \in Name : FrozenIn(Preset, n, presetOrdinals)
    OBVIOUS
  <2>1. PICK k \in 1 .. Len(Preset) : ~ Preset[k].comment /\ Preset[k].ordinal = presetOrdinals
    BY <1>1 DEF Reached
  <2>2. Preset[k].name \in Name
    BY <1>1, LineTypes
  <2> QED
    BY <2>1, <2>2 DEF FrozenIn
<1>4. ASSUME NEW i \in 1 .. presetOrdinals, NEW n \in Name, FrozenIn(Preset, n, i)
      PROVE  dso'.symbols[i].name = n
  <2>1. exports[i].name = n
    BY <1>1, <1>4 DEF FrozenIn, PlacedUpTo
  <2>2. i \in 1 .. Len(exports)
    BY <1>1
  <2> QED
    BY <1>2, <2>1, <2>2
<1> QED
  BY <1>2, <1>3, <1>4 DEF DsoFrozen

(* The steps that leave the files, the lines and the list as they are. *)
LEMMA DsoStays ==
  ASSUME IInv, DInv, Preset' = Preset, image' = image \/ image'.kind # "image",
         dso' = dso \/ dso'.kind # "dso",
         (exports' = exports /\ presetOrdinals' = presetOrdinals) \/ presetOrdinals' = 0,
         \/ builds' = builds + 1
         \/ builds' = builds /\ (lpc' = "idle" \/ lpc \notin {"idle", "writeImage"}),
         lpc' \notin {"dsoOnly", "finishDsoOnly", "writeImage"}
  PROVE  DInv'
<1>1. DsoSound'
  <2>1. CASE dso'.kind # "dso"
    BY <2>1 DEF DsoSound
  <2>2. CASE dso' = dso /\ image' = image
    BY <2>2 DEF DInv, DsoSound
  <2>3. CASE dso' = dso /\ image'.kind # "image"
    BY <2>3 DEF DInv, DsoSound
  <2> QED
    BY <2>1, <2>2, <2>3
<1>2. Reached'
  BY DEF DInv, Reached
<1>3. OnlyPreset' /\ DsoOfBuild'
  BY DEF OnlyPreset, DsoOfBuild
<1>4. NoHoles'
  BY DEF DInv, NoHoles
<1>5. DsoFrozen'
  <2>1. CASE dso'.kind # "dso"
    BY <2>1 DEF DsoFrozen
  <2>2. CASE dso' = dso
    BY <2>2 DEF DInv, DsoFrozen
  <2> QED
    BY <2>1, <2>2
<1>6. BuildNumbers'
  <2>1. builds \in Nat
    BY DEF IInv, LType
  <2>2. image'.kind = "image" => image'.build \in 0 .. builds'
    BY <2>1 DEF DInv, BuildNumbers
  <2>3. ASSUME dso'.kind = "dso"
        PROVE  /\ dso'.build \in 0 .. builds'
               /\ lpc' \notin {"idle", "writeImage"} => dso'.build < builds'
    <3>1. /\ dso' = dso /\ dso.build \in 0 .. builds
          /\ lpc \notin {"idle", "writeImage"} => dso.build < builds
      BY <2>3 DEF DInv, BuildNumbers
    <3> QED
      BY <2>1, <3>1
  <2> QED
    BY <2>2, <2>3 DEF BuildNumbers
<1> QED
  BY <1>1, <1>2, <1>3, <1>4, <1>5, <1>6 DEF DInv

(* A run that leaves the .dso alone. *)
LEMMA DsoLeft ==
  ASSUME IInv, DInv, NoDso
  PROVE  DInv'
<1>1. /\ lpc = "writeDso" /\ lpc' = "writeImage" /\ Preset' = Preset /\ dso' = dso
      /\ image' = image /\ presetOrdinals' = presetOrdinals /\ exports' = exports
      /\ builds' = builds
  BY DEF NoDso, Goto, Preset, files
<1>2. DsoSound' /\ DsoFrozen' /\ Reached' /\ NoHoles' /\ BuildNumbers'
  BY <1>1 DEF DInv, DsoSound, DsoFrozen, Reached, NoHoles, BuildNumbers
<1>3. DsoOfBuild'
  <2>1. builds \in Nat
    BY DEF IInv, LType
  <2>2. dso.kind = "dso" => dso.build \in Nat /\ dso.build < builds
    BY <1>1, <2>1 DEF DInv, BuildNumbers
  <2> QED
    BY <1>1, <2>1, <2>2 DEF DsoOfBuild
<1>4. OnlyPreset'
  BY <1>1 DEF OnlyPreset
<1> QED
  BY <1>2, <1>3, <1>4 DEF DInv

LEMMA DsoParseDefLine ==
  ASSUME IInv, DInv, ParseDefLine
  PROVE  DInv'
<1>1. /\ lpc' = "parseDefFile" /\ Preset' = Preset /\ dso' = dso /\ image' = image
      /\ done < Len(Preset) /\ builds' = builds /\ lpc' = lpc
  BY DEF ParseDefLine, Preset, files
<1>2. def \in Seq(DefLines) /\ done \in Nat /\ Len(Preset) \in Nat /\ presetOrdinals \in Nat
  BY PresetLines DEF IInv, LType
<1>3. done + 1 \in 1 .. Len(Preset)
  BY <1>1, <1>2
<1>4. Reached'
  <2>1. CASE Preset[done + 1].comment
    <3>1. presetOrdinals' = presetOrdinals
      BY <2>1 DEF ParseDefLine
    <3> QED
      BY <1>1, <3>1 DEF DInv, Reached
  <2>2. CASE ~ Preset[done + 1].comment
    <3>1. presetOrdinals' \in {presetOrdinals, Preset[done + 1].ordinal}
      BY <2>2 DEF ParseDefLine, PresetUpTo, Longest
    <3>2. CASE presetOrdinals' = presetOrdinals
      BY <1>1, <3>2 DEF DInv, Reached
    <3>3. CASE presetOrdinals' = Preset[done + 1].ordinal
      BY <1>1, <1>3, <2>2, <3>3 DEF Reached
    <3> QED
      BY <3>1, <3>2, <3>3
  <2> QED
    BY <2>1, <2>2
<1>5. DsoSound' /\ NoHoles' /\ DsoFrozen' /\ BuildNumbers'
  BY <1>1 DEF DInv, DsoSound, NoHoles, DsoFrozen, BuildNumbers
<1>6. OnlyPreset' /\ DsoOfBuild'
  BY <1>1 DEF OnlyPreset, DsoOfBuild
<1> QED
  BY <1>4, <1>5, <1>6 DEF DInv

LEMMA DsoSorted ==
  ASSUME IInv, DInv, DsoOnly \/ SortExports
  PROVE  DInv'
<1>1. /\ Preset' = Preset /\ dso' = dso /\ image' = image /\ presetOrdinals' = presetOrdinals
      /\ exports' \in doSort(exports, presetOrdinals)
      /\ lpc' \in {"dsoOnly", "writeDef"}
      /\ lpc' = "dsoOnly" => lpc = "parseDefFile"
      /\ builds' = builds /\ lpc \in {"parseDefFile", "findExports"}
  BY DEF DsoOnly, SortExports, Goto, Preset, files
<1>2. exports \in Seq(Export) /\ presetOrdinals \in 0 .. Len(exports)
  BY DEF IInv, LType
<1>3. Len(exports') = Len(exports)
  BY <1>1, <1>2, SortKeeps
<1>4. OnlyPreset'
  BY <1>1, <1>3 DEF OnlyPreset, IInv, Full
<1>5. DsoSound' /\ NoHoles' /\ Reached' /\ DsoFrozen' /\ BuildNumbers'
  BY <1>1 DEF DInv, DsoSound, NoHoles, Reached, DsoFrozen, BuildNumbers
<1>6. DsoOfBuild'
  BY <1>1 DEF DsoOfBuild
<1> QED
  BY <1>4, <1>5, <1>6 DEF DInv

LEMMA DsoFindExport ==
  ASSUME IInv, DInv, FindExport
  PROVE  DInv'
<1>1. /\ lpc' = "findExports" /\ Preset' = Preset /\ dso' = dso /\ image' = image
      /\ presetOrdinals' = presetOrdinals /\ builds' = builds /\ lpc' = lpc
  BY DEF FindExport, Preset, files
<1>2. DsoSound' /\ NoHoles' /\ Reached' /\ DsoFrozen' /\ BuildNumbers'
  BY <1>1 DEF DInv, DsoSound, NoHoles, Reached, DsoFrozen, BuildNumbers
<1>3. OnlyPreset' /\ DsoOfBuild'
  BY <1>1 DEF OnlyPreset, DsoOfBuild
<1> QED
  BY <1>2, <1>3 DEF DInv

LEMMA DsoTruncate ==
  ASSUME IInv, DInv, TruncateDso
  PROVE  DInv'
<1>1. /\ lpc' \in {"finishDso", "finishDsoOnly"} /\ Preset' = Preset /\ dso'.kind = "torn"
      /\ image' = image /\ presetOrdinals' = presetOrdinals /\ exports' = exports
      /\ lpc' = "finishDsoOnly" => lpc = "dsoOnly"
      /\ builds' = builds
  BY DEF TruncateDso, Goto, Preset, Torn
<1>2. DsoSound' /\ NoHoles' /\ Reached' /\ DsoOfBuild' /\ DsoFrozen' /\ BuildNumbers'
  BY <1>1 DEF DInv, DsoSound, NoHoles, Reached, DsoOfBuild, DsoFrozen, BuildNumbers
<1>3. OnlyPreset'
  BY <1>1 DEF DInv, OnlyPreset
<1> QED
  BY <1>2, <1>3 DEF DInv

LEMMA DsoWriteDso ==
  ASSUME IInv, DInv, WriteDso
  PROVE  DInv'
<1>1. /\ lpc = "finishDso" /\ lpc' = "writeImage" /\ Preset' = Preset
      /\ dso' = writeDso(exports, presetOrdinals, builds)
      /\ image' = image /\ presetOrdinals' = presetOrdinals /\ exports' = exports
      /\ builds' = builds
  BY DEF WriteDso, Goto, Preset
<1>2. exports \in Seq(Export) /\ image.kind = "torn" /\ builds \in Nat
  BY <1>1 DEF IInv, LType, Checked, AfterCheck
<1>3. DsoSound'
  BY <1>1, <1>2, DsoChains DEF DsoSound
<1>4. NoHoles' /\ Reached' /\ OnlyPreset' /\ DsoOfBuild'
  BY <1>1 DEF DInv, NoHoles, Reached, OnlyPreset, DsoOfBuild
<1>5. DsoFrozen'
  BY <1>1, WrittenDsoFrozen DEF AfterParsing, AfterCheck
<1>6. BuildNumbers'
  <2>1. dso'.build = builds
    BY <1>1 DEF writeDso
  <2> QED
    BY <1>1, <1>2, <2>1 DEF BuildNumbers
<1> QED
  BY <1>3, <1>4, <1>5, <1>6 DEF DInv

(* A .dso from the .def file alone: all ordinals are frozen, if there is   *)
(* an image, and the image has what is frozen.                             *)
LEMMA DsoWriteDsoOnly ==
  ASSUME IInv, DInv, WriteDsoOnly
  PROVE  DInv'
<1>1. /\ lpc = "finishDsoOnly" /\ lpc' = "idle" /\ Preset' = Preset
      /\ dso' = writeDso(exports, presetOrdinals, builds)
      /\ image' = image /\ presetOrdinals' = 0 /\ builds' = builds
  BY DEF WriteDsoOnly, Goto, NoBuild, Preset
<1>2. /\ exports \in Seq(Export) /\ presetOrdinals = Len(exports) /\ def \in Seq(DefLines)
      /\ PlacedUpTo(Len(Preset)) /\ Reached /\ builds \in Nat
  BY <1>1 DEF IInv, LType, DInv, OnlyPreset, Placed, AfterParsing
<1>3. /\ ChainsSound(dso') /\ Len(dso'.symbols) = Len(exports)
      /\ \A i \in 1 .. Len(exports) : dso'.symbols[i].name = exports[i].name
  BY <1>1, <1>2, DsoChains
<1>4. ASSUME image.kind = "image", NEW i \in 1 .. Len(exports)
      PROVE  i <= Len(image.directory) /\ image.directory[i] = exports[i].name
  <2>0. Len(exports) \in Nat /\ i \in Nat \ {0}
    BY <1>2
  <2>1. PICK k \in 1 .. Len(Preset) : ~ Preset[k].comment /\ Preset[k].ordinal = presetOrdinals
    BY <1>2, <2>0 DEF Reached
  <2>2. i \in 1 .. Preset[k].ordinal
    BY <1>2, <2>1
  <2>3. PICK n \in Name : FrozenIn(Preset, n, i)
    BY <1>4, <2>1, <2>2 DEF DInv, NoHoles, FrozenBelow
  <2>4. exports[i].name = n
    BY <1>2, <2>3 DEF FrozenIn, PlacedUpTo
  <2>5. i <= Len(image.directory) /\ image.directory[i] = n
    BY <1>4, <2>0, <2>3 DEF IInv, GoodImage
  <2> QED
    BY <2>4, <2>5
<1>5. DsoSound'
  BY <1>1, <1>3, <1>4 DEF DsoSound, AgreeWith
<1>6. NoHoles' /\ Reached' /\ OnlyPreset' /\ DsoOfBuild'
  BY <1>1 DEF DInv, NoHoles, Reached, OnlyPreset, DsoOfBuild
<1>7. DsoFrozen'
  BY <1>1, WrittenDsoFrozen DEF AfterParsing
<1>8. BuildNumbers'
  <2>1. dso'.build = builds
    BY <1>1 DEF writeDso
  <2> QED
    BY <1>1, <1>2, <2>1 DEF DInv, BuildNumbers
<1> QED
  BY <1>5, <1>6, <1>7, <1>8 DEF DInv

(* The image agrees with the .dso on all ordinals if the run has written   *)
(* both; an older .dso need not.                                           *)
LEMMA DsoWriteImage ==
  ASSUME IInv, DInv, WriteImage
  PROVE  DInv'
<1>1. /\ lpc = "writeImage" /\ lpc' = "idle" /\ Preset' = Preset /\ dso' = dso
      /\ image' = [kind |-> "image", build |-> builds, directory |-> ExportDirectory(exports)]
      /\ presetOrdinals' = 0 /\ builds' = builds
  BY DEF WriteImage, Goto, NoBuild, Preset
<1>2. /\ exports \in Seq(Export) /\ presetOrdinals \in 0 .. Len(exports)
      /\ def \in Seq(DefLines) /\ builds \in Nat
      /\ PlacedUpTo(Len(Preset)) /\ Backed
  BY <1>1 DEF IInv, LType, Placed, AfterParsing, AfterCheck
<1>3. \A i \in 1 .. Len(exports) : exports[i].address = exports[i].name /\ exports[i].name # NoName
  BY <1>1 DEF IInv, Addresses, Checked, AfterCheck, NoAddress, NoName
<1>4. /\ Len(image'.directory) = Len(exports)
      /\ \A i \in 1 .. Len(exports) : image'.directory[i] = exports[i].name
  BY <1>1, <1>2, <1>3 DEF ExportDirectory
<1>5. ASSUME dso.kind = "dso", dso.build >= builds
      PROVE  AgreeWith(dso', image')
  <2>1. dso.build = builds
    BY <1>2, <1>5 DEF DInv, BuildNumbers
  <2>2. dso' = writeDso(exports, presetOrdinals, builds)
    BY <1>1, <1>5, <2>1 DEF DInv, DsoOfBuild
  <2>3. /\ Len(dso'.symbols) = Len(exports)
        /\ \A i \in 1 .. Len(exports) : dso'.symbols[i].name = exports[i].name
    BY <1>2, <2>2, DsoChains
  <2>4. \A i \in 1 .. Len(exports) : i <= Len(exports)
    BY <1>2
  <2> QED
    BY <1>4, <2>3, <2>4 DEF AgreeWith
<1>6. image'.build = builds
  BY <1>1
<1>7. DsoSound'
  BY <1>1, <1>5, <1>6 DEF DInv, DsoSound
<1>8. ASSUME NEW k \in 1 .. Len(Preset), ~ Preset[k].comment, NEW i \in 1 .. Preset[k].ordinal
      PROVE  \E n \in Name : FrozenIn(Preset, n, i)
  <2>1. Preset[k].ordinal <= presetOrdinals /\ Preset[k].ordinal \in Nat \ {0}
    BY <1>2, <1>8, LineTypes DEF PlacedUpTo
  <2>2. i \in 1 .. presetOrdinals /\ i \in 1 .. Len(exports)
    BY <1>2, <2>1
  <2>3. exports[i] \in Export /\ exports[i].name # NoName
    BY <1>2, <1>3, <2>2
  <2>4. FrozenIn(Preset, exports[i].name, i)
    BY <1>2, <2>2, <2>3 DEF Backed
  <2>5. exports[i].name \in Name
    BY <2>3 DEF Export
  <2> QED
    BY <2>4, <2>5
<1>9. NoHoles'
  BY <1>1, <1>8 DEF NoHoles, FrozenBelow
<1>10. Reached' /\ OnlyPreset' /\ DsoOfBuild'
  BY <1>1 DEF Reached, OnlyPreset, DsoOfBuild
<1>11. DsoFrozen' /\ BuildNumbers'
  BY <1>1, <1>2, <1>6 DEF DInv, DsoFrozen, BuildNumbers
<1> QED
  BY <1>7, <1>9, <1>10, <1>11 DEF DInv

LEMMA DsoFreeze ==
  ASSUME IInv, DInv, Freeze
  PROVE  DInv'
<1>1. /\ lpc' = "idle" /\ dso' = dso /\ image' = image /\ presetOrdinals' = 0
      /\ defoutput.kind = "def" /\ def' = defoutput.lines
      /\ image.kind = "image" /\ builds' = builds
  BY DEF Freeze, files, buildVars, IInv, Idle
<1>2. /\ def' \in Seq(DefLines) /\ def \in Seq(DefLines)
      /\ \A i \in 1 .. Len(def') : def'[i].ordinal = i /\ ~ def'[i].comment
      /\ \A n \in Name, o \in Nat \ {0} : FrozenIn(Preset, n, o) => o <= Len(def')
  BY <1>1 DEF IInv, LType, Good
<1>3. PICK new : new = Preset'
  OBVIOUS
<1>4. /\ Len(new) = Len(def') + Len(SysDef)
      /\ \A k \in 1 .. Len(def') : new[k] = def'[k]
      /\ \A k \in 1 .. Len(SysDef) : new[Len(def') + k] = SysDef[k]
  BY <1>2, <1>3, InputsAssumption DEF Preset
<1>5. PICK a, b, c : a = Len(def') /\ b = Len(def) /\ c = Len(SysDef)
  OBVIOUS
<1>6. a \in Nat /\ b \in Nat /\ c \in Nat
  BY <1>2, <1>5, InputsAssumption
<1>7. /\ Len(Preset) = b + c
      /\ \A j \in 1 .. c : Preset[b + j] = SysDef[j]
  BY <1>2, <1>5, PresetLines
<1>8. \A i \in 1 .. a : \E n \in Name : FrozenIn(new, n, i)
  <2> SUFFICES ASSUME NEW i \in 1 .. a PROVE \E n \in Name : FrozenIn(new, n, i)
    OBVIOUS
  <2>1. new[i] = def'[i] /\ def'[i].ordinal = i /\ ~ def'[i].comment /\ def'[i] \in DefLines
    BY <1>2, <1>4, <1>5
  <2>2. i \in 1 .. Len(new)
    BY <1>4, <1>5, <1>6
  <2>3. def'[i].name \in Name
    BY <2>1 DEF DefLines
  <2> QED
    BY <2>1, <2>2, <2>3 DEF FrozenIn
<1>9. ASSUME NEW k \in 1 .. Len(new), ~ new[k].comment
      PROVE  new[k].ordinal \in Nat \ {0} /\ new[k].ordinal <= a
  <2>1. CASE k <= a
    <3>1. k \in 1 .. a
      BY <1>6, <2>1
    <3>2. new[k].ordinal = k
      BY <1>2, <1>4, <1>5, <3>1
    <3> QED
      BY <1>6, <3>1, <3>2
  <2>2. CASE ~ (k <= a)
    <3>1. PICK i : i = k - a
      OBVIOUS
    <3>2. i \in 1 .. c /\ k = a + i
      BY <1>4, <1>5, <1>6, <2>2, <3>1
    <3>3. new[k] = SysDef[i] /\ Preset[b + i] = SysDef[i]
      BY <1>4, <1>5, <1>7, <3>2
    <3>4. b + i \in 1 .. Len(Preset)
      BY <1>6, <1>7, <3>2
    <3>5. Preset[b + i].name \in Name /\ Preset[b + i].ordinal \in Nat \ {0}
      BY <1>2, <3>4, LineTypes
    <3>6. FrozenIn(Preset, Preset[b + i].name, Preset[b + i].ordinal)
      BY <1>9, <3>3, <3>4 DEF FrozenIn
    <3> QED
      BY <1>2, <1>5, <3>3, <3>5, <3>6
  <2> QED
    BY <2>1, <2>2
<1>10. FrozenBelow(new)
  <2>1. \A k \in 1 .. Len(new) : ~ new[k].comment =>
          \A i \in 1 .. new[k].ordinal : i \in 1 .. a
    BY <1>6, <1>9
  <2> QED
    BY <1>8, <2>1 DEF FrozenBelow
<1>11. NoHoles'
  BY <1>3, <1>10 DEF NoHoles
<1>12. DsoSound' /\ Reached' /\ OnlyPreset' /\ DsoOfBuild' /\ BuildNumbers'
  BY <1>1 DEF DInv, DsoSound, Reached, OnlyPreset, DsoOfBuild, BuildNumbers
<1>13. DsoFrozen'
  <2> SUFFICES ASSUME dso.kind = "dso" PROVE DsoFrozen'
    BY <1>1 DEF DsoFrozen
  <2>0. dso.frozen \in Nat
    BY DEF IInv, GoodDso
  <2>1. ASSUME dso.frozen # 0
        PROVE  \E n \in Name : FrozenIn(new, n, dso.frozen)
    <3>1. PICK n \in Name : FrozenIn(Preset, n, dso.frozen)
      BY <2>1 DEF DInv, DsoFrozen
    <3>2. FrozenIn(new, n, dso.frozen)
      BY <1>3, <2>0, <2>1, <3>1, FreezeKeepsFrozen
    <3> QED
      BY <3>2
  <2>2. ASSUME NEW i \in 1 .. dso.frozen, NEW n \in Name, FrozenIn(new, n, i)
        PROVE  dso.symbols[i].name = n
    <3>1. dso.frozen # 0 /\ i \in Nat \ {0}
      BY <2>0
    <3>2. PICK m \in Name : FrozenIn(Preset, m, dso.frozen)
      BY <3>1 DEF DInv, DsoFrozen
    <3>3. PICK k \in 1 .. Len(Preset) : ~ Preset[k].comment /\ Preset[k].ordinal = dso.frozen
      BY <3>2 DEF FrozenIn
    <3>4. PICK o \in Name : FrozenIn(Preset, o, i)
      BY <1>1, <3>3 DEF DInv, NoHoles, FrozenBelow
    <3>5. dso.symbols[i].name = o
      BY <3>4 DEF DInv, DsoFrozen
    <3>6. FrozenIn(new, o, i)
      BY <1>3, <3>1, <3>4, FreezeKeepsFrozen
    <3>7. o = n
      <4>1. Consistent(new)
        BY <1>3, KeepsFreeze DEF IInv
      <4> QED
        BY <2>2, <3>6, <4>1 DEF FrozenIn, Consistent
    <3> QED
      BY <3>5, <3>7
  <2> QED
    BY <1>1, <1>3, <2>1, <2>2 DEF DsoFrozen
<1> QED
  BY <1>11, <1>12, <1>13 DEF DInv

LEMMA DsoStep ==
  ASSUME IInv, DInv, [LibNext]_libVars
  PROVE  DInv'
<1>1. CASE ParseDefLine
  BY <1>1, DsoParseDefLine
<1>2. CASE DsoOnly \/ SortExports
  BY <1>2, DsoSorted
<1>3. CASE FindExport
  BY <1>3, DsoFindExport
<1>4. CASE TruncateDso
  BY <1>4, DsoTruncate
<1>5. CASE WriteDso
  BY <1>5, DsoWriteDso
<1>6. CASE WriteDsoOnly
  BY <1>6, DsoWriteDsoOnly
<1>7. CASE WriteImage
  BY <1>7, DsoWriteImage
<1>8. CASE Freeze
  BY <1>8, DsoFreeze
<1>9. CASE StartBuild \/ OpenOutput \/ NoDef \/ TruncateDef \/ WriteDef
  <2>1. /\ lpc' \in {"parseDefFile", "findExports", "finishDef", "writeDso"}
        /\ Preset' = Preset /\ dso' = dso
        /\ image' = image \/ image'.kind # "image"
        /\ exports' = exports /\ presetOrdinals' = presetOrdinals
        /\ \/ builds' = builds + 1
           \/ builds' = builds /\ lpc \notin {"idle", "writeImage"}
    BY <1>9 DEF StartBuild, OpenOutput, NoDef, TruncateDef, WriteDef, Goto, Preset, files, Torn
  <2> QED
    BY <2>1, DsoStays
<1>10. CASE NothingToDo \/ Missing \/ NoDsoOnly \/ KillBuild
  <2>1. /\ lpc' = "idle" /\ Preset' = Preset /\ dso' = dso /\ image' = image
        /\ presetOrdinals' = 0 /\ builds' = builds
    BY <1>10 DEF NothingToDo, Missing, NoDsoOnly, KillBuild, NoBuild, Goto, Preset, files
  <2> QED
    BY <2>1, DsoStays
<1>11. CASE \/ UNCHANGED libVars \/ ChangeSources
            \/ \E name \in Name, ordinal \in Ordinals : LinkProgram(name, ordinal)
  <2>1. /\ lpc' = lpc /\ Preset' = Preset /\ dso' = dso /\ image' = image
        /\ exports' = exports /\ presetOrdinals' = presetOrdinals /\ builds' = builds
    BY <1>11 DEF libVars, ChangeSources, LinkProgram, Preset, files, buildVars
  <2> QED
    BY <2>1 DEF DInv, DsoSound, DsoFrozen, BuildNumbers, Reached, OnlyPreset, NoHoles, DsoOfBuild
<1>12. CASE NoDso
  BY <1>12, DsoLeft
<1> QED
  BY <1>1, <1>2, <1>3, <1>4, <1>5, <1>6, <1>7, <1>8, <1>9, <1>10, <1>11, <1>12
     DEF LibNext, BuildStep

LEMMA DsoHolds == LibSpec => []DInv
<1>1. LibInit => DInv
  BY DEF LibInit, NoFile, DInv, DsoSound, DsoFrozen, BuildNumbers, Reached, OnlyPreset,
     NoHoles, DsoOfBuild
<1>2. IInv /\ DInv /\ [LibNext]_libVars => DInv'
  BY DsoStep
<1> QED
  BY <1>1, <1>2, Inductive, PTL DEF LibSpec

(* The linker finds in a .dso what the loader finds in the image, for any  *)
(* hash function and any number of exports: the chain of every bucket has  *)
(* exactly the names that hash to it.  A complete .dso gives every ordinal *)
(* the same name as a complete image that is not newer, also the .dso that *)
(* is made without an ELF file after the image; one that runs without      *)
(* --dso have left behind (elf2e32.cpp:636) gives the same names as their  *)
(* images to what was frozen when it was made.                             *)
THEOREM DsoAlwaysMatchesImage == LibSpec => []DsoMatchesImage
<1>1. ASSUME IInv, DInv PROVE DsoMatchesImage
  <2> SUFFICES ASSUME dso.kind = "dso" PROVE DsoMatchesImage
    BY DEF DsoMatchesImage
  <2>1. ChainsSound(dso)
    BY <1>1 DEF DInv, DsoSound
  <2>2. ASSUME image.kind = "image", dso.build >= image.build
        PROVE  AgreeUpTo(Len(dso.symbols))
    BY <1>1, <2>2 DEF DInv, DsoSound, AgreeWith, AgreeUpTo
  <2>3. ASSUME image.kind = "image", NEW i \in 1 .. dso.frozen
        PROVE  i <= Len(image.directory) /\ image.directory[i] = dso.symbols[i].name
    <3>1. dso.frozen # 0 /\ i \in Nat \ {0}
      BY <1>1 DEF IInv, GoodDso
    <3>2. PICK m \in Name : FrozenIn(Preset, m, dso.frozen)
      BY <1>1, <3>1 DEF DInv, DsoFrozen
    <3>3. PICK k \in 1 .. Len(Preset) : ~ Preset[k].comment /\ Preset[k].ordinal = dso.frozen
      BY <3>2 DEF FrozenIn
    <3>4. PICK n \in Name : FrozenIn(Preset, n, i)
      BY <1>1, <2>3, <3>3 DEF DInv, NoHoles, FrozenBelow
    <3>5. dso.symbols[i].name = n
      BY <1>1, <3>4 DEF DInv, DsoFrozen
    <3>6. i <= Len(image.directory) /\ image.directory[i] = n
      BY <1>1, <2>3, <3>1, <3>4 DEF IInv, GoodImage
    <3> QED
      BY <3>5, <3>6
  <2>4. image.kind = "image" => AgreeUpTo(dso.frozen)
    BY <2>3 DEF AgreeUpTo
  <2> QED
    BY <2>1, <2>2, <2>4 DEF ChainsSound, DsoMatchesImage
<1> QED
  BY <1>1, Inductive, DsoHolds, PTL

=============================================================================
