----------------------------- MODULE MCE32Image -----------------------------
(***************************************************************************)
(* Small ELF files: code of one section, or of two with a gap between      *)
(* them, neither of a whole number of words; data or none; in every word a *)
(* relocation of every kind, or none.  The pages hold two words.           *)
(***************************************************************************)
EXTENDS E32Image

CodeBase == 100
DataBase == 200

CodeA == <<[addr |-> 100, size |-> 10]>>
CodeB == <<[addr |-> 100, size |-> 6], [addr |-> 108, size |-> 8]>>
Data  == <<[addr |-> DataBase, size |-> 6]>>

CodeEnd(code) == Last(code).addr + Last(code).size

(* A relocation, the word that it finds, and the symbol. *)
Choice(type, word, sym) == [type |-> type, word |-> word, sym |-> sym]
Own(value, segment) == [defined |-> TRUE, value |-> value, segment |-> segment]
Import(lib, ordinal) == [defined |-> FALSE, lib |-> lib, ordinal |-> ordinal,
                         value |-> 0, segment |-> "import"]
Unnamed(segment) == [defined |-> FALSE, value |-> 0, segment |-> segment]
Absolute(value) == [defined |-> FALSE, value |-> value, segment |-> "none"]

NoRel == Choice("", 1, [defined |-> FALSE])

ChoicesElf2E32(code, data) ==
  {NoRel,
   Choice("abs", 0, Own(CodeEnd(code), "text")),     (* the end of the code *)
   Choice("relative", 104, Own(CodeBase, "text")),
   Choice("abs", 3, Own(7, "none")),                 (* an absolute symbol *)
   Choice("abs", 2, Import(1, 5)),
   Choice("abs", 0, Import(2, 1)),
   Choice("none", 0, Import(2, 1))}
  \cup IF data = << >> THEN {}
       ELSE {Choice("abs", 2, Own(DataBase, "data")),
             Choice("relative", DataBase + 10, Own(DataBase + 10, "data"))}

ChoicesElftran(code, data) ==
  {NoRel,
   Choice("relative", CodeEnd(code), Unnamed("text")),
   Choice("relative", CodeBase, Unnamed("text")),
   Choice("abs", 2, Import(2, 5)),
   Choice("abs", 0, Import(1, 1)),
   Choice("relative", 7, Absolute(7)),               (* passed over *)
   Choice("none", 0, Unnamed("none"))}
  \cup IF data = << >> THEN {} ELSE {Choice("relative", DataBase + 10, Unnamed("data"))}

Slots(code, data) == (IF code = CodeA THEN {100, 104} ELSE {100, 108, 112})
                     \cup IF data = << >> THEN {} ELSE {DataBase}

(* The relocations in descending order, and one outside of the segments. *)
Rels(c, outside) ==
  LET slots == SetToSortSeq({a \in DOMAIN c : c[a] # NoRel}, LAMBDA a, b : a > b)
  IN  [i \in 1 .. Len(slots) |-> [offset |-> slots[i], type |-> c[slots[i]].type,
                                  sym |-> c[slots[i]].sym]]
      \o IF outside THEN <<[offset |-> 300, type |-> "abs", sym |-> Own(CodeBase, "text")]>>
         ELSE << >>

ElfFile(tool, code, data, c, exports) ==
  [tool |-> tool, codeBase |-> CodeBase, dataBase |-> DataBase, bssSize |-> 4,
   code |-> code, data |-> data, words |-> [a \in DOMAIN c |-> c[a].word],
   rels |-> Rels(c, tool = "elf2e32" /\ data = << >>), exports |-> exports,
   exportTable |-> 112]

(* In elftran's input the table of exports is part of the code. *)
WithTable(c) == [a \in DOMAIN c |-> CASE a = 108 -> NoRel
                                      [] a = 112 -> Choice("relative", CodeBase, Unnamed("text"))
                                      [] OTHER -> c[a]]

MCElfs ==
  UNION {{ElfFile("elf2e32", code, data, c, exports) :
            c \in [Slots(code, data) -> ChoicesElf2E32(code, data)],
            exports \in {<< >>, <<104>>, <<104, 100>>}} :
         code \in {CodeA}, data \in {<< >>, Data}}
  \cup UNION {{ElfFile("elf2e32", CodeB, data, c, exports) :
            c \in [Slots(CodeB, data) -> ChoicesElf2E32(CodeB, << >>)],
            exports \in {<< >>, <<108>>}} : data \in {<< >>}}
  \cup UNION {{ElfFile("elftran", code, data, c, << >>) :
            c \in [Slots(code, data) -> ChoicesElftran(code, data)]} :
         code \in {CodeA, CodeB}, data \in {<< >>, Data}}
  \cup {ElfFile("elftran", CodeB, Data, WithTable(c), <<CodeBase>>) :
            c \in [Slots(CodeB, Data) -> ChoicesElftran(CodeB, Data)]}

MCNameLength(lib) == IF lib = 1 THEN 2 ELSE 4

=============================================================================
