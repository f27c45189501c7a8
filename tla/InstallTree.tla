---------------------------- MODULE InstallTree ----------------------------
(***************************************************************************)
(* The install block of a SIS file (makesis-4/src/sisfield.h): a tree of   *)
(* arrays, as GenerateSISFile builds it and as an installer reads it.      *)
(*                                                                         *)
(* The arrays are objects with an identity: a list holds them, a pointer   *)
(* is an index of the list, and 0 is the null pointer.                     *)
(***************************************************************************)
EXTENDS SISCompound, SequencesExt

NewArray(type) == [type |-> type, elems |-> << >>]

AddTo(arrays, p, e) == [arrays EXCEPT ![p].elems = Append(@, e)]

(* The three arrays of a new SISInstallBlock, allocated behind n others. *)
BlockArrays ==
  <<NewArray("SISFileDescription"), NewArray("SISController"), NewArray("SISIf")>>

InstallBlock(n) == [files |-> n + 1, embedded |-> n + 2, ifs |-> n + 3]

CurrentArrays(block, elseIfs) ==
  [files |-> block.files, embedded |-> block.embedded, ifs |-> block.ifs,
   elseIfs |-> elseIfs]

SISIf(cond, block, elseIfs) ==
  [id |-> "SISIf", cond |-> cond, block |-> block, elseIfs |-> elseIfs]

SISElseIf(cond, block) == [id |-> "SISElseIf", cond |-> cond, block |-> block]

(* The condition of an ELSE block: NOT 0. *)
Always == [always |-> TRUE]

LanguageIs(code) == [language |-> code]

-----------------------------------------------------------------------------
(***************************************************************************)
(* What GenerateSISFile keeps in hand: the arrays of the current block,    *)
(* and four stacks of the arrays of the blocks around it.                  *)
(***************************************************************************)
NoArrays == [files |-> 0, embedded |-> 0, ifs |-> 0, elseIfs |-> 0]

EmptyStacks ==
  [files |-> << >>, embedded |-> << >>, ifs |-> << >>, elseIfs |-> << >>]

Push(stacks, cur) ==
  [stacks EXCEPT !.files    = Append(@, cur.files),
                 !.embedded = Append(@, cur.embedded),
                 !.ifs      = Append(@, cur.ifs)]

Pop(stacks) ==
  [stacks EXCEPT !.files    = Front(@),
                 !.embedded = Front(@),
                 !.ifs      = Front(@)]

Tops(stacks) ==
  [files    |-> Last(stacks.files),
   embedded |-> Last(stacks.embedded),
   ifs      |-> Last(stacks.ifs)]

-----------------------------------------------------------------------------
(***************************************************************************)
(* What an installer does: it walks the tree from the root block, with a   *)
(* valuation v that says which conditions are true on the device, and what *)
(* its language is.                                                        *)
(***************************************************************************)
Holds(cond, v) ==
  \/ cond = Always
  \/ cond = LanguageIs(v.language)
  \/ cond \in v.true

Branches(arrays, ifField) == <<ifField>> \o arrays[ifField.elseIfs].elems

ChosenBlock(arrays, ifField, v) ==
  LET alts == Branches(arrays, ifField)
      hits == {k \in 1 .. Len(alts) : Holds(alts[k].cond, v)}
  IN  {alts[k].block : k \in {h \in hits : \A g \in hits : h <= g}}

(* The blocks chosen inside the chosen block b. *)
ChosenInside(arrays, b, v) ==
  UNION {ChosenBlock(arrays, arrays[b.ifs].elems[k], v) :
           k \in 1 .. Len(arrays[b.ifs].elems)}

ChosenBlocks(arrays, root, v) ==
  LET reach[n \in 0 .. Len(arrays)] ==
        IF n = 0 THEN {root}
        ELSE LET before == reach[n - 1]
             IN  before \cup UNION {ChosenInside(arrays, b, v) : b \in before}
  IN  reach[Len(arrays)]

BlockInstalls(arrays, b) ==
  {[file |-> arrays[b.files].elems[k].hash] :
     k \in 1 .. Len(arrays[b.files].elems)} \cup
  {[package |-> FindElement(arrays[b.embedded].elems[k], "SISInfo").uid] :
     k \in 1 .. Len(arrays[b.embedded].elems)}

InstalledByTree(arrays, root, v) ==
  UNION {BlockInstalls(arrays, b) : b \in ChosenBlocks(arrays, root, v)}

=============================================================================
