---------------------------- MODULE SISCompound ----------------------------
(***************************************************************************)
(* The element list of a SISCompound (makesis-4/src/sisfield.h).           *)
(*                                                                         *)
(* Every structured field of a SIS file - the contents, the controller,    *)
(* an array - is an ordered list of child fields that the tools search by  *)
(* field type.  The list is a sequence of records whose component "id" is  *)
(* the type; the doubling of the C array behind it is left out, the        *)
(* order of the elements is not: signatures depend on it.                  *)
(***************************************************************************)
EXTENDS Integers, Sequences

(* A list: its elements are numbered from 1 to its length. *)
IsList(s) == Len(s) \in Nat /\ s = [i \in 1 .. Len(s) |-> s[i]]

(* The places of the elements of type t. *)
Positions(s, t) == {i \in 1 .. Len(s) : s[i].id = t}

(* FindElement(t) returns NULL exactly when ~ HasElement(s, t). *)
HasElement(s, t) == Positions(s, t) # {}

FirstPosition(s, t) ==
  CHOOSE i \in Positions(s, t) : \A j \in Positions(s, t) : i <= j

LastPosition(s, t) ==
  CHOOSE i \in Positions(s, t) : \A j \in Positions(s, t) : j <= i

FindElement(s, t) == s[FirstPosition(s, t)]

(* Insertion at the C index pos, which counts from 0. *)
AddElementAt(s, e, pos) ==
  [i \in 1 .. Len(s) + 1 |->
     IF i <= pos THEN s[i] ELSE IF i = pos + 1 THEN e ELSE s[i - 1]]

AddElement(s, e) == AddElementAt(s, e, Len(s))

(* The tail is moved down over the element at place p. *)
Without(s, p) ==
  [i \in 1 .. Len(s) - 1 |-> IF i < p THEN s[i] ELSE s[i + 1]]

(* What FindRemoveElement and FindRemoveLastElement leave of the list. *)
FindRemoveElement(s, t) ==
  IF HasElement(s, t) THEN Without(s, FirstPosition(s, t)) ELSE s

FindRemoveLastElement(s, t) ==
  IF HasElement(s, t) THEN Without(s, LastPosition(s, t)) ELSE s

=============================================================================
