------------------------------ MODULE PkgLines -----------------------------
(***************************************************************************)
(* The package lines as parser and generator see them: which lists of      *)
(* lines are blocks that open and close properly.  The parser keeps this   *)
(* by recursion, the generator by stacks; here it is said by counting.     *)
(***************************************************************************)
EXTENDS Naturals, Sequences, FiniteSets

Count(lines, kind, n) == Cardinality({i \in 1 .. n : lines[i].kind = kind})

(* The number of conditions open behind line n. *)
Depth(lines, n) == Count(lines, "If", n) - Count(lines, "EndIf", n)

(* Lines j < n with no end of j's condition between them. *)
SameGroup(lines, j, n) ==
  /\ j < n
  /\ \A m \in j + 1 .. n : Depth(lines, m) >= Depth(lines, j)

(* The lines that begin a block. *)
Headers(lines) ==
  {n \in 1 .. Len(lines) : lines[n].kind \in {"If", "ElseIf", "Else"}}

(* The blocks of the same condition that come before block k. *)
Earlier(lines, k) ==
  {j \in Headers(lines) : /\ SameGroup(lines, j, k)
                          /\ Depth(lines, j) = Depth(lines, k)
                          /\ lines[k].kind # "If"}

(* The blocks around line n. *)
Around(lines, n) ==
  {k \in Headers(lines) :
     /\ SameGroup(lines, k, n)
     /\ \A m \in Headers(lines) : m \in k + 1 .. n => k \notin Earlier(lines, m)}

(* No more ends than beginnings; ELSEIF and ELSE inside a condition, and   *)
(* none of them behind the ELSE of the same condition.                     *)
NestedSoFar(lines) ==
  \A n \in 1 .. Len(lines) :
    /\ Count(lines, "EndIf", n) <= Count(lines, "If", n)
    /\ lines[n].kind \in {"ElseIf", "Else"} =>
         /\ Depth(lines, n) > 0
         /\ ~ \E j \in 1 .. n - 1 : /\ lines[j].kind = "Else"
                                    /\ SameGroup(lines, j, n)
                                    /\ Depth(lines, j) = Depth(lines, n)

WellNested(lines) == NestedSoFar(lines) /\ Depth(lines, Len(lines)) = 0

(* The lines of a language block are for one language each, in order.      *)
LanguageSlot(lines, n, languages) ==
  ((Count(lines, "LanguageFile", n) - 1) % Len(languages)) + 1

(* The lines of language blocks come in groups, one line for each of n     *)
(* languages, with nothing in between.                                     *)
LanguageBlocksWhole(lines, n) ==
  \A k \in 1 .. Len(lines) :
    (/\ lines[k].kind = "LanguageFile"
     /\ k = Len(lines) \/ lines[k + 1].kind # "LanguageFile")
      => Count(lines, "LanguageFile", k) % n = 0

=============================================================================
