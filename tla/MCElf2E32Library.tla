-------------------------- MODULE MCElf2E32Library --------------------------
(***************************************************************************)
(* A library of up to three exported symbols: 1 and 3 are functions, 2 is  *)
(* data; 4 is imported by the library and no export of it.                 *)
(***************************************************************************)
EXTENDS Elf2E32Library

Sym(n, s) == [name |-> n, code |-> n # 2, size |-> s, exported |-> n # 4]

(* Every choice of the exported symbols, in every order; the data grows    *)
(* when symbol 1 comes with it.                                            *)
MCElfFiles ==
  LET Orders == UNION {{f \in [1 .. k -> Name] :
                          \A i, j \in 1 .. k : i # j => f[i] # f[j]} : k \in 1 .. 3}
      Size(n, f) == IF \E i \in DOMAIN f : f[i] = 1 THEN n + 4 ELSE n
  IN  {<<Sym(4, 0)>> \o [i \in 1 .. Len(f) |-> Sym(f[i], Size(f[i], f))] : f \in Orders}

Line(n, ord) == [name |-> n, ordinal |-> ord, code |-> n # 2, size |-> 0,
                 comment |-> FALSE]

(* None yet, one by hand in the style of S60 3.0 and in another order than *)
(* that of the ordinals, and one with a hole.                              *)
MCDefFiles == {<< >>, <<Line(2, 2), Line(3, 1)>>, <<Line(3, 1), Line(1, 3)>>}

(* What every library of this kind exports first. *)
MCSysDef == <<Line(3, 1)>>

MCHash(n) == n * n

=============================================================================
