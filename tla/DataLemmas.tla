----------------------------- MODULE DataLemmas -----------------------------
(***************************************************************************)
(* Lemmas about data, for the proofs of several modules: induction and     *)
(* recursion on the natural numbers, lists, the lines of a package, the    *)
(* install block that is built from them, and how an installer walks it.   *)
(***************************************************************************)
EXTENDS InstallTree, PkgLines, WellFoundedInduction, FiniteSetTheorems,
        SequenceTheorems, TLAPS

-----------------------------------------------------------------------------
(***************************************************************************)
(* Induction and recursion on the natural numbers, stated with sets and    *)
(* functions: a fact is proved of every number by showing that the set of  *)
(* numbers that have it contains zero and the successors of its members,   *)
(* and a recursive function exists when each of its values follows from    *)
(* the one before by a function.                                           *)
(***************************************************************************)
Less == {p \in Nat \X Nat : p[1] < p[2]}

LEMMA LessIsWellFounded == IsWellFoundedOn(Less, Nat)
<1>1. OpToRel(<, Nat) = Less
  BY Zenon DEF OpToRel, Less
<1> QED
  BY <1>1, NatLessThanWellFounded, Zenon

(* A set of numbers that has any has a smallest one. *)
LEMMA SmallestElement ==
  ASSUME NEW T \in SUBSET Nat, T # {}
  PROVE  \E m \in T : \A k \in T : m <= k
<1>1. PICK m \in T : \A k \in T : ~ (<<k, m>> \in Less)
  BY LessIsWellFounded, WFMin, Zenon
<1>2. \A k \in T : ~ (k < m)
  BY <1>1 DEF Less
<1> QED
  BY <1>2

(* Induction up to a bound. *)
LEMMA SetInduction ==
  ASSUME NEW N \in Nat, NEW T, 0 \in T, \A n \in 0 .. N - 1 : n \in T => n + 1 \in T
  PROVE  \A n \in 0 .. N : n \in T
<1> SUFFICES ASSUME NEW n \in 0 .. N, n \notin T
             PROVE  FALSE
  OBVIOUS
<1>1. PICK S : S = {k \in 0 .. N : k \notin T}
  OBVIOUS
<1>2. S \in SUBSET Nat /\ S # {}
  BY <1>1
<1>3. PICK m \in S : \A k \in S : m <= k
  BY <1>2, SmallestElement
<1>4. m \in 0 .. N /\ m \notin T
  BY <1>1, <1>3
<1>5. m # 0
  BY <1>4
<1>6. m - 1 \in 0 .. N - 1 /\ m - 1 \in 0 .. N /\ (m - 1) + 1 = m /\ ~ (m <= m - 1)
  BY <1>4, <1>5
<1>7. m - 1 \in T
  BY <1>1, <1>3, <1>6
<1> QED
  BY <1>4, <1>6, <1>7

(* What a recursion with start g0 and step g says of a function up to n. *)
Follows(f, n, g0, g) == f[0] = g0 /\ \A i \in 1 .. n : f[i] = g[<<i, f[i - 1]>>]

(* Every recursion whose values stay in a set has a solution. *)
LEMMA RecursionExists ==
  ASSUME NEW N \in Nat, NEW S, NEW g0 \in S, NEW g \in [(1 .. N) \X S -> S]
  PROVE  \E f \in [0 .. N -> S] : Follows(f, N, g0, g)
<1>1. PICK T : T = {n \in 0 .. N : \E f \in [0 .. n -> S] : Follows(f, n, g0, g)}
  OBVIOUS
<1>2. 0 \in T
  <2>1. PICK f : f = [i \in 0 .. 0 |-> g0]
    OBVIOUS
  <2>2. f \in [0 .. 0 -> S] /\ Follows(f, 0, g0, g)
    BY <2>1 DEF Follows
  <2> QED
    BY <2>2, <1>1
<1>3. ASSUME NEW n \in 0 .. N - 1, n \in T
      PROVE  n + 1 \in T
  <2>1. PICK f \in [0 .. n -> S] : Follows(f, n, g0, g)
    BY <1>1, <1>3
  <2>2. PICK h : h = [i \in 0 .. n + 1 |-> IF i = n + 1 THEN g[<<n + 1, f[n]>>] ELSE f[i]]
    OBVIOUS
  <2>3. f[n] \in S /\ g[<<n + 1, f[n]>>] \in S /\ n \in Nat
    <3>1. f[n] \in S /\ n + 1 \in 1 .. N
      BY <2>1
    <3> QED
      BY <3>1
  <2>4. h \in [0 .. n + 1 -> S]
    BY <2>1, <2>2, <2>3
  <2>5. h[0] = g0
    BY <2>1, <2>2 DEF Follows
  <2>6. ASSUME NEW i \in 1 .. n + 1
        PROVE  h[i] = g[<<i, h[i - 1]>>]
    <3>1. i - 1 \in 0 .. n /\ h[i - 1] = f[i - 1]
      BY <2>2, <2>3
    <3>2. CASE i = n + 1
      <4>1. i - 1 = n /\ i \in 0 .. n + 1
        BY <2>3, <3>2
      <4>2. h[i - 1] = f[n] /\ h[i] = g[<<i, f[n]>>]
        BY <2>2, <3>1, <3>2, <4>1
      <4> QED
        BY <4>2
    <3>3. CASE i # n + 1
      <4>1. i \in 1 .. n /\ h[i] = f[i]
        BY <2>2, <2>3, <3>3
      <4> QED
        BY <2>1, <3>1, <4>1 DEF Follows
    <3> QED
      BY <3>2, <3>3
  <2>7. Follows(h, n + 1, g0, g)
    BY <2>5, <2>6 DEF Follows
  <2> QED
    BY <2>4, <2>7, <1>1
<1>4. N \in T
  BY <1>2, <1>3, SetInduction
<1> QED
  BY <1>1, <1>4

-----------------------------------------------------------------------------
(***************************************************************************)
(* Lists.                                                                  *)
(***************************************************************************)
ElementsOf(s) == {s[i] : i \in 1 .. Len(s)}

(* A function on 1 .. n is a list of length n. *)
LEMMA FunctionIsList ==
  ASSUME NEW n \in Nat, NEW f, f = [i \in 1 .. n |-> f[i]]
  PROVE  IsList(f) /\ Len(f) = n
  <1>1. DOMAIN f = 1 .. n
    OBVIOUS
  <1>2. f \in Seq({f[i] : i \in 1 .. n})
    BY SeqDef
  <1>3. Len(f) = n
    BY <1>1, <1>2, LenProperties
  <1> QED
    BY <1>3 DEF IsList

(* Lists are equal when they have the same length and the same elements. *)
LEMMA ListsEqual ==
  ASSUME NEW s, NEW t, IsList(s), IsList(t), Len(s) = Len(t),
         \A i \in 1 .. Len(s) : s[i] = t[i]
  PROVE  s = t
  BY DEF IsList

LEMMA ListIsSeq ==
  ASSUME NEW s, IsList(s), NEW S, ElementsOf(s) \subseteq S
  PROVE  s \in Seq(S)
  BY SeqDef DEF IsList, ElementsOf

LEMMA SeqIsList ==
  ASSUME NEW S, NEW s \in Seq(S)
  PROVE  IsList(s) /\ ElementsOf(s) \subseteq S
  BY DEF IsList, ElementsOf

LEMMA AppendIs ==
  ASSUME NEW s, IsList(s), NEW e
  PROVE  /\ IsList(Append(s, e))
         /\ Len(Append(s, e)) = Len(s) + 1
         /\ Append(s, e)[Len(s) + 1] = e
         /\ \A i \in 1 .. Len(s) : Append(s, e)[i] = s[i]
  <1>1. PICK S : S = ElementsOf(s) \cup {e}
    OBVIOUS
  <1>2. s \in Seq(S) /\ e \in S
    BY <1>1, ListIsSeq
  <1>3. Append(s, e) \in Seq(S)
    BY <1>2, AppendProperties
  <1>4. /\ Len(Append(s, e)) = Len(s) + 1
        /\ Append(s, e)[Len(s) + 1] = e
        /\ \A i \in 1 .. Len(s) : Append(s, e)[i] = s[i]
    BY <1>2, AppendProperties
  <1> QED BY <1>3, <1>4, SeqIsList

LEMMA ConcatIs ==
  ASSUME NEW s, NEW t, IsList(s), IsList(t)
  PROVE  /\ IsList(s \o t)
         /\ Len(s \o t) = Len(s) + Len(t)
         /\ \A i \in 1 .. Len(s) : (s \o t)[i] = s[i]
         /\ \A i \in 1 .. Len(t) : (s \o t)[Len(s) + i] = t[i]
  <1>1. PICK S : S = ElementsOf(s) \cup ElementsOf(t)
    OBVIOUS
  <1>2. s \in Seq(S) /\ t \in Seq(S)
    BY <1>1, ListIsSeq
  <1>3. s \o t \in Seq(S)
    BY <1>2, ConcatProperties
  <1>4. /\ Len(s \o t) = Len(s) + Len(t)
        /\ \A i \in 1 .. Len(s) + Len(t) :
             (s \o t)[i] = IF i <= Len(s) THEN s[i] ELSE t[i - Len(s)]
    BY <1>2, ConcatProperties
  <1>5. Len(s) \in Nat /\ Len(t) \in Nat
    BY DEF IsList
  <1>6. \A i \in 1 .. Len(t) : /\ Len(s) + i \in 1 .. Len(s) + Len(t)
                               /\ ~ (Len(s) + i <= Len(s))
                               /\ (Len(s) + i) - Len(s) = i
    BY <1>5
  <1>7. \A i \in 1 .. Len(t) : (s \o t)[Len(s) + i] = t[i]
    BY <1>4, <1>6
  <1>8. \A i \in 1 .. Len(s) : (s \o t)[i] = s[i]
    BY <1>4, <1>5
  <1>9. IsList(s \o t)
    BY <1>3, SeqIsList
  <1> QED BY <1>4, <1>7, <1>8, <1>9

(* A list that does not end gives up its first element. *)
LEMMA TailIs ==
  ASSUME NEW s, IsList(s), s # << >>
  PROVE  /\ Len(s) \in Nat \ {0}
         /\ Head(s) = s[1]
         /\ IsList(Tail(s))
         /\ Len(Tail(s)) = Len(s) - 1
         /\ \A i \in 1 .. Len(s) - 1 : Tail(s)[i] = s[i + 1]
  <1>1. PICK S : S = ElementsOf(s)
    OBVIOUS
  <1>2. s \in Seq(S)
    BY <1>1, ListIsSeq
  <1>3. Tail(s) \in Seq(S) /\ Len(s) \in Nat \ {0}
    BY <1>2, HeadTailProperties, EmptySeq
  <1>4. Head(s) = s[1] /\ Len(Tail(s)) = Len(s) - 1
    BY <1>2, <1>3
  <1>5. \A i \in 1 .. Len(s) - 1 : Tail(s)[i] = s[i + 1]
    BY <1>2, <1>3, <1>4
  <1> QED BY <1>3, <1>4, <1>5, SeqIsList

LEMMA EmptyList == IsList(<< >>) /\ Len(<< >>) = 0
  BY DEF IsList

(* The places of a type in a longer list. *)
LEMMA OneIs ==
  ASSUME NEW e
  PROVE  IsList(<<e>>) /\ Len(<<e>>) = 1 /\ <<e>>[1] = e
  BY DEF IsList

LEMMA ConcatElements ==
  ASSUME NEW s, NEW t, IsList(s), IsList(t)
  PROVE  ElementsOf(s \o t) = ElementsOf(s) \cup ElementsOf(t)
  <1>1. Len(s) \in Nat /\ Len(t) \in Nat
    BY DEF IsList
  <1>2. PICK r : r = s \o t
    OBVIOUS
  <1>3. /\ Len(r) = Len(s) + Len(t)
        /\ \A i \in 1 .. Len(s) : r[i] = s[i]
        /\ \A i \in 1 .. Len(t) : r[Len(s) + i] = t[i]
    BY <1>2, ConcatIs
  <1>4. /\ \A i \in 1 .. Len(r) :
             i \in 1 .. Len(s) \/ (i - Len(s) \in 1 .. Len(t) /\ Len(s) + (i - Len(s)) = i)
        /\ \A i \in 1 .. Len(s) : i \in 1 .. Len(r)
        /\ \A i \in 1 .. Len(t) : Len(s) + i \in 1 .. Len(r)
    <2>1. Len(r) = Len(s) + Len(t)
      BY <1>3
    <2> QED BY ONLY <1>1, <2>1
  <1>5. ASSUME NEW x \in ElementsOf(r)
        PROVE  x \in ElementsOf(s) \cup ElementsOf(t)
    <2>1. PICK i \in 1 .. Len(r) : x = r[i]
      BY DEF ElementsOf
    <2>2. CASE i \in 1 .. Len(s)
      BY <1>3, <2>1, <2>2 DEF ElementsOf
    <2>3. CASE i - Len(s) \in 1 .. Len(t) /\ Len(s) + (i - Len(s)) = i
      <3>1. PICK j \in 1 .. Len(t) : Len(s) + j = i
        BY <2>3
      <3>2. x = t[j]
        BY <1>3, <2>1, <3>1
      <3> QED BY <3>2 DEF ElementsOf
    <2> QED BY <1>4, <2>2, <2>3
  <1>6. ASSUME NEW i \in 1 .. Len(s) PROVE s[i] \in ElementsOf(r)
    BY <1>3, <1>4 DEF ElementsOf
  <1>7. ASSUME NEW i \in 1 .. Len(t) PROVE t[i] \in ElementsOf(r)
    <2>1. PICK j : j = Len(s) + i
      OBVIOUS
    <2>2. j \in 1 .. Len(r) /\ r[j] = t[i]
      BY <1>3, <1>4, <2>1
    <2> QED BY <2>2 DEF ElementsOf
  <1>8. ElementsOf(s) \subseteq ElementsOf(r) /\ ElementsOf(t) \subseteq ElementsOf(r)
    <2>1. \A x \in ElementsOf(s) : x \in ElementsOf(r)
      BY <1>6 DEF ElementsOf
    <2>2. \A x \in ElementsOf(t) : x \in ElementsOf(r)
      BY <1>7 DEF ElementsOf
    <2> QED BY <2>1, <2>2
  <1> QED BY <1>2, <1>5, <1>8

LEMMA AppendElements ==
  ASSUME NEW s, IsList(s), NEW e
  PROVE  ElementsOf(Append(s, e)) = ElementsOf(s) \cup {e}
  <1>1. Len(s) \in Nat
    BY DEF IsList
  <1>2. /\ Len(Append(s, e)) = Len(s) + 1
        /\ Append(s, e)[Len(s) + 1] = e
        /\ \A i \in 1 .. Len(s) : Append(s, e)[i] = s[i]
    BY AppendIs
  <1>3. /\ \A i \in 1 .. Len(s) + 1 : i \in 1 .. Len(s) \/ i = Len(s) + 1
        /\ Len(s) + 1 \in 1 .. Len(s) + 1
        /\ \A i \in 1 .. Len(s) : i \in 1 .. Len(s) + 1
    BY <1>1
  <1>4. PICK t : t = Append(s, e)
    OBVIOUS
  <1>5. \A x : x \in ElementsOf(t) <=> x \in ElementsOf(s) \cup {e}
    BY <1>2, <1>3, <1>4 DEF ElementsOf
  <1> QED BY <1>4, <1>5

-----------------------------------------------------------------------------
(***************************************************************************)
(* The lines of a package, counted.                                        *)
(***************************************************************************)
LEMMA CountStays ==
  ASSUME NEW lines, NEW kind, NEW n \in Nat, NEW m, m = n + 1, lines[m].kind # kind
  PROVE  Count(lines, kind, m) = Count(lines, kind, n)
  <1>1. \A i \in 1 .. m : i \in 1 .. n \/ i = m
    OBVIOUS
  <1>2. \A i \in 1 .. n : i \in 1 .. m
    OBVIOUS
  <1>3. {i \in 1 .. m : lines[i].kind = kind} = {i \in 1 .. n : lines[i].kind = kind}
    BY <1>1, <1>2
  <1> QED BY <1>3, Zenon DEF Count

LEMMA CountNext ==
  ASSUME NEW lines, NEW kind, NEW n \in Nat
  PROVE  /\ Count(lines, kind, 0) = 0
         /\ Count(lines, kind, n) \in Nat
         /\ Count(lines, kind, n + 1) =
              IF lines[n + 1].kind = kind THEN Count(lines, kind, n) + 1
                                          ELSE Count(lines, kind, n)
  <1> DEFINE Of(m) == {i \in 1 .. m : lines[i].kind = kind}
  <1>1. IsFiniteSet(Of(n))
    <2>1. IsFiniteSet(1 .. n)
      BY FS_Interval
    <2> QED BY <2>1, FS_Subset
  <1>2. Count(lines, kind, n) \in Nat
    BY <1>1, FS_CardinalityType DEF Count
  <1>3. Count(lines, kind, 0) = 0
    <2>1. Of(0) = {}
      OBVIOUS
    <2> QED BY <2>1, FS_EmptySet DEF Count
  <1>4. CASE lines[n + 1].kind = kind
    <2>1. Of(n + 1) = Of(n) \cup {n + 1}
      BY <1>4
    <2>2. n + 1 \notin Of(n)
      OBVIOUS
    <2> HIDE DEF Of
    <2>3. Cardinality(Of(n) \cup {n + 1}) = Cardinality(Of(n)) + 1
      BY <1>1, <2>2, FS_AddElement
    <2>4. Count(lines, kind, n + 1) = Cardinality(Of(n + 1))
          /\ Count(lines, kind, n) = Cardinality(Of(n))
      BY DEF Count, Of
    <2> QED BY <1>2, <1>3, <1>4, <2>1, <2>3, <2>4
  <1>5. CASE lines[n + 1].kind # kind
    <2>1. Count(lines, kind, n + 1) = Count(lines, kind, n)
      BY <1>5, CountStays
    <2> HIDE DEF Of
    <2> QED BY <1>2, <1>3, <1>5, <2>1
  <1> QED
    BY <1>4, <1>5

LEMMA CountSmall ==
  ASSUME NEW lines, NEW kind, NEW n \in Nat
  PROVE  Count(lines, kind, n) <= n
  <1> DEFINE counted == {i \in 1 .. n : lines[i].kind = kind}
  <1>1. IsFiniteSet(1 .. n) /\ Cardinality(1 .. n) = n
    BY FS_Interval
  <1>2. counted \subseteq 1 .. n
    OBVIOUS
  <1>3. Cardinality(counted) <= Cardinality(1 .. n)
    BY <1>1, <1>2, FS_Subset
  <1> QED BY <1>1, <1>3 DEF Count

LEMMA DepthNext ==
  ASSUME NEW lines, NEW n \in Nat
  PROVE  /\ Depth(lines, 0) = 0
         /\ Depth(lines, n) \in Int
         /\ lines[n + 1].kind = "If" => Depth(lines, n + 1) = Depth(lines, n) + 1
         /\ lines[n + 1].kind = "EndIf" => Depth(lines, n + 1) = Depth(lines, n) - 1
         /\ lines[n + 1].kind \notin {"If", "EndIf"} => Depth(lines, n + 1) = Depth(lines, n)
  <1>1. ASSUME NEW kind \in {"If", "EndIf"}
        PROVE  /\ Count(lines, kind, 0) = 0 /\ Count(lines, kind, n) \in Nat
               /\ lines[n + 1].kind = kind => Count(lines, kind, n + 1) = Count(lines, kind, n) + 1
               /\ lines[n + 1].kind # kind => Count(lines, kind, n + 1) = Count(lines, kind, n)
    BY CountNext
  <1>2. PICK a : a = lines[n + 1].kind
    OBVIOUS
  <1> QED
    BY <1>1, <1>2 DEF Depth

(* The remainder of a number that is known as a multiple and a rest. *)
LEMMA RemainderIs ==
  ASSUME NEW q \in Nat, NEW n \in Nat, n > 0, NEW r \in 0 .. n - 1
  PROVE  (q * n + r) % n = r
  <1> DEFINE m == (q * n + r) % n
             d == (q * n + r) \div n
  <1>1. q * n \in Nat /\ q * n + r \in Nat
    OBVIOUS
  <1>2. m \in 0 .. n - 1 /\ d \in Int /\ q * n + r = n * d + m
    BY <1>1
  <1> HIDE DEF m, d
  <1>3. n * (q - d) = m - r
    BY <1>2
  <1>4. ~ (q - d >= 1)
    <2> SUFFICES ASSUME q - d >= 1 PROVE FALSE
      OBVIOUS
    <2>1. n * (q - d) >= n
      BY <1>2
    <2> QED BY <1>2, <1>3, <2>1
  <1>5. ~ (q - d <= -1)
    <2> SUFFICES ASSUME q - d <= -1 PROVE FALSE
      OBVIOUS
    <2>1. n * (q - d) <= -n
      BY <1>2
    <2> QED BY <1>2, <1>3, <2>1
  <1>6. q - d = 0
    BY <1>2, <1>4, <1>5
  <1>7. m = r
    BY <1>2, <1>3, <1>6
  <1> QED BY <1>7 DEF m

LEMMA RemainderNext ==
  ASSUME NEW x \in Nat, NEW n \in Nat, n > 0
  PROVE  /\ 0 % n = 0
         /\ x % n \in 0 .. n - 1 /\ x % n <= x
         /\ (x + 1) % n = IF (x % n) + 1 = n THEN 0 ELSE (x % n) + 1
  <1>1. PICK r : r = x % n
    OBVIOUS
  <1>2. PICK q : q = x \div n
    OBVIOUS
  <1>3. r \in 0 .. n - 1 /\ q \in Int /\ x = n * q + r
    BY <1>1, <1>2
  <1>4. q \in Nat
    <2> SUFFICES ASSUME q <= -1 PROVE FALSE
      BY <1>3
    <2>1. n * q <= -n
      BY <1>3
    <2> QED BY <1>3, <2>1
  <1>5. CASE r + 1 = n
    <2>1. x + 1 = (q + 1) * n + 0
      BY <1>3, <1>5
    <2>2. q + 1 \in Nat /\ 0 \in 0 .. n - 1
      BY <1>4
    <2>3. ((q + 1) * n + 0) % n = 0
      BY <2>2, RemainderIs
    <2> QED BY <1>1, <1>3, <1>5, <2>1, <2>3
  <1>6. CASE r + 1 # n
    <2>1. x + 1 = q * n + (r + 1) /\ r + 1 \in 0 .. n - 1
      BY <1>3, <1>6
    <2>2. (q * n + (r + 1)) % n = r + 1
      BY <1>4, <2>1, RemainderIs
    <2> QED BY <1>1, <1>3, <1>6, <2>1, <2>2
  <1> QED
    BY <1>1, <1>5, <1>6

-----------------------------------------------------------------------------
(***************************************************************************)
(* The conditions around a line, followed from line to line.               *)
(***************************************************************************)

(* The blocks that are open behind line n. *)
Open(lines, n) ==
  {k \in Headers(lines) :
     /\ k <= n
     /\ \A m \in k + 1 .. n : Depth(lines, m) >= Depth(lines, k)
     /\ \A m \in Headers(lines) : m \in k + 1 .. n => k \notin Earlier(lines, m)}

(* The blocks so far of the condition that is open at a depth. *)
Group(lines, n, depth) ==
  {j \in Headers(lines) : /\ j <= n
                          /\ Depth(lines, j) = depth
                          /\ \A m \in j + 1 .. n : Depth(lines, m) >= depth}

(* The blocks around a line of block k, where 0 is the top. *)
Inside(lines, k) == IF k = 0 THEN {} ELSE Around(lines, k) \cup {k}

LEMMA DepthIsInt ==
  ASSUME NEW lines, NEW n \in Nat
  PROVE  Depth(lines, n) \in Int
  BY DepthNext

LEMMA OpenDepth ==
  ASSUME NEW lines, Len(lines) \in Nat, NEW n \in Nat, NEW k \in Open(lines, n)
  PROVE  k \in 1 .. n /\ Depth(lines, k) <= Depth(lines, n)
  <1>1. k \in 1 .. Len(lines) /\ k <= n
    BY DEF Open, Headers
  <1>2. Depth(lines, k) \in Int /\ Depth(lines, n) \in Int
    BY <1>1, DepthIsInt
  <1>3. CASE k = n
    BY <1>1, <1>2, <1>3
  <1>4. CASE k # n
    <2>1. n \in k + 1 .. n
      BY <1>1, <1>4
    <2> QED BY <1>1, <1>2, <2>1 DEF Open
  <1> QED BY <1>3, <1>4

LEMMA AroundNext ==
  ASSUME NEW lines, Len(lines) \in Nat, NEW n \in Nat, n + 1 <= Len(lines), NEW k
  PROVE  k \in Around(lines, n + 1) <=>
           /\ k \in Open(lines, n)
           /\ Depth(lines, k) <= Depth(lines, n + 1)
           /\ n + 1 \in Headers(lines) => k \notin Earlier(lines, n + 1)
  <1> SUFFICES ASSUME k \in Headers(lines)
               PROVE  k \in Around(lines, n + 1) <=>
                        /\ k \in Open(lines, n)
                        /\ Depth(lines, k) <= Depth(lines, n + 1)
                        /\ n + 1 \in Headers(lines) => k \notin Earlier(lines, n + 1)
    BY DEF Around, Open
  <1>1. k \in 1 .. Len(lines)
    BY DEF Headers
  <1>2. k \in Around(lines, n + 1) <=>
          /\ k < n + 1
          /\ \A m \in k + 1 .. n + 1 : Depth(lines, m) >= Depth(lines, k)
          /\ \A m \in Headers(lines) : m \in k + 1 .. n + 1 => k \notin Earlier(lines, m)
    BY DEF Around, SameGroup
  <1>3. k \in Open(lines, n) <=>
          /\ k <= n
          /\ \A m \in k + 1 .. n : Depth(lines, m) >= Depth(lines, k)
          /\ \A m \in Headers(lines) : m \in k + 1 .. n => k \notin Earlier(lines, m)
    BY DEF Open
  <1>4. k < n + 1 <=> k <= n
    BY <1>1
  <1>5. CASE k <= n
    <2>1. \A m : m \in k + 1 .. n + 1 <=> m \in k + 1 .. n \/ m = n + 1
      BY <1>1, <1>5
    <2>2. Depth(lines, k) <= Depth(lines, n + 1) <=> Depth(lines, n + 1) >= Depth(lines, k)
      BY <1>1, DepthIsInt
    <2> QED BY <1>2, <1>3, <1>4, <1>5, <2>1, <2>2, Zenon
  <1>6. CASE ~ (k <= n)
    BY <1>2, <1>3, <1>4, <1>6
  <1> QED BY <1>5, <1>6

LEMMA OpenNext ==
  ASSUME NEW lines, Len(lines) \in Nat, NEW n \in Nat, n + 1 <= Len(lines), NEW k
  PROVE  k \in Open(lines, n + 1) <=>
           k \in Around(lines, n + 1) \/ (k = n + 1 /\ n + 1 \in Headers(lines))
  <1> SUFFICES ASSUME k \in Headers(lines)
               PROVE  k \in Open(lines, n + 1) <=> k \in Around(lines, n + 1) \/ k = n + 1
    BY DEF Around, Open
  <1>1. k \in 1 .. Len(lines)
    BY DEF Headers
  <1>2. k \in Around(lines, n + 1) <=>
          /\ k < n + 1
          /\ \A m \in k + 1 .. n + 1 : Depth(lines, m) >= Depth(lines, k)
          /\ \A m \in Headers(lines) : m \in k + 1 .. n + 1 => k \notin Earlier(lines, m)
    BY DEF Around, SameGroup
  <1>3. k \in Open(lines, n + 1) <=>
          /\ k <= n + 1
          /\ \A m \in k + 1 .. n + 1 : Depth(lines, m) >= Depth(lines, k)
          /\ \A m \in Headers(lines) : m \in k + 1 .. n + 1 => k \notin Earlier(lines, m)
    BY DEF Open
  <1>4. k <= n + 1 <=> k < n + 1 \/ k = n + 1
    BY <1>1
  <1>5. k = n + 1 => \A m : m \notin k + 1 .. n + 1
    BY <1>1
  <1> QED BY <1>2, <1>3, <1>4, <1>5, Zenon

LEMMA GroupNext ==
  ASSUME NEW lines, Len(lines) \in Nat, NEW n \in Nat, n + 1 <= Len(lines), NEW e, NEW j
  PROVE  j \in Group(lines, n + 1, e) <=>
           \/ j \in Group(lines, n, e) /\ Depth(lines, n + 1) >= e
           \/ j = n + 1 /\ n + 1 \in Headers(lines) /\ Depth(lines, n + 1) = e
  <1> SUFFICES ASSUME j \in Headers(lines)
               PROVE  j \in Group(lines, n + 1, e) <=>
                        \/ j \in Group(lines, n, e) /\ Depth(lines, n + 1) >= e
                        \/ j = n + 1 /\ Depth(lines, n + 1) = e
    BY DEF Group
  <1>1. j \in 1 .. Len(lines)
    BY DEF Headers
  <1>2. CASE j <= n
    <2>1. \A m : m \in j + 1 .. n + 1 <=> m \in j + 1 .. n \/ m = n + 1
      BY <1>1, <1>2
    <2>2. j # n + 1 /\ j <= n + 1
      BY <1>1, <1>2
    <2> QED BY <1>2, <2>1, <2>2, Zenon DEF Group
  <1>3. CASE j = n + 1
    <2>1. \A m : m \notin j + 1 .. n + 1
      BY <1>3
    <2>2. ~ (j <= n) /\ j <= n + 1
      BY <1>3
    <2> QED BY <1>3, <2>1, <2>2, Zenon DEF Group
  <1>4. CASE j > n + 1
    BY <1>1, <1>4 DEF Group
  <1> QED BY <1>1, <1>2, <1>3, <1>4

LEMMA EarlierNext ==
  ASSUME NEW lines, Len(lines) \in Nat, NEW n \in Nat, n + 1 <= Len(lines)
  PROVE  Earlier(lines, n + 1) =
           IF lines[n + 1].kind = "If" THEN {}
           ELSE Group(lines, n, Depth(lines, n + 1))
  <1>1. ASSUME NEW j \in Headers(lines)
        PROVE  /\ SameGroup(lines, j, n + 1) /\ Depth(lines, j) = Depth(lines, n + 1)
               <=> j \in Group(lines, n, Depth(lines, n + 1))
    <2>1. j \in 1 .. Len(lines) /\ Depth(lines, j) \in Int /\ Depth(lines, n + 1) \in Int
      BY DepthIsInt DEF Headers
    <2>2. CASE j <= n
      <3>1. \A m : m \in j + 1 .. n + 1 <=> m \in j + 1 .. n \/ m = n + 1
        BY <2>1, <2>2
      <3>2. j < n + 1 /\ Depth(lines, n + 1) >= Depth(lines, n + 1)
        BY <2>1, <2>2
      <3> QED BY <2>2, <3>1, <3>2, Zenon DEF Group, SameGroup
    <2>3. CASE ~ (j <= n)
      BY <2>1, <2>3 DEF Group, SameGroup
    <2> QED BY <2>2, <2>3
  <1>2. Group(lines, n, Depth(lines, n + 1)) \subseteq Headers(lines)
    BY DEF Group
  <1> QED BY <1>1, <1>2 DEF Earlier

(* The blocks open behind line n, outermost first: stack[e] is the one at  *)
(* depth e.                                                                *)
Outermost(stack, depth) == {stack[f] : f \in 1 .. depth}

Stacked(lines, n, level, stack) ==
  /\ stack[0] = 0
  /\ \A e \in 1 .. level :
       /\ stack[e] \in Headers(lines) /\ stack[e] <= n
       /\ Depth(lines, stack[e]) = e
       /\ Inside(lines, stack[e]) = Outermost(stack, e)
  /\ Open(lines, n) = Outermost(stack, level)

LEMMA StackedNone ==
  ASSUME NEW lines, Len(lines) \in Nat, NEW stack, stack[0] = 0
  PROVE  Stacked(lines, 0, 0, stack)
  <1>1. Open(lines, 0) = {}
    BY DEF Open, Headers
  <1> QED BY <1>1 DEF Stacked, Outermost

LEMMA StackedInside ==
  ASSUME NEW lines, NEW n, NEW level \in Nat, NEW stack, Stacked(lines, n, level, stack),
         NEW e \in 0 .. level
  PROVE  Inside(lines, stack[e]) = Outermost(stack, e)
  <1>1. CASE e = 0
    BY <1>1 DEF Stacked, Inside, Outermost
  <1>2. CASE e # 0
    BY <1>2 DEF Stacked
  <1> QED BY <1>1, <1>2

LEMMA StackedInnermost ==
  ASSUME NEW lines, NEW n, NEW level \in Nat, NEW stack, Stacked(lines, n, level, stack)
  PROVE  Inside(lines, stack[level]) = Open(lines, n)
  <1>1. level \in 0 .. level
    OBVIOUS
  <1>2. Inside(lines, stack[level]) = Outermost(stack, level)
    BY <1>1, StackedInside
  <1> QED BY <1>2 DEF Stacked

LEMMA StackedLess ==
  ASSUME NEW lines, NEW n, NEW level \in Nat \ {0}, NEW stack, Stacked(lines, n, level, stack)
  PROVE  Inside(lines, stack[level - 1]) = Outermost(stack, level - 1)
  <1>1. level \in Nat /\ level - 1 \in 0 .. level
    OBVIOUS
  <1>2. PICK e : e = level - 1
    OBVIOUS
  <1>3. Inside(lines, stack[e]) = Outermost(stack, e)
    BY <1>1, <1>2, StackedInside
  <1> QED BY <1>2, <1>3

(* A line that neither leaves nor ends a block is in the innermost one.    *)
LEMMA StackedAround ==
  ASSUME NEW lines, Len(lines) \in Nat, NEW n \in Nat, n + 1 <= Len(lines),
         NEW level \in Nat, NEW stack, Stacked(lines, n, level, stack),
         lines[n + 1].kind \notin {"EndIf", "ElseIf", "Else"}
  PROVE  Around(lines, n + 1) = Inside(lines, stack[level])
  <1>1. Inside(lines, stack[level]) = Open(lines, n)
    BY StackedInnermost
  <1>2. Depth(lines, n) <= Depth(lines, n + 1)
    BY DepthNext
  <1>3. ASSUME NEW k PROVE k \in Around(lines, n + 1) <=> k \in Open(lines, n)
    <2>1. k \in Open(lines, n) => Depth(lines, k) <= Depth(lines, n + 1)
      <3>1. ASSUME k \in Open(lines, n) PROVE Depth(lines, k) <= Depth(lines, n + 1)
        <4>1. k \in 1 .. n /\ Depth(lines, k) <= Depth(lines, n)
          BY <3>1, OpenDepth
        <4>2. Depth(lines, k) \in Int /\ Depth(lines, n) \in Int /\ Depth(lines, n + 1) \in Int
          BY <4>1, DepthIsInt
        <4> QED BY <1>2, <4>1, <4>2
      <3> QED BY <3>1
    <2>2. n + 1 \in Headers(lines) => Earlier(lines, n + 1) = {}
      BY EarlierNext DEF Headers
    <2> QED BY <2>1, <2>2, AroundNext
  <1> QED BY <1>1, <1>3

LEMMA StackedStays ==
  ASSUME NEW lines, Len(lines) \in Nat, NEW n \in Nat, n + 1 <= Len(lines),
         NEW level \in Nat, NEW stack, Stacked(lines, n, level, stack),
         lines[n + 1].kind \notin {"If", "EndIf", "ElseIf", "Else"}
  PROVE  Stacked(lines, n + 1, level, stack)
  <1>1. Around(lines, n + 1) = Inside(lines, stack[level])
    BY StackedAround
  <1>2. Inside(lines, stack[level]) = Open(lines, n)
    BY StackedInnermost
  <1>3. n + 1 \notin Headers(lines)
    BY DEF Headers
  <1>4. \A k : k \in Open(lines, n + 1) <=> k \in Open(lines, n)
    BY <1>1, <1>2, <1>3, OpenNext
  <1>5. Open(lines, n + 1) = Open(lines, n)
    BY <1>4
  <1>6. ASSUME NEW e \in 1 .. level PROVE stack[e] <= n + 1
    <2>1. stack[e] \in Nat /\ stack[e] <= n
      BY DEF Stacked, Headers
    <2> QED BY <2>1
  <1> QED BY <1>5, <1>6 DEF Stacked

LEMMA StackedIf ==
  ASSUME NEW lines, Len(lines) \in Nat, NEW n \in Nat, n + 1 <= Len(lines),
         NEW level \in Nat, NEW stack, Stacked(lines, n, level, stack),
         Depth(lines, n) = level, lines[n + 1].kind = "If",
         NEW s, s[0] = 0, s[level + 1] = n + 1, \A e \in 1 .. level : s[e] = stack[e]
  PROVE  Stacked(lines, n + 1, level + 1, s)
  <1>3. /\ s[0] = 0 /\ s[level + 1] = n + 1
        /\ \A e \in 1 .. level : s[e] = stack[e]
    OBVIOUS
  <1>4. Around(lines, n + 1) = Inside(lines, stack[level])
    BY StackedAround
  <1>5. Inside(lines, stack[level]) = Outermost(stack, level)
    <2>1. Inside(lines, stack[level]) = Open(lines, n)
      BY StackedInnermost
    <2> QED BY <2>1 DEF Stacked
  <1>6. n + 1 \in Headers(lines)
    BY DEF Headers
  <1>7. Depth(lines, n + 1) = level + 1
    BY DepthNext
  <1>8. \A e \in 1 .. level + 1 : e \in 1 .. level \/ e = level + 1
    OBVIOUS
  <1>9. Outermost(s, level + 1) = Outermost(stack, level) \cup {n + 1}
    <2>1. \A e \in 1 .. level : e \in 1 .. level + 1
      OBVIOUS
    <2>2. level + 1 \in 1 .. level + 1
      OBVIOUS
    <2> QED BY <1>3, <1>8, <2>1, <2>2 DEF Outermost
  <1>10. Inside(lines, n + 1) = Outermost(s, level + 1)
    <2>1. n + 1 # 0
      OBVIOUS
    <2> QED BY <1>4, <1>5, <1>9, <2>1, Zenon DEF Inside
  <1>11. Open(lines, n + 1) = Outermost(s, level + 1)
    <2>1. \A k : k \in Open(lines, n + 1) <=> k \in Around(lines, n + 1) \cup {n + 1}
      BY <1>6, OpenNext
    <2> QED BY <1>4, <1>5, <1>9, <2>1
  <1>12. ASSUME NEW e \in 1 .. level
         PROVE  /\ s[e] \in Headers(lines) /\ s[e] <= n + 1
                /\ Depth(lines, s[e]) = e
                /\ Inside(lines, s[e]) = Outermost(s, e)
    <2>1. \A f \in 1 .. e : f \in 1 .. level
      OBVIOUS
    <2>2. Outermost(s, e) = Outermost(stack, e)
      BY <1>3, <2>1 DEF Outermost
    <2>3. s[e] = stack[e] /\ stack[e] \in Nat
      BY <1>3 DEF Stacked, Headers
    <2>4. /\ stack[e] \in Headers(lines) /\ stack[e] <= n /\ Depth(lines, stack[e]) = e
          /\ Inside(lines, stack[e]) = Outermost(stack, e)
      BY DEF Stacked
    <2> QED BY <2>2, <2>3, <2>4
  <1>13. \A e \in 1 .. level + 1 :
           /\ s[e] \in Headers(lines) /\ s[e] <= n + 1
           /\ Depth(lines, s[e]) = e
           /\ Inside(lines, s[e]) = Outermost(s, e)
    BY <1>3, <1>6, <1>7, <1>8, <1>10, <1>12
  <1> QED BY <1>3, <1>11, <1>13 DEF Stacked

(* The blocks that are left when the innermost one is. *)
LEMMA StackedOuter ==
  ASSUME NEW lines, Len(lines) \in Nat, NEW n \in Nat,
         NEW level \in Nat \ {0}, NEW stack, Stacked(lines, n, level, stack), NEW k
  PROVE  /\ k \in Open(lines, n) /\ Depth(lines, k) < level
              <=> k \in Inside(lines, stack[level - 1])
         /\ k \in Open(lines, n) /\ Depth(lines, k) # level
              <=> k \in Inside(lines, stack[level - 1])
  <1>1. level - 1 \in 0 .. level
    OBVIOUS
  <1>2. Inside(lines, stack[level - 1]) = Outermost(stack, level - 1)
    BY StackedLess
  <1>3. Open(lines, n) = Outermost(stack, level)
    BY DEF Stacked
  <1>4. \A f \in 1 .. level : Depth(lines, stack[f]) = f
    BY DEF Stacked
  <1>5. \A f \in 1 .. level : f < level <=> f \in 1 .. level - 1
    OBVIOUS
  <1>6. \A f \in 1 .. level - 1 : f \in 1 .. level
    OBVIOUS
  <1>7. \A f \in 1 .. level : f < level <=> f # level
    OBVIOUS
  <1> QED BY <1>1, <1>2, <1>3, <1>4, <1>5, <1>6, <1>7 DEF Outermost

LEMMA StackedAroundElse ==
  ASSUME NEW lines, Len(lines) \in Nat, NEW n \in Nat, n + 1 <= Len(lines),
         NEW level \in Nat \ {0}, NEW stack, Stacked(lines, n, level, stack),
         Depth(lines, n) = level, lines[n + 1].kind \in {"ElseIf", "Else"}
  PROVE  Around(lines, n + 1) = Inside(lines, stack[level - 1])
  <1>1. Depth(lines, n + 1) = level
    BY DepthNext
  <1>2. Earlier(lines, n + 1) = Group(lines, n, level)
    BY <1>1, EarlierNext
  <1>3. n + 1 \in Headers(lines)
    BY DEF Headers
  <1>4. ASSUME NEW k \in Open(lines, n)
        PROVE  k \in Earlier(lines, n + 1) <=> Depth(lines, k) = level
    BY <1>2 DEF Group, Open
  <1>5. ASSUME NEW k \in Open(lines, n)
        PROVE  Depth(lines, k) <= level
    BY OpenDepth
  <1>6. \A k : k \in Around(lines, n + 1) <=> k \in Open(lines, n) /\ Depth(lines, k) # level
    BY <1>1, <1>3, <1>4, <1>5, AroundNext
  <1>7. \A k : k \in Around(lines, n + 1) <=> k \in Inside(lines, stack[level - 1])
    BY <1>6, StackedOuter
  <1> QED BY <1>7

LEMMA StackedElse ==
  ASSUME NEW lines, Len(lines) \in Nat, NEW n \in Nat, n + 1 <= Len(lines),
         NEW level \in Nat \ {0}, NEW stack, Stacked(lines, n, level, stack),
         Depth(lines, n) = level, lines[n + 1].kind \in {"ElseIf", "Else"},
         NEW s, s[0] = 0, s[level] = n + 1, \A e \in 1 .. level - 1 : s[e] = stack[e]
  PROVE  Stacked(lines, n + 1, level, s)
  <1>3. /\ s[0] = 0 /\ s[level] = n + 1
        /\ \A e \in 1 .. level - 1 : s[e] = stack[e]
    OBVIOUS
  <1>4. Around(lines, n + 1) = Inside(lines, stack[level - 1])
    BY StackedAroundElse
  <1>5. Inside(lines, stack[level - 1]) = Outermost(stack, level - 1)
    BY StackedLess
  <1>6. n + 1 \in Headers(lines)
    BY DEF Headers
  <1>7. Depth(lines, n + 1) = level
    BY DepthNext
  <1>8. \A e \in 1 .. level : e \in 1 .. level - 1 \/ e = level
    OBVIOUS
  <1>9. Outermost(s, level) = Outermost(stack, level - 1) \cup {n + 1}
    <2>1. \A e \in 1 .. level - 1 : e \in 1 .. level
      OBVIOUS
    <2>2. level \in 1 .. level
      OBVIOUS
    <2> QED BY <1>3, <1>8, <2>1, <2>2 DEF Outermost
  <1>10. Inside(lines, n + 1) = Outermost(s, level)
    <2>1. n + 1 # 0
      OBVIOUS
    <2> QED BY <1>4, <1>5, <1>9, <2>1, Zenon DEF Inside
  <1>11. Open(lines, n + 1) = Outermost(s, level)
    <2>1. \A k : k \in Open(lines, n + 1) <=> k \in Around(lines, n + 1) \cup {n + 1}
      BY <1>6, OpenNext
    <2> QED BY <1>4, <1>5, <1>9, <2>1
  <1>12. ASSUME NEW e \in 1 .. level - 1
         PROVE  /\ s[e] \in Headers(lines) /\ s[e] <= n + 1
                /\ Depth(lines, s[e]) = e
                /\ Inside(lines, s[e]) = Outermost(s, e)
    <2>1. \A f \in 1 .. e : f \in 1 .. level - 1
      OBVIOUS
    <2>2. Outermost(s, e) = Outermost(stack, e)
      BY <1>3, <2>1 DEF Outermost
    <2>3. s[e] = stack[e] /\ stack[e] \in Nat /\ e \in 1 .. level
      BY <1>3 DEF Stacked, Headers
    <2>4. /\ stack[e] \in Headers(lines) /\ stack[e] <= n /\ Depth(lines, stack[e]) = e
          /\ Inside(lines, stack[e]) = Outermost(stack, e)
      BY <2>3 DEF Stacked
    <2> QED BY <2>2, <2>3, <2>4
  <1>13. \A e \in 1 .. level :
           /\ s[e] \in Headers(lines) /\ s[e] <= n + 1
           /\ Depth(lines, s[e]) = e
           /\ Inside(lines, s[e]) = Outermost(s, e)
    BY <1>3, <1>6, <1>7, <1>8, <1>10, <1>12
  <1> QED BY <1>3, <1>11, <1>13 DEF Stacked

LEMMA StackedEndIf ==
  ASSUME NEW lines, Len(lines) \in Nat, NEW n \in Nat, n + 1 <= Len(lines),
         NEW level \in Nat \ {0}, NEW stack, Stacked(lines, n, level, stack),
         Depth(lines, n) = level, lines[n + 1].kind = "EndIf"
  PROVE  Stacked(lines, n + 1, level - 1, stack)
  <1>1. Depth(lines, n + 1) = level - 1
    BY DepthNext
  <1>2. n + 1 \notin Headers(lines)
    BY DEF Headers
  <1>3. ASSUME NEW k
        PROVE  k \in Open(lines, n + 1) <=> k \in Inside(lines, stack[level - 1])
    <2>1. k \in Open(lines, n + 1) <=> k \in Open(lines, n) /\ Depth(lines, k) <= level - 1
      <3>1. k \in Open(lines, n + 1) <=> k \in Around(lines, n + 1)
        BY <1>2, OpenNext
      <3>2. k \in Around(lines, n + 1) <=> k \in Open(lines, n) /\ Depth(lines, k) <= level - 1
        BY <1>1, <1>2, AroundNext
      <3> QED BY <3>1, <3>2
    <2>2. k \in Open(lines, n) => (Depth(lines, k) <= level - 1 <=> Depth(lines, k) < level)
      <3>1. k \in Open(lines, n) => k \in Nat /\ Depth(lines, k) \in Int
        BY OpenDepth, DepthIsInt
      <3> QED BY <3>1
    <2> QED BY <2>1, <2>2, StackedOuter
  <1>4. Open(lines, n + 1) = Outermost(stack, level - 1)
    <2>1. Inside(lines, stack[level - 1]) = Outermost(stack, level - 1)
      BY StackedLess
    <2> QED BY <1>3, <2>1
  <1>5. ASSUME NEW e \in 1 .. level - 1 PROVE e \in 1 .. level /\ stack[e] <= n + 1
    <2>1. e \in 1 .. level
      OBVIOUS
    <2>2. stack[e] \in Nat /\ stack[e] <= n
      BY <2>1 DEF Stacked, Headers
    <2> QED BY <2>1, <2>2
  <1> QED BY <1>4, <1>5 DEF Stacked

(* The conditions open behind line n: opener[e] is the IF of the one at    *)
(* depth e, and branches[i] lists its blocks so far.                       *)
Grouped(lines, n, level, opener, branches) ==
  \A e \in 1 .. level :
    /\ opener[e] \in 1 .. n
    /\ lines[opener[e]].kind = "If"
    /\ Depth(lines, opener[e]) = e
    /\ Group(lines, n, e) = ElementsOf(branches[opener[e]])

LEMMA GroupStays ==
  ASSUME NEW lines, Len(lines) \in Nat, NEW n \in Nat, n + 1 <= Len(lines),
         NEW e \in Nat, e <= Depth(lines, n + 1),
         n + 1 \notin Headers(lines) \/ Depth(lines, n + 1) # e
  PROVE  Group(lines, n + 1, e) = Group(lines, n, e)
  <1>1. Depth(lines, n + 1) >= e
    BY DepthIsInt
  <1>2. \A j : j \in Group(lines, n + 1, e) <=> j \in Group(lines, n, e)
    BY <1>1, GroupNext
  <1> QED BY <1>2

LEMMA GroupedStays ==
  ASSUME NEW lines, Len(lines) \in Nat, NEW n \in Nat, n + 1 <= Len(lines),
         NEW level \in Nat, NEW opener, NEW branches,
         Grouped(lines, n, level, opener, branches), Depth(lines, n) = level,
         lines[n + 1].kind \notin {"If", "EndIf", "ElseIf", "Else"},
         NEW b, \A k \in 1 .. n : lines[k].kind = "If" => b[k] = branches[k]
  PROVE  Grouped(lines, n + 1, level, opener, b)
  <1>1. Depth(lines, n + 1) = level /\ n + 1 \notin Headers(lines)
    BY DepthNext DEF Headers
  <1>2. ASSUME NEW e \in 1 .. level
        PROVE  Group(lines, n + 1, e) = Group(lines, n, e)
    <2>1. e \in Nat /\ e <= Depth(lines, n + 1)
      BY <1>1
    <2> QED BY <1>1, <2>1, GroupStays
  <1> QED BY <1>2 DEF Grouped

(* What the line of an If adds: o and b are opener and branches behind it. *)
OpensGroup(lines, n, level, opener, branches, o, b) ==
  /\ o[level + 1] = n + 1 /\ \A e \in 1 .. level : o[e] = opener[e]
  /\ b[n + 1] = <<n + 1>>
  /\ \A k \in 1 .. n : lines[k].kind = "If" => b[k] = branches[k]

LEMMA GroupedIf ==
  ASSUME NEW lines, Len(lines) \in Nat, NEW n \in Nat, n + 1 <= Len(lines),
         NEW level \in Nat, NEW opener, NEW branches,
         Grouped(lines, n, level, opener, branches), Depth(lines, n) = level,
         lines[n + 1].kind = "If", NEW o, NEW b,
         OpensGroup(lines, n, level, opener, branches, o, b)
  PROVE  Grouped(lines, n + 1, level + 1, o, b)
  <1>0. /\ o[level + 1] = n + 1 /\ \A e \in 1 .. level : o[e] = opener[e]
        /\ b[n + 1] = <<n + 1>>
        /\ \A k \in 1 .. n : lines[k].kind = "If" => b[k] = branches[k]
    BY Zenon DEF OpensGroup
  <1>1. Depth(lines, n + 1) = level + 1
    BY DepthNext
  <1>2. ASSUME NEW e \in 1 .. level
        PROVE  Group(lines, n + 1, e) = Group(lines, n, e)
    <2>1. e \in Nat /\ e <= Depth(lines, n + 1) /\ Depth(lines, n + 1) # e
      BY <1>1
    <2> QED BY <2>1, GroupStays
  <1>3. ASSUME NEW e \in 1 .. level
        PROVE  /\ o[e] \in 1 .. n + 1 /\ lines[o[e]].kind = "If" /\ Depth(lines, o[e]) = e
               /\ Group(lines, n + 1, e) = ElementsOf(b[o[e]])
    <2>1. /\ opener[e] \in 1 .. n /\ lines[opener[e]].kind = "If"
          /\ Depth(lines, opener[e]) = e
          /\ Group(lines, n, e) = ElementsOf(branches[opener[e]])
      BY DEF Grouped
    <2>2. o[e] = opener[e] /\ b[opener[e]] = branches[opener[e]] /\ opener[e] \in 1 .. n + 1
      BY <1>0, <2>1
    <2> QED BY <1>2, <2>1, <2>2
  <1>4. ASSUME NEW j PROVE j \in Group(lines, n + 1, level + 1) <=> j = n + 1
    <2>1. j \notin Group(lines, n, level + 1)
      <3>1. ASSUME j \in Group(lines, n, level + 1) PROVE FALSE
        <4>1. j \in 1 .. n /\ Depth(lines, j) = level + 1
              /\ \A m \in j + 1 .. n : Depth(lines, m) >= level + 1
          BY <3>1 DEF Group, Headers
        <4>2. j # n
          BY <4>1
        <4>3. n \in j + 1 .. n
          BY <4>1, <4>2
        <4>4. Depth(lines, n) >= level + 1
          BY <4>1, <4>3
        <4> QED BY <4>4
      <3> QED BY <3>1
    <2>2. n + 1 \in Headers(lines)
      BY DEF Headers
    <2> QED BY <1>1, <2>1, <2>2, GroupNext
  <1>5. Group(lines, n + 1, level + 1) = ElementsOf(b[n + 1])
    <2>1. PICK s : s = <<n + 1>>
      OBVIOUS
    <2>2. Len(s) = 1 /\ s[1] = n + 1
      BY <2>1
    <2>3. ElementsOf(s) = {n + 1}
      BY <2>2 DEF ElementsOf
    <2> QED BY <1>0, <1>4, <2>1, <2>3
  <1>6. n + 1 \in 1 .. n + 1
    OBVIOUS
  <1>7. \A e \in 1 .. level + 1 : e \in 1 .. level \/ e = level + 1
    OBVIOUS
  <1>8. ASSUME NEW e \in 1 .. level + 1
        PROVE  /\ o[e] \in 1 .. n + 1 /\ lines[o[e]].kind = "If" /\ Depth(lines, o[e]) = e
               /\ Group(lines, n + 1, e) = ElementsOf(b[o[e]])
    <2>1. CASE e \in 1 .. level
      BY <1>3, <2>1
    <2>2. CASE e = level + 1
      BY <1>0, <1>1, <1>5, <1>6, <2>2
    <2> QED BY <1>7, <2>1, <2>2
  <1> QED BY <1>8 DEF Grouped

LEMMA GroupedElse ==
  ASSUME NEW lines, Len(lines) \in Nat, NEW n \in Nat, n + 1 <= Len(lines),
         NEW level \in Nat \ {0}, NEW opener, NEW branches,
         Grouped(lines, n, level, opener, branches), Depth(lines, n) = level,
         lines[n + 1].kind \in {"ElseIf", "Else"},
         IsList(branches[opener[level]]),
         NEW b, b[opener[level]] = Append(branches[opener[level]], n + 1),
         \A k \in 1 .. n : k # opener[level] => b[k] = branches[k]
  PROVE  Grouped(lines, n + 1, level, opener, b)
  <1>1. Depth(lines, n + 1) = level
    BY DepthNext
  <1>2. ASSUME NEW e \in 1 .. level - 1
        PROVE  /\ Group(lines, n + 1, e) = Group(lines, n, e)
               /\ b[opener[e]] = branches[opener[e]]
    <2>1. e \in Nat /\ e <= Depth(lines, n + 1) /\ Depth(lines, n + 1) # e /\ e \in 1 .. level
          /\ level \in 1 .. level
      BY <1>1
    <2>2. opener[e] # opener[level] /\ opener[e] \in 1 .. n
      BY <1>1, <2>1 DEF Grouped
    <2> QED BY <2>1, <2>2, GroupStays
  <1>3. Group(lines, n + 1, level) = ElementsOf(b[opener[level]])
    <2>1. Group(lines, n, level) = ElementsOf(branches[opener[level]])
      BY DEF Grouped
    <2>2. ElementsOf(b[opener[level]]) = ElementsOf(branches[opener[level]]) \cup {n + 1}
      BY AppendElements
    <2>3. n + 1 \in Headers(lines)
      BY DEF Headers
    <2>4. \A j : j \in Group(lines, n + 1, level) <=> j \in Group(lines, n, level) \/ j = n + 1
      BY <1>1, <2>3, GroupNext
    <2>5. Group(lines, n + 1, level) = Group(lines, n, level) \cup {n + 1}
      BY <2>4
    <2> QED BY <2>1, <2>2, <2>5, Zenon
  <1>4. ASSUME NEW e \in 1 .. level
        PROVE  /\ opener[e] \in 1 .. n + 1 /\ lines[opener[e]].kind = "If"
               /\ Depth(lines, opener[e]) = e
               /\ Group(lines, n + 1, e) = ElementsOf(b[opener[e]])
    <2>1. /\ opener[e] \in 1 .. n /\ lines[opener[e]].kind = "If"
          /\ Depth(lines, opener[e]) = e
          /\ Group(lines, n, e) = ElementsOf(branches[opener[e]])
      BY DEF Grouped
    <2>2. e = level \/ e \in 1 .. level - 1
      OBVIOUS
    <2>3. opener[e] \in 1 .. n + 1
      BY <2>1
    <2> QED BY <1>2, <1>3, <2>1, <2>2, <2>3
  <1> QED BY <1>4 DEF Grouped

LEMMA GroupedEndIf ==
  ASSUME NEW lines, Len(lines) \in Nat, NEW n \in Nat, n + 1 <= Len(lines),
         NEW level \in Nat \ {0}, NEW opener, NEW branches,
         Grouped(lines, n, level, opener, branches), Depth(lines, n) = level,
         lines[n + 1].kind = "EndIf"
  PROVE  Grouped(lines, n + 1, level - 1, opener, branches)
  <1>1. Depth(lines, n + 1) = level - 1 /\ n + 1 \notin Headers(lines)
    BY DepthNext DEF Headers
  <1>2. ASSUME NEW e \in 1 .. level - 1
        PROVE  /\ Group(lines, n + 1, e) = Group(lines, n, e)
               /\ e \in 1 .. level
    <2>1. e \in Nat /\ e <= Depth(lines, n + 1) /\ e \in 1 .. level
      BY <1>1
    <2> QED BY <1>1, <2>1, GroupStays
  <1> QED BY <1>2 DEF Grouped

-----------------------------------------------------------------------------
(***************************************************************************)
(* The arrays of an install block: they grow, and keep their types.        *)
(***************************************************************************)
IsArray(x) ==
  /\ x = [type |-> x.type, elems |-> x.elems]
  /\ IsList(x.elems)
  /\ x.type \in {"SISFileDescription", "SISController", "SISIf", "SISElseIf"}

(* An array aborts when a field of another type is added to it; a          *)
(* controller read from a file has no type of its own here.                *)
Typed(x) == x.type # "SISController" =>
              \A k \in 1 .. Len(x.elems) : x.elems[k].id = x.type

Tree(arrays) ==
  IsList(arrays) /\ \A a \in 1 .. Len(arrays) : IsArray(arrays[a]) /\ Typed(arrays[a])

(* The elements of all arrays of a type. *)
InArrays(arrays, type) ==
  UNION {ElementsOf(arrays[a].elems) : a \in {x \in 1 .. Len(arrays) : arrays[x].type = type}}

Points(arrays, p, type) == p \in 1 .. Len(arrays) /\ arrays[p].type = type

(* Every pointer into the first points to the same kind of array in the    *)
(* second.                                                                 *)
Grows(arrays, more) ==
  /\ Len(arrays) <= Len(more)
  /\ \A a \in 1 .. Len(arrays) : more[a].type = arrays[a].type

LEMMA PointsGrow ==
  ASSUME NEW arrays, NEW more, Tree(arrays), Tree(more), Grows(arrays, more),
         NEW p, NEW type, Points(arrays, p, type)
  PROVE  Points(more, p, type)
  <1>1. Len(arrays) \in Nat /\ Len(more) \in Nat
    BY DEF Tree, IsList
  <1> QED BY <1>1 DEF Points, Grows

LEMMA InArraysIs ==
  ASSUME NEW arrays, NEW type, NEW e
  PROVE  e \in InArrays(arrays, type) <=>
           \E a \in 1 .. Len(arrays) : arrays[a].type = type /\ e \in ElementsOf(arrays[a].elems)
  BY Zenon DEF InArrays

(* SISArray::AddElement. *)
LEMMA AddToIs ==
  ASSUME NEW arrays, Tree(arrays), NEW p, NEW type, Points(arrays, p, type), NEW e,
         type # "SISController" => e.id = type
  PROVE  /\ Tree(AddTo(arrays, p, e))
         /\ Len(AddTo(arrays, p, e)) = Len(arrays)
         /\ Grows(arrays, AddTo(arrays, p, e))
         /\ InArrays(AddTo(arrays, p, e), type) = InArrays(arrays, type) \cup {e}
         /\ \A t : t # type => InArrays(AddTo(arrays, p, e), t) = InArrays(arrays, t)
  <1>1. /\ IsList(arrays) /\ Len(arrays) \in Nat /\ p \in 1 .. Len(arrays)
        /\ IsArray(arrays[p]) /\ Typed(arrays[p]) /\ arrays[p].type = type
    BY DEF Tree, IsList, Points
  <1>2. PICK x : x = [type |-> type, elems |-> Append(arrays[p].elems, e)]
    OBVIOUS
  <1>3. PICK b : b = AddTo(arrays, p, e)
    OBVIOUS
  <1>4. b = [arrays EXCEPT ![p] = x]
    <2>1. b = [arrays EXCEPT ![p] = [arrays[p] EXCEPT !.elems = Append(@, e)]]
      BY <1>3, Zenon DEF AddTo
    <2>2. PICK y : y = arrays[p]
      OBVIOUS
    <2>3. y = [type |-> y.type, elems |-> y.elems] /\ y.type = type
      BY <1>1, <2>2 DEF IsArray
    <2>4. [y EXCEPT !.elems = Append(@, e)] = [type |-> type, elems |-> Append(y.elems, e)]
      BY <2>3
    <2> QED BY <1>2, <2>1, <2>2, <2>4
  <1>5. IsList(arrays[p].elems)
    BY <1>1 DEF IsArray
  <1>6. /\ x.type = type /\ x.elems = Append(arrays[p].elems, e)
        /\ x = [type |-> x.type, elems |-> x.elems]
        /\ type \in {"SISFileDescription", "SISController", "SISIf", "SISElseIf"}
    BY <1>1, <1>2 DEF IsArray
  <1>7. IsArray(x)
    BY <1>5, <1>6, AppendIs DEF IsArray
  <1>8. ElementsOf(x.elems) = ElementsOf(arrays[p].elems) \cup {e}
    BY <1>5, <1>6, AppendElements
  <1>9. Typed(x)
    <2> SUFFICES ASSUME type # "SISController", NEW k \in 1 .. Len(x.elems)
                 PROVE  x.elems[k].id = type
      BY <1>6 DEF Typed
    <2>1. x.elems[k] \in ElementsOf(x.elems)
      BY DEF ElementsOf
    <2>2. \A z \in ElementsOf(arrays[p].elems) : z.id = type
      BY <1>1 DEF Typed, ElementsOf
    <2> QED BY <1>8, <2>1, <2>2
  <1>10. /\ IsList(b) /\ Len(b) = Len(arrays) /\ b[p] = x
         /\ \A a \in 1 .. Len(arrays) : a # p => b[a] = arrays[a]
    <2>1. PICK s : s = arrays
      OBVIOUS
    <2>2. IsList(s) /\ p \in 1 .. Len(s)
      BY <1>1, <2>1
    <2>3. b = [s EXCEPT ![p] = x]
      BY <1>4, <2>1
    <2>4. Len(s) \in Nat /\ s = [a \in 1 .. Len(s) |-> s[a]]
      BY <2>2 DEF IsList
    <2>5. /\ b = [a \in 1 .. Len(s) |-> b[a]]
          /\ b[p] = x
          /\ \A a \in 1 .. Len(s) : a # p => b[a] = s[a]
      BY <2>2, <2>3, <2>4
    <2>6. IsList(b) /\ Len(b) = Len(s)
      BY <2>4, <2>5, FunctionIsList
    <2> QED BY <2>1, <2>5, <2>6
  <1>11. Tree(b)
    BY <1>7, <1>9, <1>10 DEF Tree
  <1>12. Grows(arrays, b)
    BY <1>1, <1>6, <1>10 DEF Grows
  <1>13. InArrays(b, type) = InArrays(arrays, type) \cup {e}
    <2>1. ASSUME NEW z \in InArrays(b, type)
          PROVE  z \in InArrays(arrays, type) \cup {e}
      <3>1. PICK a \in 1 .. Len(b) : b[a].type = type /\ z \in ElementsOf(b[a].elems)
        BY InArraysIs
      <3>2. CASE a = p
        <4>1. z \in ElementsOf(arrays[p].elems) \cup {e}
          BY <1>8, <1>10, <3>1, <3>2
        <4> QED BY <1>1, <4>1, InArraysIs
      <3>3. CASE a # p
        <4>1. a \in 1 .. Len(arrays) /\ b[a] = arrays[a]
          BY <1>10, <3>1, <3>3
        <4> QED BY <3>1, <4>1, InArraysIs
      <3> QED BY <3>2, <3>3
    <2>2. ASSUME NEW z \in InArrays(arrays, type)
          PROVE  z \in InArrays(b, type)
      <3>1. PICK a \in 1 .. Len(arrays) : arrays[a].type = type /\ z \in ElementsOf(arrays[a].elems)
        BY InArraysIs
      <3>2. b[a].type = type /\ z \in ElementsOf(b[a].elems) /\ a \in 1 .. Len(b)
        <4>1. CASE a = p
          BY <1>6, <1>8, <1>10, <3>1, <4>1
        <4>2. CASE a # p
          BY <1>10, <3>1, <4>2
        <4> QED BY <4>1, <4>2
      <3> QED BY <3>2, InArraysIs
    <2>3. e \in InArrays(b, type)
      <3>1. p \in 1 .. Len(b) /\ b[p].type = type /\ e \in ElementsOf(b[p].elems)
        BY <1>1, <1>6, <1>8, <1>10
      <3> QED BY <3>1, InArraysIs
    <2> QED BY <2>1, <2>2, <2>3
  <1>14. ASSUME NEW t, t # type
         PROVE  InArrays(b, t) = InArrays(arrays, t)
    <2>1. ASSUME NEW z
          PROVE  z \in InArrays(b, t) <=> z \in InArrays(arrays, t)
      BY <1>1, <1>6, <1>10, <1>14, InArraysIs
    <2> QED BY <2>1
  <1> QED
    BY <1>3, <1>10, <1>11, <1>12, <1>13, <1>14

(* New arrays, empty, behind the ones that are there. *)
NewArrays(s) ==
  /\ IsList(s)
  /\ \A a \in 1 .. Len(s) : /\ IsArray(s[a])
                            /\ s[a].elems = << >>

LEMMA AddArrays ==
  ASSUME NEW arrays, Tree(arrays), NEW s, NewArrays(s)
  PROVE  /\ Tree(arrays \o s)
         /\ Len(arrays \o s) = Len(arrays) + Len(s)
         /\ Grows(arrays, arrays \o s)
         /\ \A t : InArrays(arrays \o s, t) = InArrays(arrays, t)
         /\ \A a \in 1 .. Len(s) : Points(arrays \o s, Len(arrays) + a, s[a].type)
  <1>1. IsList(arrays) /\ IsList(s) /\ Len(arrays) \in Nat /\ Len(s) \in Nat
    BY DEF Tree, NewArrays, IsList
  <1>2. PICK b : b = arrays \o s
    OBVIOUS
  <1>3. /\ IsList(b) /\ Len(b) = Len(arrays) + Len(s)
        /\ \A i \in 1 .. Len(arrays) : b[i] = arrays[i]
        /\ \A i \in 1 .. Len(s) : b[Len(arrays) + i] = s[i]
    BY <1>1, <1>2, ConcatIs
  <1>4. \A i \in 1 .. Len(b) : \/ i \in 1 .. Len(arrays)
                               \/ i - Len(arrays) \in 1 .. Len(s) /\ Len(arrays) + (i - Len(arrays)) = i
    BY <1>1, <1>3
  <1>5. \A i \in 1 .. Len(s) : Len(arrays) + i \in 1 .. Len(b)
    BY <1>1, <1>3
  <1>6. \A i \in 1 .. Len(arrays) : i \in 1 .. Len(b)
    BY <1>1, <1>3
  <1>7. \A a \in 1 .. Len(s) : IsArray(s[a]) /\ Typed(s[a]) /\ ElementsOf(s[a].elems) = {}
    BY EmptyList DEF NewArrays, Typed, ElementsOf
  <1>8. \A a \in 1 .. Len(b) : \/ a \in 1 .. Len(arrays) /\ b[a] = arrays[a]
                               \/ \E c \in 1 .. Len(s) : b[a] = s[c]
    BY <1>3, <1>4
  <1>9. Tree(b)
    BY <1>3, <1>7, <1>8 DEF Tree
  <1>10. Grows(arrays, b)
    BY <1>1, <1>3 DEF Grows
  <1>11. ASSUME NEW t PROVE InArrays(b, t) = InArrays(arrays, t)
    <2>1. ASSUME NEW z \in InArrays(b, t) PROVE z \in InArrays(arrays, t)
      <3>1. PICK a \in 1 .. Len(b) : b[a].type = t /\ z \in ElementsOf(b[a].elems)
        BY InArraysIs
      <3>2. a \in 1 .. Len(arrays) /\ b[a] = arrays[a]
        BY <1>7, <1>8, <3>1
      <3> QED BY <3>1, <3>2, InArraysIs
    <2>2. ASSUME NEW z \in InArrays(arrays, t) PROVE z \in InArrays(b, t)
      <3>1. PICK a \in 1 .. Len(arrays) : arrays[a].type = t /\ z \in ElementsOf(arrays[a].elems)
        BY InArraysIs
      <3>2. a \in 1 .. Len(b) /\ b[a] = arrays[a]
        BY <1>3, <1>6
      <3> QED BY <3>1, <3>2, InArraysIs
    <2> QED BY <2>1, <2>2
  <1>12. \A a \in 1 .. Len(s) : Points(b, Len(arrays) + a, s[a].type)
    BY <1>3, <1>5 DEF Points
  <1> QED
    BY <1>2, <1>3, <1>9, <1>10, <1>11, <1>12

LEMMA GrowsTwice ==
  ASSUME NEW x, NEW y, NEW z, Tree(x), Tree(y), Tree(z), Grows(x, y), Grows(y, z)
  PROVE  Grows(x, z)
  <1>1. Len(x) \in Nat /\ Len(y) \in Nat /\ Len(z) \in Nat
    BY DEF Tree, IsList
  <1> QED BY <1>1 DEF Grows

(* The arrays that the generator begins with. *)
LEMMA NewArrayIs ==
  /\ NewArrays(<<NewArray("SISElseIf")>>)
  /\ Len(<<NewArray("SISElseIf")>>) = 1
  /\ <<NewArray("SISElseIf")>>[1].type = "SISElseIf"
  <1>1. PICK x : x = NewArray("SISElseIf")
    OBVIOUS
  <1>2. IsArray(x) /\ x.elems = << >> /\ x.type = "SISElseIf"
    BY <1>1, EmptyList DEF NewArray, IsArray
  <1> QED BY <1>1, <1>2, OneIs DEF NewArrays

LEMMA BlockArraysIs ==
  /\ NewArrays(BlockArrays)
  /\ Len(BlockArrays) = 3
  /\ BlockArrays[1].type = "SISFileDescription"
  /\ BlockArrays[2].type = "SISController"
  /\ BlockArrays[3].type = "SISIf"
  <1>1. ASSUME NEW t \in {"SISFileDescription", "SISController", "SISIf"},
               NEW x, x = NewArray(t)
        PROVE  IsArray(x) /\ x.elems = << >> /\ x.type = t
    BY <1>1, EmptyList DEF NewArray, IsArray
  <1>2. PICK x : x = NewArray("SISFileDescription")
    OBVIOUS
  <1>3. PICK y : y = NewArray("SISController")
    OBVIOUS
  <1>4. PICK z : z = NewArray("SISIf")
    OBVIOUS
  <1>5. BlockArrays = <<x, y, z>>
    BY <1>2, <1>3, <1>4 DEF BlockArrays
  <1>6. PICK s : s = <<x, y, z>>
    OBVIOUS
  <1>7. IsList(s) /\ Len(s) = 3 /\ s[1] = x /\ s[2] = y /\ s[3] = z
    BY <1>6 DEF IsList
  <1>8. \A a \in 1 .. 3 : a \in {1, 2, 3}
    OBVIOUS
  <1>9. NewArrays(s)
    BY <1>1, <1>2, <1>3, <1>4, <1>7, <1>8 DEF NewArrays
  <1> QED BY <1>1, <1>2, <1>3, <1>4, <1>5, <1>6, <1>7, <1>9

(* The arrays that a package begins with. *)
LEMMA FirstBlock ==
  /\ Tree(BlockArrays) /\ Len(BlockArrays) = 3
  /\ \A t : InArrays(BlockArrays, t) = {}
  /\ Points(BlockArrays, 1, "SISFileDescription")
  /\ Points(BlockArrays, 2, "SISController")
  /\ Points(BlockArrays, 3, "SISIf")
  <1>1. PICK b : b = BlockArrays
    OBVIOUS
  <1>2. /\ NewArrays(b) /\ Len(b) = 3 /\ b[1].type = "SISFileDescription"
        /\ b[2].type = "SISController" /\ b[3].type = "SISIf"
    BY <1>1, BlockArraysIs
  <1>3. \A a \in 1 .. Len(b) : IsArray(b[a]) /\ Typed(b[a]) /\ ElementsOf(b[a].elems) = {}
    BY <1>2, EmptyList DEF NewArrays, Typed, ElementsOf
  <1>4. Tree(b)
    BY <1>2, <1>3 DEF Tree, NewArrays
  <1>5. \A t : InArrays(b, t) = {}
    <2>1. ASSUME NEW t, NEW z \in InArrays(b, t) PROVE FALSE
      BY <1>3, <2>1, InArraysIs
    <2> QED BY <2>1
  <1> QED BY <1>1, <1>2, <1>4, <1>5 DEF Points

(* A block, and the chain of ELSEIF blocks around level of them. *)
BlockAt(arrays, block) ==
  /\ Points(arrays, block.files, "SISFileDescription")
  /\ Points(arrays, block.embedded, "SISController")
  /\ Points(arrays, block.ifs, "SISIf")

ChainAt(arrays, p, level) ==
  /\ p \in 0 .. Len(arrays)
  /\ level > 0 => Points(arrays, p, "SISElseIf")

StackShape(stacks) ==
  /\ stacks = [files |-> stacks.files, embedded |-> stacks.embedded,
               ifs   |-> stacks.ifs,   elseIfs  |-> stacks.elseIfs]
  /\ IsList(stacks.files) /\ IsList(stacks.embedded)
  /\ IsList(stacks.ifs) /\ IsList(stacks.elseIfs)
  /\ Len(stacks.embedded) = Len(stacks.files)
  /\ Len(stacks.ifs) = Len(stacks.files)
  /\ Len(stacks.elseIfs) = Len(stacks.files)

Level(stacks) == Len(stacks.files)

BlockOf(stacks, i) ==
  [files |-> stacks.files[i], embedded |-> stacks.embedded[i], ifs |-> stacks.ifs[i]]

(* The pointers that are kept, seen in arrays that may have grown. *)
Pointers(arrays, cur, stacks) ==
  /\ BlockAt(arrays, cur)
  /\ ChainAt(arrays, cur.elseIfs, Level(stacks))
  /\ \A i \in 1 .. Level(stacks) : /\ BlockAt(arrays, BlockOf(stacks, i))
                                   /\ ChainAt(arrays, stacks.elseIfs[i], i - 1)

-----------------------------------------------------------------------------
(* The four stacks. *)
LEMMA FrontIs ==
  ASSUME NEW s, IsList(s), Len(s) > 0
  PROVE  /\ IsList(Front(s))
         /\ Len(Front(s)) = Len(s) - 1
         /\ \A i \in 1 .. Len(s) - 1 : Front(s)[i] = s[i]
         /\ Last(s) = s[Len(s)]
         /\ Append(Front(s), Last(s)) = s
  <1>1. Len(s) \in Nat /\ Len(s) - 1 \in Nat
    BY DEF IsList
  <1>2. PICK f : f = Front(s)
    OBVIOUS
  <1>3. f = [i \in 1 .. Len(s) - 1 |-> s[i]]
    BY <1>1, <1>2 DEF Front
  <1>4. f = [i \in 1 .. Len(s) - 1 |-> f[i]] /\ \A i \in 1 .. Len(s) - 1 : f[i] = s[i]
    BY <1>3
  <1>5. IsList(f) /\ Len(f) = Len(s) - 1
    BY <1>1, <1>4, FunctionIsList
  <1>6. PICK e : e = Last(s)
    OBVIOUS
  <1>7. e = s[Len(s)]
    BY <1>6 DEF Last
  <1>8. PICK a : a = Append(f, e)
    OBVIOUS
  <1>9. /\ IsList(a) /\ Len(a) = Len(s) /\ a[Len(s)] = e
        /\ \A i \in 1 .. Len(s) - 1 : a[i] = f[i]
    BY <1>1, <1>5, <1>8, AppendIs
  <1>10. \A i \in 1 .. Len(s) : i \in 1 .. Len(s) - 1 \/ i = Len(s)
    BY <1>1
  <1>11. \A i \in 1 .. Len(a) : a[i] = s[i]
    BY <1>4, <1>7, <1>9, <1>10
  <1>12. a = s
    BY <1>9, <1>11, ListsEqual
  <1> QED BY <1>2, <1>4, <1>5, <1>6, <1>7, <1>8, <1>12

(* IF: the arrays around the new block are pushed. *)
PushAll(s, cur) == [Push(s, cur) EXCEPT !.elseIfs = Append(@, cur.elseIfs)]

PopAll(s) == [Pop(s) EXCEPT !.elseIfs = Front(@)]

LEMMA PushIs ==
  ASSUME NEW s, StackShape(s), NEW cur, NEW t, t = PushAll(s, cur)
  PROVE  /\ StackShape(t) /\ Level(s) \in Nat /\ Level(t) = Level(s) + 1
         /\ \A i \in 1 .. Level(s) : /\ BlockOf(t, i) = BlockOf(s, i)
                                     /\ t.elseIfs[i] = s.elseIfs[i]
         /\ BlockOf(t, Level(s) + 1) =
              [files |-> cur.files, embedded |-> cur.embedded, ifs |-> cur.ifs]
         /\ t.elseIfs[Level(s) + 1] = cur.elseIfs
  <1>1. PICK a : a = s.files
    OBVIOUS
  <1>2. PICK b : b = s.embedded
    OBVIOUS
  <1>3. PICK c : c = s.ifs
    OBVIOUS
  <1>4. PICK d : d = s.elseIfs
    OBVIOUS
  <1>5. /\ s = [files |-> a, embedded |-> b, ifs |-> c, elseIfs |-> d]
        /\ IsList(a) /\ IsList(b) /\ IsList(c) /\ IsList(d)
        /\ Len(b) = Len(a) /\ Len(c) = Len(a) /\ Len(d) = Len(a) /\ Len(a) \in Nat
    BY <1>1, <1>2, <1>3, <1>4 DEF StackShape, IsList
  <1>6. PICK a1 : a1 = Append(a, cur.files)
    OBVIOUS
  <1>7. PICK b1 : b1 = Append(b, cur.embedded)
    OBVIOUS
  <1>8. PICK c1 : c1 = Append(c, cur.ifs)
    OBVIOUS
  <1>9. PICK d1 : d1 = Append(d, cur.elseIfs)
    OBVIOUS
  <1>10. t = [files |-> a1, embedded |-> b1, ifs |-> c1, elseIfs |-> d1]
    BY <1>5, <1>6, <1>7, <1>8, <1>9 DEF PushAll, Push
  <1>11. /\ IsList(a1) /\ Len(a1) = Len(a) + 1 /\ a1[Len(a) + 1] = cur.files
         /\ \A i \in 1 .. Len(a) : a1[i] = a[i]
    BY <1>5, <1>6, AppendIs
  <1>12. /\ IsList(b1) /\ Len(b1) = Len(a) + 1 /\ b1[Len(a) + 1] = cur.embedded
         /\ \A i \in 1 .. Len(a) : b1[i] = b[i]
    BY <1>5, <1>7, AppendIs
  <1>13. /\ IsList(c1) /\ Len(c1) = Len(a) + 1 /\ c1[Len(a) + 1] = cur.ifs
         /\ \A i \in 1 .. Len(a) : c1[i] = c[i]
    BY <1>5, <1>8, AppendIs
  <1>14. /\ IsList(d1) /\ Len(d1) = Len(a) + 1 /\ d1[Len(a) + 1] = cur.elseIfs
         /\ \A i \in 1 .. Len(a) : d1[i] = d[i]
    BY <1>5, <1>9, AppendIs
  <1>15. t.files = a1 /\ t.embedded = b1 /\ t.ifs = c1 /\ t.elseIfs = d1
    BY <1>10
  <1>16. StackShape(t) /\ Level(t) = Level(s) + 1 /\ Level(s) \in Nat /\ Level(s) = Len(a)
    BY <1>1, <1>5, <1>10, <1>11, <1>12, <1>13, <1>14, <1>15 DEF StackShape, Level
  <1>17. \A i \in 1 .. Level(s) : BlockOf(t, i) = BlockOf(s, i) /\ t.elseIfs[i] = s.elseIfs[i]
    BY <1>1, <1>2, <1>3, <1>4, <1>11, <1>12, <1>13, <1>14, <1>15, <1>16 DEF BlockOf
  <1>18. BlockOf(t, Level(s) + 1) =
           [files |-> cur.files, embedded |-> cur.embedded, ifs |-> cur.ifs]
    BY <1>11, <1>12, <1>13, <1>15, <1>16 DEF BlockOf
  <1> QED BY <1>14, <1>15, <1>16, <1>17, <1>18

(* ENDIF takes what IF pushed; ELSEIF and ELSE take it and push it again.  *)
LEMMA PopIs ==
  ASSUME NEW s, StackShape(s), Level(s) > 0, NEW t, t = PopAll(s)
  PROVE  /\ StackShape(t) /\ Level(s) \in Nat /\ Level(t) = Level(s) - 1
         /\ \A i \in 1 .. Level(s) - 1 : /\ BlockOf(t, i) = BlockOf(s, i)
                                         /\ t.elseIfs[i] = s.elseIfs[i]
         /\ Tops(s) = BlockOf(s, Level(s))
         /\ Last(s.elseIfs) = s.elseIfs[Level(s)]
         /\ Push(Pop(s), Tops(s)) = s
  <1>1. PICK a : a = s.files
    OBVIOUS
  <1>2. PICK b : b = s.embedded
    OBVIOUS
  <1>3. PICK c : c = s.ifs
    OBVIOUS
  <1>4. PICK d : d = s.elseIfs
    OBVIOUS
  <1>5. /\ s = [files |-> a, embedded |-> b, ifs |-> c, elseIfs |-> d]
        /\ IsList(a) /\ IsList(b) /\ IsList(c) /\ IsList(d)
        /\ Len(b) = Len(a) /\ Len(c) = Len(a) /\ Len(d) = Len(a) /\ Len(a) \in Nat
        /\ Level(s) = Len(a) /\ Len(a) > 0
    BY <1>1, <1>2, <1>3, <1>4 DEF StackShape, IsList, Level
  <1>6. PICK a1 : a1 = Front(a)
    OBVIOUS
  <1>7. PICK b1 : b1 = Front(b)
    OBVIOUS
  <1>8. PICK c1 : c1 = Front(c)
    OBVIOUS
  <1>9. PICK d1 : d1 = Front(d)
    OBVIOUS
  <1>10. t = [files |-> a1, embedded |-> b1, ifs |-> c1, elseIfs |-> d1]
    BY <1>5, <1>6, <1>7, <1>8, <1>9 DEF PopAll, Pop
  <1>11. /\ IsList(a1) /\ Len(a1) = Len(a) - 1 /\ \A i \in 1 .. Len(a) - 1 : a1[i] = a[i]
         /\ Last(a) = a[Len(a)] /\ Append(a1, Last(a)) = a
    BY <1>5, <1>6, FrontIs
  <1>12. /\ IsList(b1) /\ Len(b1) = Len(a) - 1 /\ \A i \in 1 .. Len(a) - 1 : b1[i] = b[i]
         /\ Last(b) = b[Len(a)] /\ Append(b1, Last(b)) = b
    BY <1>5, <1>7, FrontIs
  <1>13. /\ IsList(c1) /\ Len(c1) = Len(a) - 1 /\ \A i \in 1 .. Len(a) - 1 : c1[i] = c[i]
         /\ Last(c) = c[Len(a)] /\ Append(c1, Last(c)) = c
    BY <1>5, <1>8, FrontIs
  <1>14. /\ IsList(d1) /\ Len(d1) = Len(a) - 1 /\ \A i \in 1 .. Len(a) - 1 : d1[i] = d[i]
         /\ Last(d) = d[Len(a)]
    BY <1>5, <1>9, FrontIs
  <1>15. t.files = a1 /\ t.embedded = b1 /\ t.ifs = c1 /\ t.elseIfs = d1
    BY <1>10
  <1>16. StackShape(t) /\ Level(t) = Level(s) - 1
    BY <1>5, <1>10, <1>11, <1>12, <1>13, <1>14, <1>15 DEF StackShape, Level
  <1>17. ASSUME NEW i \in 1 .. Level(s) - 1
         PROVE  BlockOf(t, i) = BlockOf(s, i) /\ t.elseIfs[i] = s.elseIfs[i]
    <2>1. i \in 1 .. Len(a) - 1
      BY <1>5
    <2>2. /\ t.files[i] = s.files[i] /\ t.embedded[i] = s.embedded[i]
          /\ t.ifs[i] = s.ifs[i] /\ t.elseIfs[i] = s.elseIfs[i]
      BY <1>1, <1>2, <1>3, <1>4, <1>11, <1>12, <1>13, <1>14, <1>15, <2>1
    <2> QED BY <2>2 DEF BlockOf
  <1>18. Tops(s) = [files |-> Last(a), embedded |-> Last(b), ifs |-> Last(c)]
    BY <1>1, <1>2, <1>3 DEF Tops
  <1>19. Tops(s) = BlockOf(s, Level(s))
    BY <1>1, <1>2, <1>3, <1>5, <1>11, <1>12, <1>13, <1>18 DEF BlockOf
  <1>20. PICK p : p = Pop(s)
    OBVIOUS
  <1>21. p = [s EXCEPT !.files = a1, !.embedded = b1, !.ifs = c1]
    BY <1>1, <1>2, <1>3, <1>6, <1>7, <1>8, <1>20 DEF Pop
  <1>22. p = [files |-> a1, embedded |-> b1, ifs |-> c1, elseIfs |-> d]
    BY <1>5, <1>21
  <1>23. Push(p, Tops(s)) = [p EXCEPT !.files    = Append(a1, Last(a)),
                                      !.embedded = Append(b1, Last(b)),
                                      !.ifs      = Append(c1, Last(c))]
    BY <1>18, <1>22 DEF Push
  <1>24. Push(p, Tops(s)) = [p EXCEPT !.files = a, !.embedded = b, !.ifs = c]
    BY <1>11, <1>12, <1>13, <1>23
  <1>25. [p EXCEPT !.files = a, !.embedded = b, !.ifs = c]
           = [files |-> a, embedded |-> b, ifs |-> c, elseIfs |-> d]
    <2>1. PICK r : r = [p EXCEPT !.files = a, !.embedded = b, !.ifs = c]
      OBVIOUS
    <2>2. r = [f \in DOMAIN p |-> IF f = "ifs" THEN c ELSE IF f = "embedded" THEN b
                                  ELSE IF f = "files" THEN a ELSE p[f]]
      BY <1>22, <2>1
    <2>3. r = [f \in {"files", "embedded", "ifs", "elseIfs"} |->
                 IF f = "ifs" THEN c ELSE IF f = "embedded" THEN b
                 ELSE IF f = "files" THEN a ELSE d]
      BY <1>22, <2>2
    <2>4. r = [files |-> a, embedded |-> b, ifs |-> c, elseIfs |-> d]
      BY <2>3
    <2> QED BY <2>1, <2>4
  <1>26. Push(Pop(s), Tops(s)) = s
    BY <1>5, <1>20, <1>24, <1>25
  <1> QED BY <1>4, <1>5, <1>14, <1>16, <1>17, <1>19, <1>26

LEMMA BlockGrows ==
  ASSUME NEW x, NEW y, Tree(x), Tree(y), Grows(x, y), NEW block, BlockAt(x, block)
  PROVE  BlockAt(y, block)
  BY PointsGrow DEF BlockAt

LEMMA ChainGrows ==
  ASSUME NEW x, NEW y, Tree(x), Tree(y), Grows(x, y), NEW p, NEW level, ChainAt(x, p, level)
  PROVE  ChainAt(y, p, level)
  <1>1. Len(x) \in Nat /\ Len(y) \in Nat /\ Len(x) <= Len(y)
    BY DEF Tree, IsList, Grows
  <1>2. p \in 0 .. Len(y)
    BY <1>1 DEF ChainAt
  <1> QED BY <1>2, PointsGrow DEF ChainAt

LEMMA PointersGrow ==
  ASSUME NEW x, NEW y, Tree(x), Tree(y), Grows(x, y),
         NEW cur, NEW stacks, Pointers(x, cur, stacks)
  PROVE  Pointers(y, cur, stacks)
  <1>1. BlockAt(y, cur) /\ ChainAt(y, cur.elseIfs, Level(stacks))
    BY BlockGrows, ChainGrows DEF Pointers
  <1>2. ASSUME NEW i \in 1 .. Level(stacks)
        PROVE  BlockAt(y, BlockOf(stacks, i)) /\ ChainAt(y, stacks.elseIfs[i], i - 1)
    BY BlockGrows, ChainGrows DEF Pointers
  <1> QED BY <1>1, <1>2 DEF Pointers

(* Arrays that grow, by blocks and branches but not by files or packages.  *)
Leads(x, y) ==
  /\ Tree(y) /\ Grows(x, y)
  /\ \A t \in {"SISFileDescription", "SISController"} : InArrays(y, t) = InArrays(x, t)

LEMMA LeadsSelf ==
  ASSUME NEW x, Tree(x)
  PROVE  Leads(x, x)
  BY DEF Leads, Grows, Tree, IsList

LEMMA LeadsOn ==
  ASSUME NEW x, NEW y, NEW z, Tree(x), Leads(x, y), Leads(y, z)
  PROVE  Leads(x, z)
  BY GrowsTwice DEF Leads

LEMMA LeadsBranch ==
  ASSUME NEW x, Tree(x), NEW p, NEW type \in {"SISIf", "SISElseIf"}, Points(x, p, type),
         NEW e, e.id = type
  PROVE  Leads(x, AddTo(x, p, e))
  BY AddToIs DEF Leads

LEMMA LeadsNew ==
  ASSUME NEW x, Tree(x), NEW s, NewArrays(s)
  PROVE  Leads(x, x \o s)
  BY AddArrays DEF Leads

(* The arrays of a new block. *)
LEMMA BlockIsNew ==
  ASSUME NEW x, Tree(x), NEW y, y = x \o BlockArrays
  PROVE  Leads(x, y) /\ BlockAt(y, InstallBlock(Len(x)))
  <1>1. Leads(x, y)
    BY LeadsNew, BlockArraysIs
  <1>2. \A a \in 1 .. 3 : Points(y, Len(x) + a, BlockArrays[a].type)
    BY AddArrays, BlockArraysIs
  <1>3. 1 \in 1 .. 3 /\ 2 \in 1 .. 3 /\ 3 \in 1 .. 3
    OBVIOUS
  <1>4. /\ InstallBlock(Len(x)).files = Len(x) + 1
        /\ InstallBlock(Len(x)).embedded = Len(x) + 2
        /\ InstallBlock(Len(x)).ifs = Len(x) + 3
    BY DEF InstallBlock
  <1> QED BY <1>1, <1>2, <1>3, <1>4, BlockArraysIs DEF BlockAt

LEMMA ChainIsNew ==
  ASSUME NEW x, Tree(x), NEW y, y = x \o <<NewArray("SISElseIf")>>
  PROVE  Leads(x, y) /\ Len(y) = Len(x) + 1 /\ Points(y, Len(x) + 1, "SISElseIf")
  <1>1. 1 \in 1 .. 1
    OBVIOUS
  <1> QED BY <1>1, LeadsNew, AddArrays, NewArrayIs

LEMMA AppendJoins ==
  ASSUME NEW s, IsList(s), NEW e
  PROVE  Append(s, e) = s \o <<e>>
  <1>1. PICK a : a = Append(s, e)
    OBVIOUS
  <1>2. PICK b : b = s \o <<e>>
    OBVIOUS
  <1>3. /\ IsList(a) /\ Len(a) = Len(s) + 1 /\ a[Len(s) + 1] = e
        /\ \A i \in 1 .. Len(s) : a[i] = s[i]
    BY <1>1, AppendIs
  <1>4. PICK t : t = <<e>>
    OBVIOUS
  <1>5. IsList(t) /\ Len(t) = 1 /\ t[1] = e
    BY <1>4, OneIs
  <1>6. /\ IsList(b) /\ Len(b) = Len(s) + 1
        /\ \A i \in 1 .. Len(s) : b[i] = s[i]
        /\ \A i \in 1 .. 1 : b[Len(s) + i] = t[i]
    BY <1>2, <1>4, <1>5, ConcatIs
  <1>7. b[Len(s) + 1] = e
    BY <1>5, <1>6
  <1>8. Len(s) \in Nat
    BY DEF IsList
  <1>9. \A i \in 1 .. Len(s) + 1 : i \in 1 .. Len(s) \/ i = Len(s) + 1
    BY <1>8
  <1>10. a = b
    BY <1>3, <1>6, <1>7, <1>9, ListsEqual
  <1> QED BY <1>1, <1>2, <1>10

-----------------------------------------------------------------------------
(***************************************************************************)
(* The tree of blocks that the lines describe, found in the arrays.  For   *)
(* line k, or the top, 0:                                                  *)
(*   base[k]      is where the arrays of its block begin,                  *)
(*   home[k]      the line of the block that its file or condition is in,  *)
(*   chain[k]     the ELSEIF array of the condition that it opens,         *)
(*   branches[k]  the lines of the blocks of that condition, in order.     *)
(***************************************************************************)
Blocks(lines, n) ==
  {0} \cup {k \in 1 .. n : lines[k].kind \in {"If", "ElseIf", "Else", "LanguageFile"}}

Openers(lines, n, languages) ==
  {i \in 1 .. n : \/ lines[i].kind = "If"
                  \/ /\ lines[i].kind = "LanguageFile"
                     /\ LanguageSlot(lines, i, languages) = 1}

CondOf(lines, k, languages) ==
  IF lines[k].kind = "Else" THEN Always
  ELSE IF lines[k].kind = "LanguageFile"
       THEN LanguageIs(languages[LanguageSlot(lines, k, languages)])
       ELSE lines[k].cond

(* The blocks of the same condition before block k. *)
Prior(lines, k, languages) ==
  IF lines[k].kind = "LanguageFile"
  THEN {j \in 1 .. k - 1 : j > k - LanguageSlot(lines, k, languages)}
  ELSE Earlier(lines, k)

(* The arrays of different blocks are different arrays. *)
Allocated(arrays, lines, n, languages, base, chain) ==
  /\ base[0] = 0
  /\ \A k \in Blocks(lines, n) : base[k] \in Nat /\ BlockAt(arrays, InstallBlock(base[k]))
  /\ \A j, k \in Blocks(lines, n) : j < k => base[j] < base[k]
  /\ \A i \in Openers(lines, n, languages) : Points(arrays, chain[i], "SISElseIf")
  /\ \A i, j \in Openers(lines, n, languages) : i # j => chain[i] # chain[j]

Homes(lines, n, languages, home) ==
  \A m \in 1 .. n :
    m \in Openers(lines, n, languages) \/ lines[m].kind = "File" =>
      /\ home[m] \in 0 .. m - 1
      /\ home[m] \in {0} \cup Headers(lines)
      /\ Around(lines, m) = Inside(lines, home[m])

(* A language block has a branch for each language, in order. *)
Slotted(lines, languages, i, x, k) ==
  /\ lines[k].kind = "LanguageFile" <=> lines[i].kind = "LanguageFile"
  /\ lines[k].kind = "LanguageFile" => LanguageSlot(lines, k, languages) = x

(* Block k is number x of the condition of line i. *)
IsBranch(lines, n, languages, branches, i, x, k) ==
  /\ k \in Blocks(lines, n) /\ i <= k
  /\ Slotted(lines, languages, i, x, k)
  /\ Around(lines, k) = Around(lines, i)
  /\ Prior(lines, k, languages) = {branches[i][y] : y \in 1 .. x - 1}

Branch(lines, languages, base, k) ==
  SISElseIf(CondOf(lines, k, languages), InstallBlock(base[k]))

Branched(arrays, lines, n, languages, base, chain, branches) ==
  /\ \A i \in Openers(lines, n, languages) :
       /\ IsList(branches[i]) /\ branches[i][1] = i
       /\ Len(branches[i]) = Len(arrays[chain[i]].elems) + 1
       /\ \A x \in 1 .. Len(branches[i]) :
            /\ IsBranch(lines, n, languages, branches, i, x, branches[i][x])
            /\ x > 1 => arrays[chain[i]].elems[x - 1]
                          = Branch(lines, languages, base, branches[i][x])
  /\ \A k \in Blocks(lines, n) : k # 0 =>
       \E i \in Openers(lines, n, languages) : k \in ElementsOf(branches[i])

Opening(lines, languages, base, chain, i) ==
  SISIf(CondOf(lines, i, languages), InstallBlock(base[i]), chain[i])

(* All conditions but a pending one are in the block of their home. *)
Joined(arrays, lines, n, languages, base, chain, home, pending) ==
  \A p \in Blocks(lines, n) :
    ElementsOf(arrays[base[p] + 3].elems) =
      {Opening(lines, languages, base, chain, i) :
         i \in {j \in Openers(lines, n, languages) : j # pending /\ home[j] = p}}

(* The lines of which block p itself holds the file. *)
HeldBy(lines, n, home, p) ==
  {j \in 1 .. n : \/ lines[j].kind = "File" /\ home[j] = p
                  \/ lines[j].kind = "LanguageFile" /\ j = p}

Holding(arrays, lines, n, base, home, what) ==
  \A p \in Blocks(lines, n) :
    BlockInstalls(arrays, InstallBlock(base[p])) =
      {what[m] : m \in HeldBy(lines, n, home, p)}

-----------------------------------------------------------------------------
(* Exactly one array changes when an element is added. *)
LEMMA AddToElems ==
  ASSUME NEW arrays, Tree(arrays), NEW p \in 1 .. Len(arrays), NEW e
  PROVE  /\ AddTo(arrays, p, e)[p].elems = Append(arrays[p].elems, e)
         /\ \A a \in 1 .. Len(arrays) : a # p => AddTo(arrays, p, e)[a] = arrays[a]
         /\ IsList(arrays[p].elems)
  <1>1. arrays = [a \in 1 .. Len(arrays) |-> arrays[a]] /\ IsArray(arrays[p])
    BY DEF Tree, IsList
  <1>2. arrays[p] = [type |-> arrays[p].type, elems |-> arrays[p].elems]
        /\ IsList(arrays[p].elems)
    BY <1>1 DEF IsArray
  <1>3. PICK s : s = arrays
    OBVIOUS
  <1>4. PICK t : t = Append(s[p].elems, e)
    OBVIOUS
  <1>5. AddTo(arrays, p, e) = [s EXCEPT ![p] = [s[p] EXCEPT !.elems = t]]
    BY <1>3, <1>4, Zenon DEF AddTo
  <1>6. PICK x : x = [s[p] EXCEPT !.elems = t]
    OBVIOUS
  <1>7. x.elems = t
    <2>1. PICK y : y = s[p]
      OBVIOUS
    <2>2. y = [type |-> y.type, elems |-> y.elems]
      BY <1>2, <1>3, <2>1
    <2>3. x = [y EXCEPT !.elems = t]
      BY <1>6, <2>1
    <2> QED BY <2>2, <2>3
  <1>8. p \in 1 .. Len(s) /\ s = [a \in 1 .. Len(s) |-> s[a]]
    BY <1>1, <1>3
  <1>9. PICK b : b = [s EXCEPT ![p] = x]
    OBVIOUS
  <1>10. b[p] = x /\ \A a \in 1 .. Len(s) : a # p => b[a] = s[a]
    BY <1>8, <1>9
  <1>11. AddTo(arrays, p, e) = b
    BY <1>5, <1>6, <1>9
  <1> QED BY <1>2, <1>3, <1>4, <1>7, <1>10, <1>11

LEMMA ConcatArrays ==
  ASSUME NEW arrays, Tree(arrays), NEW s, NewArrays(s)
  PROVE  /\ \A a \in 1 .. Len(arrays) : (arrays \o s)[a] = arrays[a]
         /\ \A a \in 1 .. Len(s) : (arrays \o s)[Len(arrays) + a].elems = << >>
  <1>1. IsList(arrays) /\ IsList(s) /\ \A a \in 1 .. Len(s) : s[a].elems = << >>
    BY DEF Tree, NewArrays
  <1> QED BY <1>1, ConcatIs

(* What the elements of a block tell the installer. *)
LEMMA BlockInstallsIs ==
  ASSUME NEW arrays, NEW b, NEW x
  PROVE  x \in BlockInstalls(arrays, b) <=>
           \/ \E d \in ElementsOf(arrays[b.files].elems) : x = [file |-> d.hash]
           \/ \E e \in ElementsOf(arrays[b.embedded].elems) :
                x = [package |-> FindElement(e, "SISInfo").uid]
  BY Zenon DEF BlockInstalls, ElementsOf

(* Arrays of the same elements install the same. *)
LEMMA SameInstalls ==
  ASSUME NEW arrays, NEW more, NEW b,
         more[b.files].elems = arrays[b.files].elems,
         more[b.embedded].elems = arrays[b.embedded].elems
  PROVE  BlockInstalls(more, b) = BlockInstalls(arrays, b)
  <1>1. \A x : x \in BlockInstalls(more, b) <=> x \in BlockInstalls(arrays, b)
    BY BlockInstallsIs
  <1> QED BY <1>1

LEMMA NoInstalls ==
  ASSUME NEW arrays, NEW b,
         arrays[b.files].elems = << >>, arrays[b.embedded].elems = << >>
  PROVE  BlockInstalls(arrays, b) = {}
  <1>1. ElementsOf(<< >>) = {}
    BY EmptyList DEF ElementsOf
  <1>2. \A x : x \notin BlockInstalls(arrays, b)
    BY <1>1, BlockInstallsIs
  <1> QED BY <1>2

LEMMA FileInstalls ==
  ASSUME NEW arrays, NEW more, NEW b, NEW d, IsList(arrays[b.files].elems),
         more[b.files].elems = Append(arrays[b.files].elems, d),
         more[b.embedded].elems = arrays[b.embedded].elems
  PROVE  BlockInstalls(more, b) = BlockInstalls(arrays, b) \cup {[file |-> d.hash]}
  <1>1. PICK F : F = ElementsOf(arrays[b.files].elems)
    OBVIOUS
  <1>2. PICK E : E = ElementsOf(arrays[b.embedded].elems)
    OBVIOUS
  <1>3. ElementsOf(more[b.files].elems) = F \cup {d}
    BY <1>1, AppendElements
  <1>4. ElementsOf(more[b.embedded].elems) = E
    BY <1>2
  <1>5. ASSUME NEW x
        PROVE  x \in BlockInstalls(more, b) <=>
                 x \in BlockInstalls(arrays, b) \/ x = [file |-> d.hash]
    <2>1. x \in BlockInstalls(more, b) <=>
            \/ \E z \in F \cup {d} : x = [file |-> z.hash]
            \/ \E e \in E : x = [package |-> FindElement(e, "SISInfo").uid]
      <3>1. x \in BlockInstalls(more, b) <=>
              \/ \E z \in ElementsOf(more[b.files].elems) : x = [file |-> z.hash]
              \/ \E e \in ElementsOf(more[b.embedded].elems) :
                   x = [package |-> FindElement(e, "SISInfo").uid]
        BY BlockInstallsIs
      <3> QED BY <1>3, <1>4, <3>1, Zenon
    <2>2. x \in BlockInstalls(arrays, b) <=>
            \/ \E z \in F : x = [file |-> z.hash]
            \/ \E e \in E : x = [package |-> FindElement(e, "SISInfo").uid]
      BY <1>1, <1>2, BlockInstallsIs
    <2> QED BY <2>1, <2>2, Zenon
  <1> QED BY <1>5, Zenon

LEMMA PackageInstalls ==
  ASSUME NEW arrays, NEW more, NEW b, NEW d, IsList(arrays[b.embedded].elems),
         more[b.files].elems = arrays[b.files].elems,
         more[b.embedded].elems = Append(arrays[b.embedded].elems, d),
         NEW u, u = FindElement(d, "SISInfo").uid
  PROVE  BlockInstalls(more, b) = BlockInstalls(arrays, b) \cup {[package |-> u]}
  <1>1. PICK F : F = ElementsOf(arrays[b.files].elems)
    OBVIOUS
  <1>2. PICK E : E = ElementsOf(arrays[b.embedded].elems)
    OBVIOUS
  <1>3. ElementsOf(more[b.embedded].elems) = E \cup {d}
    BY <1>2, AppendElements
  <1>4. ElementsOf(more[b.files].elems) = F
    BY <1>1
  <1>5. ASSUME NEW x
        PROVE  x \in BlockInstalls(more, b) <=>
                 x \in BlockInstalls(arrays, b) \/ x = [package |-> u]
    <2>1. x \in BlockInstalls(more, b) <=>
            \/ \E z \in F : x = [file |-> z.hash]
            \/ \E e \in E \cup {d} : x = [package |-> FindElement(e, "SISInfo").uid]
      <3>1. x \in BlockInstalls(more, b) <=>
              \/ \E z \in ElementsOf(more[b.files].elems) : x = [file |-> z.hash]
              \/ \E e \in ElementsOf(more[b.embedded].elems) :
                   x = [package |-> FindElement(e, "SISInfo").uid]
        BY BlockInstallsIs
      <3> QED BY <1>3, <1>4, <3>1, Zenon
    <2>2. x \in BlockInstalls(arrays, b) <=>
            \/ \E z \in F : x = [file |-> z.hash]
            \/ \E e \in E : x = [package |-> FindElement(e, "SISInfo").uid]
      BY <1>1, <1>2, BlockInstallsIs
    <2> QED BY <2>1, <2>2, Zenon
  <1> QED BY <1>5, Zenon

-----------------------------------------------------------------------------
(***************************************************************************)
(* One more line.                                                          *)
(***************************************************************************)
Opens(lines, m, languages) ==
  \/ lines[m].kind = "If"
  \/ lines[m].kind = "LanguageFile" /\ LanguageSlot(lines, m, languages) = 1

LEMMA BlocksNext ==
  ASSUME NEW lines, NEW n \in Nat, NEW k
  PROVE  /\ k \in Blocks(lines, n + 1) <=>
              \/ k \in Blocks(lines, n)
              \/ k = n + 1 /\ lines[n + 1].kind \in {"If", "ElseIf", "Else", "LanguageFile"}
         /\ k \in Blocks(lines, n) => k \in 0 .. n
         /\ 0 \in Blocks(lines, n)
  <1>1. \A j : j \in 1 .. n + 1 <=> j \in 1 .. n \/ j = n + 1
    OBVIOUS
  <1>2. n + 1 # 0 /\ 0 \in 0 .. n /\ \A j \in 1 .. n : j \in 0 .. n
    OBVIOUS
  <1> QED BY <1>1, <1>2 DEF Blocks

LEMMA OpenersNext ==
  ASSUME NEW lines, NEW n \in Nat, NEW languages, NEW i
  PROVE  /\ i \in Openers(lines, n + 1, languages) <=>
              \/ i \in Openers(lines, n, languages)
              \/ i = n + 1 /\ Opens(lines, n + 1, languages)
         /\ i \in Openers(lines, n, languages) => i \in 1 .. n /\ i \in Blocks(lines, n)
  <1>1. \A j : j \in 1 .. n + 1 <=> j \in 1 .. n \/ j = n + 1
    OBVIOUS
  <1>2. i \in Openers(lines, n + 1, languages) <=>
          i \in 1 .. n + 1 /\ Opens(lines, i, languages)
    BY Zenon DEF Openers, Opens
  <1>3. i \in Openers(lines, n, languages) <=> i \in 1 .. n /\ Opens(lines, i, languages)
    BY Zenon DEF Openers, Opens
  <1>4. i \in 1 .. n /\ Opens(lines, i, languages) => i \in Blocks(lines, n)
    BY DEF Blocks, Opens
  <1> QED BY <1>1, <1>2, <1>3, <1>4

(* A new block gets arrays behind all others. *)
LEMMA AllocatedNext ==
  ASSUME NEW arrays, NEW more, Tree(arrays), Tree(more), Grows(arrays, more),
         NEW lines, NEW n \in Nat, NEW languages, NEW base, NEW chain,
         Allocated(arrays, lines, n, languages, base, chain),
         NEW b, \A k \in Blocks(lines, n) : b[k] = base[k],
         NEW c, \A i \in Openers(lines, n, languages) : c[i] = chain[i],
         n + 1 \in Blocks(lines, n + 1) =>
           /\ b[n + 1] \in Nat /\ b[n + 1] >= Len(arrays)
           /\ BlockAt(more, InstallBlock(b[n + 1])),
         n + 1 \in Openers(lines, n + 1, languages) =>
           c[n + 1] > Len(arrays) /\ Points(more, c[n + 1], "SISElseIf")
  PROVE  Allocated(more, lines, n + 1, languages, b, c)
  <1>1. Len(arrays) \in Nat
    BY DEF Tree, IsList
  <1>2. ASSUME NEW k \in Blocks(lines, n)
        PROVE  b[k] \in Nat /\ b[k] < Len(arrays) /\ BlockAt(more, InstallBlock(b[k]))
    <2>1. base[k] \in Nat /\ BlockAt(arrays, InstallBlock(base[k])) /\ b[k] = base[k]
      BY DEF Allocated
    <2>2. base[k] + 1 \in 1 .. Len(arrays)
      BY <2>1 DEF BlockAt, InstallBlock, Points
    <2>3. BlockAt(more, InstallBlock(base[k]))
      BY <2>1, BlockGrows
    <2> QED BY <1>1, <2>1, <2>2, <2>3
  <1>3. ASSUME NEW i \in Openers(lines, n, languages)
        PROVE  c[i] \in 1 .. Len(arrays) /\ Points(more, c[i], "SISElseIf")
    <2>1. Points(arrays, chain[i], "SISElseIf") /\ c[i] = chain[i]
      BY DEF Allocated
    <2> QED BY <2>1, PointsGrow DEF Points
  <1>4. \A k \in Blocks(lines, n + 1) : k \in Blocks(lines, n) \/ k = n + 1
    BY BlocksNext
  <1>5. \A i \in Openers(lines, n + 1, languages) : i \in Openers(lines, n, languages) \/ i = n + 1
    BY OpenersNext
  <1>6. \A k \in Blocks(lines, n) : k \in 0 .. n
    BY BlocksNext
  <1>7. b[0] = 0
    BY BlocksNext DEF Allocated
  <1>8. ASSUME NEW j \in Blocks(lines, n + 1), NEW k \in Blocks(lines, n + 1), j < k
        PROVE  b[j] < b[k]
    <2>1. j \in Blocks(lines, n)
      BY <1>4, <1>6, <1>8
    <2>2. CASE k \in Blocks(lines, n)
      BY <1>8, <2>1, <2>2 DEF Allocated
    <2>3. CASE k = n + 1
      BY <1>1, <1>2, <2>1, <2>3
    <2> QED BY <1>4, <2>2, <2>3
  <1>9. ASSUME NEW i \in Openers(lines, n + 1, languages),
               NEW j \in Openers(lines, n + 1, languages), i # j
        PROVE  c[i] # c[j]
    <2>1. CASE i \in Openers(lines, n, languages) /\ j \in Openers(lines, n, languages)
      BY <1>9, <2>1 DEF Allocated
    <2>2. CASE i \in Openers(lines, n, languages) /\ j = n + 1
      BY <1>1, <1>3, <2>2
    <2>3. CASE j \in Openers(lines, n, languages) /\ i = n + 1
      BY <1>1, <1>3, <2>3
    <2> QED BY <1>5, <1>9, <2>1, <2>2, <2>3
  <1>10. \A k \in Blocks(lines, n + 1) : b[k] \in Nat /\ BlockAt(more, InstallBlock(b[k]))
    BY <1>2, <1>4
  <1>11. \A i \in Openers(lines, n + 1, languages) : Points(more, c[i], "SISElseIf")
    BY <1>3, <1>5
  <1> QED BY <1>7, <1>8, <1>9, <1>10, <1>11 DEF Allocated

LEMMA HomesNext ==
  ASSUME NEW lines, NEW n \in Nat, NEW languages, NEW home, Homes(lines, n, languages, home),
         NEW h, \A m \in 1 .. n : h[m] = home[m],
         Opens(lines, n + 1, languages) \/ lines[n + 1].kind = "File" =>
           /\ h[n + 1] \in 0 .. n
           /\ h[n + 1] \in {0} \cup Headers(lines)
           /\ Around(lines, n + 1) = Inside(lines, h[n + 1])
  PROVE  Homes(lines, n + 1, languages, h)
  <1> SUFFICES ASSUME NEW m \in 1 .. n + 1,
                      m \in Openers(lines, n + 1, languages) \/ lines[m].kind = "File"
               PROVE  /\ h[m] \in 0 .. m - 1
                      /\ h[m] \in {0} \cup Headers(lines)
                      /\ Around(lines, m) = Inside(lines, h[m])
    BY DEF Homes
  <1>1. CASE m = n + 1
    <2>1. m \notin Openers(lines, n, languages)
      <3>1. m \in Openers(lines, n, languages) => m \in 1 .. n
        BY OpenersNext
      <3> QED BY <1>1, <3>1
    <2>2. Opens(lines, n + 1, languages) \/ lines[n + 1].kind = "File"
      BY <1>1, <2>1, OpenersNext
    <2>3. 0 .. m - 1 = 0 .. n
      BY <1>1
    <2> QED BY <1>1, <2>2, <2>3
  <1>2. CASE m # n + 1
    <2>1. m \in 1 .. n
      BY <1>2
    <2>2. m \in Openers(lines, n, languages) \/ lines[m].kind = "File"
      BY <1>2, OpenersNext
    <2> QED BY <2>1, <2>2 DEF Homes
  <1> QED BY <1>1, <1>2

(* The condition of line i, as Branched has it. *)
BranchesAre(arrays, lines, n, languages, base, chain, branches, i) ==
  /\ IsList(branches[i]) /\ branches[i][1] = i
  /\ Len(branches[i]) = Len(arrays[chain[i]].elems) + 1
  /\ \A x \in 1 .. Len(branches[i]) :
       /\ IsBranch(lines, n, languages, branches, i, x, branches[i][x])
       /\ x > 1 => arrays[chain[i]].elems[x - 1]
                     = Branch(lines, languages, base, branches[i][x])

LEMMA BranchedIs ==
  ASSUME NEW arrays, NEW lines, NEW n, NEW languages, NEW base, NEW chain, NEW branches
  PROVE  Branched(arrays, lines, n, languages, base, chain, branches) <=>
           /\ \A i \in Openers(lines, n, languages) :
                BranchesAre(arrays, lines, n, languages, base, chain, branches, i)
           /\ \A k \in Blocks(lines, n) : k # 0 =>
                \E i \in Openers(lines, n, languages) : k \in ElementsOf(branches[i])
  BY Zenon DEF Branched, BranchesAre

(* A condition that gets no new block. *)
LEMMA BranchesStay ==
  ASSUME NEW lines, NEW n \in Nat, NEW languages, NEW arrays, NEW base, NEW chain,
         NEW branches, NEW i,
         BranchesAre(arrays, lines, n, languages, base, chain, branches, i),
         NEW more, NEW b, \A k \in Blocks(lines, n) : b[k] = base[k],
         NEW c, c[i] = chain[i], NEW r, r[i] = branches[i],
         more[chain[i]].elems = arrays[chain[i]].elems
  PROVE  BranchesAre(more, lines, n + 1, languages, b, c, r, i)
  <1>1. PICK q : q = branches[i]
    OBVIOUS
  <1>2. PICK t : t = arrays[chain[i]].elems
    OBVIOUS
  <1>3. /\ IsList(q) /\ q[1] = i /\ Len(q) = Len(t) + 1
        /\ \A x \in 1 .. Len(q) : /\ IsBranch(lines, n, languages, branches, i, x, q[x])
                                  /\ x > 1 => t[x - 1] = Branch(lines, languages, base, q[x])
    BY <1>1, <1>2 DEF BranchesAre
  <1>4. r[i] = q /\ more[c[i]].elems = t
    BY <1>1, <1>2
  <1>5. ASSUME NEW x \in 1 .. Len(q)
        PROVE  /\ IsBranch(lines, n + 1, languages, r, i, x, q[x])
               /\ x > 1 => t[x - 1] = Branch(lines, languages, b, q[x])
    <2>1. IsBranch(lines, n, languages, branches, i, x, q[x])
      BY <1>3
    <2>2. q[x] \in Blocks(lines, n)
      BY <2>1 DEF IsBranch
    <2>3. q[x] \in Blocks(lines, n + 1)
      BY <2>2, BlocksNext
    <2>4. IsBranch(lines, n + 1, languages, r, i, x, q[x])
      BY <1>1, <1>4, <2>1, <2>3, ZenonT(30) DEF IsBranch
    <2>5. Branch(lines, languages, b, q[x]) = Branch(lines, languages, base, q[x])
      BY <2>2 DEF Branch
    <2> QED BY <1>3, <2>4, <2>5
  <1> QED BY <1>3, <1>4, <1>5 DEF BranchesAre

(* A condition is opened. *)
LEMMA BranchesBegin ==
  ASSUME NEW lines, NEW n \in Nat, NEW languages, Opens(lines, n + 1, languages),
         Prior(lines, n + 1, languages) = {},
         NEW more, NEW b, NEW c, more[c[n + 1]].elems = << >>,
         NEW r, r[n + 1] = <<n + 1>>
  PROVE  BranchesAre(more, lines, n + 1, languages, b, c, r, n + 1)
  <1>1. PICK q : q = <<n + 1>>
    OBVIOUS
  <1>2. IsList(q) /\ Len(q) = 1 /\ q[1] = n + 1
    BY <1>1, OneIs
  <1>3. n + 1 \in Blocks(lines, n + 1) /\ n + 1 <= n + 1
    <2>1. lines[n + 1].kind \in {"If", "ElseIf", "Else", "LanguageFile"}
      BY DEF Opens
    <2>2. n + 1 \in 1 .. n + 1 /\ n + 1 <= n + 1
      OBVIOUS
    <2> QED BY <2>1, <2>2, Zenon DEF Blocks
  <1>4. PICK none : none = << >>
    OBVIOUS
  <1>5. Len(none) = 0 /\ more[c[n + 1]].elems = none
    BY <1>4, EmptyList
  <1>6. IsBranch(lines, n + 1, languages, r, n + 1, 1, n + 1)
    <2>1. {r[n + 1][y] : y \in 1 .. 1 - 1} = {}
      OBVIOUS
    <2>2. Slotted(lines, languages, n + 1, 1, n + 1)
      BY DEF Slotted, Opens
    <2> QED BY <1>3, <2>1, <2>2, Zenon DEF IsBranch
  <1>7. \A x \in 1 .. Len(q) : x = 1
    BY <1>2
  <1>8. r[n + 1] = q /\ Len(q) = Len(none) + 1 /\ ~ (1 > 1)
    BY <1>1, <1>2, <1>5
  <1> QED BY <1>2, <1>5, <1>6, <1>7, <1>8, Zenon DEF BranchesAre

(* A condition gets one more block. *)
LEMMA BranchesMore ==
  ASSUME NEW lines, NEW n \in Nat, NEW languages, NEW arrays, NEW base, NEW chain,
         NEW branches, NEW i, i <= n + 1,
         BranchesAre(arrays, lines, n, languages, base, chain, branches, i),
         IsList(arrays[chain[i]].elems),
         n + 1 \in Blocks(lines, n + 1),
         Around(lines, n + 1) = Around(lines, i),
         Prior(lines, n + 1, languages) = ElementsOf(branches[i]),
         Slotted(lines, languages, i, Len(branches[i]) + 1, n + 1),
         NEW more, NEW b, \A k \in Blocks(lines, n) : b[k] = base[k],
         NEW r, r[i] = Append(branches[i], n + 1),
         more[chain[i]].elems
           = Append(arrays[chain[i]].elems, Branch(lines, languages, b, n + 1))
  PROVE  BranchesAre(more, lines, n + 1, languages, b, chain, r, i)
  <1>1. PICK q : q = branches[i]
    OBVIOUS
  <1>2. PICK t : t = arrays[chain[i]].elems
    OBVIOUS
  <1>3. /\ IsList(q) /\ q[1] = i /\ IsList(t) /\ Len(q) = Len(t) + 1
        /\ \A x \in 1 .. Len(q) : /\ IsBranch(lines, n, languages, branches, i, x, q[x])
                                  /\ x > 1 => t[x - 1] = Branch(lines, languages, base, q[x])
    BY <1>1, <1>2 DEF BranchesAre
  <1>4. PICK q2 : q2 = Append(q, n + 1)
    OBVIOUS
  <1>5. PICK e : e = Branch(lines, languages, b, n + 1)
    OBVIOUS
  <1>6. PICK t2 : t2 = Append(t, e)
    OBVIOUS
  <1>7. r[i] = q2 /\ more[chain[i]].elems = t2
    BY <1>1, <1>2, <1>4, <1>5, <1>6
  <1>8. /\ IsList(q2) /\ Len(q2) = Len(q) + 1 /\ q2[Len(q) + 1] = n + 1
        /\ \A x \in 1 .. Len(q) : q2[x] = q[x]
    BY <1>3, <1>4, AppendIs
  <1>9. /\ Len(t2) = Len(t) + 1 /\ t2[Len(t) + 1] = e
        /\ \A x \in 1 .. Len(t) : t2[x] = t[x]
    BY <1>3, <1>6, AppendIs
  <1>10. Len(q) \in Nat /\ Len(t) \in Nat /\ Len(q) > 0 /\ Len(q2) = Len(t2) + 1
    BY <1>3, <1>8, <1>9 DEF IsList
  <1>11. q2[1] = i
    BY <1>3, <1>8, <1>10
  <1>12. ASSUME NEW x \in 1 .. Len(q)
         PROVE  /\ IsBranch(lines, n + 1, languages, r, i, x, q2[x])
                /\ x > 1 => t2[x - 1] = Branch(lines, languages, b, q2[x])
    <2>1. IsBranch(lines, n, languages, branches, i, x, q[x]) /\ q2[x] = q[x]
      BY <1>3, <1>8
    <2>2. q[x] \in Blocks(lines, n)
      BY <2>1 DEF IsBranch
    <2>3. q[x] \in Blocks(lines, n + 1)
      BY <2>2, BlocksNext
    <2>4. {r[i][y] : y \in 1 .. x - 1} = {branches[i][y] : y \in 1 .. x - 1}
      <3>1. \A y \in 1 .. x - 1 : y \in 1 .. Len(q)
        BY <1>10
      <3> QED BY <1>1, <1>7, <1>8, <3>1
    <2>5. IsBranch(lines, n + 1, languages, r, i, x, q2[x])
      BY <2>1, <2>3, <2>4, Zenon DEF IsBranch
    <2>6. Branch(lines, languages, b, q[x]) = Branch(lines, languages, base, q[x])
      BY <2>2 DEF Branch
    <2>7. x > 1 => t2[x - 1] = t[x - 1]
      <3>1. x > 1 => x - 1 \in 1 .. Len(t)
        BY <1>3, <1>10
      <3> QED BY <1>9, <3>1
    <2> QED BY <1>3, <2>1, <2>5, <2>6, <2>7
  <1>13. /\ IsBranch(lines, n + 1, languages, r, i, Len(q) + 1, n + 1)
         /\ t2[(Len(q) + 1) - 1] = Branch(lines, languages, b, n + 1)
    <2>1. {r[i][y] : y \in 1 .. (Len(q) + 1) - 1} = ElementsOf(q)
      <3>1. 1 .. (Len(q) + 1) - 1 = 1 .. Len(q)
        BY <1>10
      <3>2. {q2[y] : y \in 1 .. Len(q)} = ElementsOf(q)
        BY <1>8 DEF ElementsOf
      <3> QED BY <1>7, <3>1, <3>2
    <2>2. i <= n + 1
      OBVIOUS
    <2>3. IsBranch(lines, n + 1, languages, r, i, Len(q) + 1, n + 1)
      BY <1>1, <2>1, <2>2, Zenon DEF IsBranch
    <2>4. (Len(q) + 1) - 1 = Len(t) + 1
      BY <1>3, <1>10
    <2> QED BY <1>5, <1>9, <2>3, <2>4
  <1>14. \A x \in 1 .. Len(q2) : x \in 1 .. Len(q) \/ x = Len(q) + 1
    BY <1>8, <1>10
  <1>15. \A x \in 1 .. Len(q2) :
           /\ IsBranch(lines, n + 1, languages, r, i, x, q2[x])
           /\ x > 1 => t2[x - 1] = Branch(lines, languages, b, q2[x])
    BY <1>8, <1>12, <1>13, <1>14
  <1> QED BY <1>7, <1>8, <1>10, <1>11, <1>15, Zenon DEF BranchesAre

LEMMA BranchedStays ==
  ASSUME NEW lines, NEW n \in Nat, NEW languages, NEW arrays, NEW base, NEW chain,
         NEW branches, Branched(arrays, lines, n, languages, base, chain, branches),
         NEW more,
         \A i \in Openers(lines, n, languages) : more[chain[i]].elems = arrays[chain[i]].elems,
         lines[n + 1].kind \notin {"If", "ElseIf", "Else", "LanguageFile"}
  PROVE  Branched(more, lines, n + 1, languages, base, chain, branches)
  <1>1. \A i : i \in Openers(lines, n + 1, languages) <=> i \in Openers(lines, n, languages)
    BY OpenersNext DEF Opens
  <1>2. \A k : k \in Blocks(lines, n + 1) <=> k \in Blocks(lines, n)
    BY BlocksNext
  <1>3. ASSUME NEW i \in Openers(lines, n, languages)
        PROVE  BranchesAre(more, lines, n + 1, languages, base, chain, branches, i)
    <2>1. BranchesAre(arrays, lines, n, languages, base, chain, branches, i)
      BY BranchedIs
    <2> QED BY <2>1, BranchesStay
  <1>4. \A k \in Blocks(lines, n) : k # 0 =>
          \E i \in Openers(lines, n, languages) : k \in ElementsOf(branches[i])
    BY BranchedIs
  <1> QED BY <1>1, <1>2, <1>3, <1>4, BranchedIs, Zenon

(* Line n + 1 begins a condition.  b, c and r are the new base, chain and  *)
(* branches, and h below is the new home.                                  *)
BeginsCondition(arrays, more, lines, n, languages, base, chain, branches, b, c, r) ==
  /\ Opens(lines, n + 1, languages) /\ Prior(lines, n + 1, languages) = {}
  /\ \A k \in Blocks(lines, n) : b[k] = base[k]
  /\ \A i \in Openers(lines, n, languages) :
       /\ c[i] = chain[i] /\ r[i] = branches[i]
       /\ more[chain[i]].elems = arrays[chain[i]].elems
  /\ more[c[n + 1]].elems = << >> /\ r[n + 1] = <<n + 1>>

LEMMA BranchedOpens ==
  ASSUME NEW lines, NEW n \in Nat, NEW languages, NEW arrays, NEW base, NEW chain,
         NEW branches, Branched(arrays, lines, n, languages, base, chain, branches),
         NEW more, NEW b, NEW c, NEW r,
         BeginsCondition(arrays, more, lines, n, languages, base, chain, branches, b, c, r)
  PROVE  Branched(more, lines, n + 1, languages, b, c, r)
  <1>0. /\ Opens(lines, n + 1, languages) /\ Prior(lines, n + 1, languages) = {}
        /\ \A k \in Blocks(lines, n) : b[k] = base[k]
        /\ \A i \in Openers(lines, n, languages) :
             /\ c[i] = chain[i] /\ r[i] = branches[i]
             /\ more[chain[i]].elems = arrays[chain[i]].elems
        /\ more[c[n + 1]].elems = << >> /\ r[n + 1] = <<n + 1>>
    BY DEF BeginsCondition
  <1>1. \A i : i \in Openers(lines, n + 1, languages) <=>
                 i \in Openers(lines, n, languages) \/ i = n + 1
    BY <1>0, OpenersNext
  <1>2. \A k : k \in Blocks(lines, n + 1) => k \in Blocks(lines, n) \/ k = n + 1
    BY BlocksNext
  <1>3. ASSUME NEW i \in Openers(lines, n, languages)
        PROVE  BranchesAre(more, lines, n + 1, languages, b, c, r, i)
    <2>1. BranchesAre(arrays, lines, n, languages, base, chain, branches, i)
      BY BranchedIs
    <2>2. /\ c[i] = chain[i] /\ r[i] = branches[i]
          /\ more[chain[i]].elems = arrays[chain[i]].elems
      BY <1>0
    <2>3. \A k \in Blocks(lines, n) : b[k] = base[k]
      BY <1>0
    <2> QED BY ONLY <2>1, <2>2, <2>3, n \in Nat, BranchesStay
  <1>4. BranchesAre(more, lines, n + 1, languages, b, c, r, n + 1)
    BY <1>0, BranchesBegin
  <1>5. n + 1 \in ElementsOf(r[n + 1])
    <2>1. PICK s : s = <<n + 1>>
      OBVIOUS
    <2>2. Len(s) = 1 /\ s[1] = n + 1
      BY <2>1
    <2>3. n + 1 \in ElementsOf(s)
      BY <2>2 DEF ElementsOf
    <2> QED BY <1>0, <2>1, <2>3
  <1>6. \A k \in Blocks(lines, n) : k # 0 =>
          \E i \in Openers(lines, n, languages) : k \in ElementsOf(branches[i])
    BY BranchedIs
  <1>7. \A i \in Openers(lines, n, languages) : r[i] = branches[i]
    BY <1>0
  <1> QED BY <1>1, <1>2, <1>3, <1>4, <1>5, <1>6, <1>7, BranchedIs, Zenon

(* Line n + 1 goes on with the condition of line i. *)
GoesOnWith(arrays, more, lines, n, languages, base, chain, branches, i, b, r) ==
  /\ n + 1 \in Blocks(lines, n + 1) /\ ~ Opens(lines, n + 1, languages)
  /\ Around(lines, n + 1) = Around(lines, i)
  /\ Prior(lines, n + 1, languages) = ElementsOf(branches[i])
  /\ Slotted(lines, languages, i, Len(branches[i]) + 1, n + 1)
  /\ \A k \in Blocks(lines, n) : b[k] = base[k]
  /\ \A j \in Openers(lines, n, languages) : j # i =>
       r[j] = branches[j] /\ more[chain[j]].elems = arrays[chain[j]].elems
  /\ r[i] = Append(branches[i], n + 1)
  /\ more[chain[i]].elems
       = Append(arrays[chain[i]].elems, Branch(lines, languages, b, n + 1))

LEMMA BranchedMore ==
  ASSUME NEW lines, NEW n \in Nat, NEW languages, NEW arrays, NEW base, NEW chain,
         NEW branches, Branched(arrays, lines, n, languages, base, chain, branches),
         NEW i \in Openers(lines, n, languages), IsList(arrays[chain[i]].elems),
         NEW more, NEW b, NEW r,
         GoesOnWith(arrays, more, lines, n, languages, base, chain, branches, i, b, r)
  PROVE  Branched(more, lines, n + 1, languages, b, chain, r)
  <1>0. /\ n + 1 \in Blocks(lines, n + 1) /\ ~ Opens(lines, n + 1, languages)
        /\ Around(lines, n + 1) = Around(lines, i)
        /\ Prior(lines, n + 1, languages) = ElementsOf(branches[i])
        /\ Slotted(lines, languages, i, Len(branches[i]) + 1, n + 1)
        /\ \A k \in Blocks(lines, n) : b[k] = base[k]
        /\ \A j \in Openers(lines, n, languages) : j # i =>
             r[j] = branches[j] /\ more[chain[j]].elems = arrays[chain[j]].elems
        /\ r[i] = Append(branches[i], n + 1)
        /\ more[chain[i]].elems
             = Append(arrays[chain[i]].elems, Branch(lines, languages, b, n + 1))
    BY DEF GoesOnWith
  <1>1. \A j : j \in Openers(lines, n + 1, languages) <=> j \in Openers(lines, n, languages)
    BY <1>0, OpenersNext
  <1>2. \A k : k \in Blocks(lines, n + 1) => k \in Blocks(lines, n) \/ k = n + 1
    BY BlocksNext
  <1>3. ASSUME NEW j \in Openers(lines, n, languages), j # i
        PROVE  BranchesAre(more, lines, n + 1, languages, b, chain, r, j)
    <2>1. BranchesAre(arrays, lines, n, languages, base, chain, branches, j)
      BY BranchedIs
    <2>2. r[j] = branches[j] /\ more[chain[j]].elems = arrays[chain[j]].elems
      BY <1>0, <1>3
    <2>3. \A k \in Blocks(lines, n) : b[k] = base[k]
      BY <1>0
    <2> QED BY ONLY <2>1, <2>2, <2>3, n \in Nat, BranchesStay
  <1>4. BranchesAre(arrays, lines, n, languages, base, chain, branches, i)
    BY BranchedIs
  <1>5. i <= n + 1
    <2>1. i \in 1 .. n
      BY OpenersNext
    <2> QED BY <2>1
  <1>6. BranchesAre(more, lines, n + 1, languages, b, chain, r, i)
    <2>1. IsList(arrays[chain[i]].elems)
      OBVIOUS
    <2>2. n + 1 \in Blocks(lines, n + 1)
      BY <1>0
    <2>3. Around(lines, n + 1) = Around(lines, i)
      BY <1>0
    <2>4. Prior(lines, n + 1, languages) = ElementsOf(branches[i])
      BY <1>0
    <2>5. r[i] = Append(branches[i], n + 1)
      BY <1>0
    <2>6. more[chain[i]].elems
            = Append(arrays[chain[i]].elems, Branch(lines, languages, b, n + 1))
      BY <1>0
    <2>7. \A k \in Blocks(lines, n) : b[k] = base[k]
      BY <1>0
    <2>8. Slotted(lines, languages, i, Len(branches[i]) + 1, n + 1)
      BY <1>0
    <2> QED BY ONLY <1>4, <1>5, <2>1, <2>2, <2>3, <2>4, <2>5, <2>6, <2>7, <2>8, n \in Nat,
                    BranchesMore, ZenonT(60)
  <1>7. ElementsOf(r[i]) = ElementsOf(branches[i]) \cup {n + 1}
    BY <1>0, <1>4, AppendElements DEF BranchesAre
  <1>8. \A k \in Blocks(lines, n) : k # 0 =>
          \E j \in Openers(lines, n, languages) : k \in ElementsOf(branches[j])
    BY BranchedIs
  <1>9. \A j \in Openers(lines, n, languages) : ElementsOf(branches[j]) \subseteq ElementsOf(r[j])
    BY <1>0, <1>7
  <1>10. n + 1 \in ElementsOf(r[i])
    BY <1>7
  <1>11. \A k \in Blocks(lines, n + 1) : k # 0 =>
           \E j \in Openers(lines, n + 1, languages) : k \in ElementsOf(r[j])
    BY <1>1, <1>2, <1>8, <1>9, <1>10, Zenon
  <1>12. \A j \in Openers(lines, n + 1, languages) :
           BranchesAre(more, lines, n + 1, languages, b, chain, r, j)
    BY <1>1, <1>3, <1>6, Zenon
  <1> QED BY <1>11, <1>12, BranchedIs

(* Conditions that are put into their blocks. *)
Joins(arrays, more, lines, n, languages, base, chain, home, pending, b, c, h, late, new) ==
  /\ \A k \in Blocks(lines, n) : b[k] = base[k]
  /\ \A i \in Openers(lines, n, languages) : c[i] = chain[i] /\ h[i] = home[i]
  /\ \A i : i \in Openers(lines, n + 1, languages) /\ i # late
             <=> (i \in Openers(lines, n, languages) /\ i # pending) \/ i \in new
  /\ \A p \in Blocks(lines, n) :
       ElementsOf(more[b[p] + 3].elems) =
         ElementsOf(arrays[base[p] + 3].elems) \cup
           {Opening(lines, languages, b, c, i) : i \in {j \in new : h[j] = p}}
  /\ n + 1 \in Blocks(lines, n + 1) => more[b[n + 1] + 3].elems = << >>
  /\ \A i \in Openers(lines, n + 1, languages) : h[i] # n + 1

LEMMA JoinedNext ==
  ASSUME NEW lines, NEW n \in Nat, NEW languages, NEW arrays, NEW base, NEW chain,
         NEW home, NEW pending,
         Joined(arrays, lines, n, languages, base, chain, home, pending),
         NEW more, NEW b, NEW c, NEW h, NEW late, NEW new,
         Joins(arrays, more, lines, n, languages, base, chain, home, pending,
               b, c, h, late, new)
  PROVE  Joined(more, lines, n + 1, languages, b, c, h, late)
  <1> DEFINE In(p)  == {i \in Openers(lines, n + 1, languages) : i # late /\ h[i] = p}
             Was(p) == {i \in Openers(lines, n, languages) : i # pending /\ home[i] = p}
             New(p) == {i \in new : h[i] = p}
  <1> USE DEF Joins
  <1>1. ASSUME NEW p PROVE In(p) = Was(p) \cup New(p)
    OBVIOUS
  <1>2. ASSUME NEW i \in Openers(lines, n, languages)
        PROVE  Opening(lines, languages, b, c, i) = Opening(lines, languages, base, chain, i)
    <2>1. i \in Blocks(lines, n)
      BY OpenersNext
    <2> QED BY <2>1, Zenon DEF Opening
  <1>3. ASSUME NEW p \in Blocks(lines, n)
        PROVE  ElementsOf(more[b[p] + 3].elems) =
                 {Opening(lines, languages, b, c, i) : i \in In(p)}
    <2>1. ElementsOf(arrays[base[p] + 3].elems) =
            {Opening(lines, languages, base, chain, i) : i \in Was(p)}
      BY DEF Joined
    <2>2. ElementsOf(arrays[base[p] + 3].elems) =
            {Opening(lines, languages, b, c, i) : i \in Was(p)}
      BY <1>2, <2>1
    <2>3. ElementsOf(more[b[p] + 3].elems) =
            ElementsOf(arrays[base[p] + 3].elems) \cup
              {Opening(lines, languages, b, c, i) : i \in New(p)}
      OBVIOUS
    <2> QED BY <1>1, <2>2, <2>3
  <1>4. ASSUME n + 1 \in Blocks(lines, n + 1)
        PROVE  ElementsOf(more[b[n + 1] + 3].elems) =
                 {Opening(lines, languages, b, c, i) : i \in In(n + 1)}
    <2>1. ElementsOf(<< >>) = {}
      BY EmptyList DEF ElementsOf
    <2>2. In(n + 1) = {}
      OBVIOUS
    <2> QED BY <1>4, <2>1, <2>2
  <1>5. \A p \in Blocks(lines, n + 1) : p \in Blocks(lines, n) \/ p = n + 1
    BY BlocksNext
  <1>6. \A p \in Blocks(lines, n + 1) :
          ElementsOf(more[b[p] + 3].elems) =
            {Opening(lines, languages, b, c, i) : i \in In(p)}
    BY <1>3, <1>4, <1>5
  <1> QED BY <1>6 DEF Joined

(* A file is put into its block. *)
HoldsNext(arrays, more, lines, n, base, home, what, b, h) ==
  /\ \A k \in Blocks(lines, n) : b[k] = base[k]
  /\ \A m \in 1 .. n : h[m] = home[m]
  /\ \A p \in Blocks(lines, n) :
       BlockInstalls(more, InstallBlock(b[p])) =
         BlockInstalls(arrays, InstallBlock(base[p])) \cup
           IF lines[n + 1].kind = "File" /\ h[n + 1] = p THEN {what[n + 1]} ELSE {}
  /\ n + 1 \in Blocks(lines, n + 1) =>
       BlockInstalls(more, InstallBlock(b[n + 1])) =
         IF lines[n + 1].kind = "LanguageFile" THEN {what[n + 1]} ELSE {}

LEMMA HoldingNext ==
  ASSUME NEW lines, NEW n \in Nat, NEW languages, NEW arrays, NEW base, NEW home, NEW what,
         Holding(arrays, lines, n, base, home, what), Homes(lines, n, languages, home),
         NEW more, NEW b, NEW h, HoldsNext(arrays, more, lines, n, base, home, what, b, h)
  PROVE  Holding(more, lines, n + 1, b, h, what)
  <1> USE DEF HoldsNext
  <1>1. \A m : m \in 1 .. n + 1 <=> m \in 1 .. n \/ m = n + 1
    OBVIOUS
  <1>2. \A p \in Blocks(lines, n + 1) : p \in Blocks(lines, n) \/ p = n + 1
    BY BlocksNext
  <1>3. ASSUME NEW p \in Blocks(lines, n)
        PROVE  BlockInstalls(more, InstallBlock(b[p])) =
                 {what[m] : m \in HeldBy(lines, n + 1, h, p)}
    <2>1. p # n + 1
      <3>1. p \in 0 .. n
        BY BlocksNext
      <3> QED BY <3>1
    <2>2. HeldBy(lines, n + 1, h, p) =
            HeldBy(lines, n, home, p) \cup
              IF lines[n + 1].kind = "File" /\ h[n + 1] = p THEN {n + 1} ELSE {}
      BY <1>1, <2>1 DEF HeldBy
    <2>3. BlockInstalls(arrays, InstallBlock(base[p])) =
            {what[m] : m \in HeldBy(lines, n, home, p)}
      BY DEF Holding
    <2>4. CASE lines[n + 1].kind = "File" /\ h[n + 1] = p
      BY <2>2, <2>3, <2>4
    <2>5. CASE ~ (lines[n + 1].kind = "File" /\ h[n + 1] = p)
      BY <2>2, <2>3, <2>5
    <2> QED BY <2>4, <2>5
  <1>4. ASSUME n + 1 \in Blocks(lines, n + 1)
        PROVE  BlockInstalls(more, InstallBlock(b[n + 1])) =
                 {what[m] : m \in HeldBy(lines, n + 1, h, n + 1)}
    <2>1. \A m \in 1 .. n : lines[m].kind = "File" => h[m] # n + 1
      <3>1. \A m \in 1 .. n : lines[m].kind = "File" => home[m] \in 0 .. m - 1
        BY DEF Homes
      <3> QED BY <3>1
    <2>2. lines[n + 1].kind # "File" /\ n + 1 \notin 1 .. n
      <3>1. n + 1 \notin Blocks(lines, n)
        <4>1. n + 1 \in Blocks(lines, n) => n + 1 \in 0 .. n
          BY BlocksNext
        <4> QED BY <4>1
      <3>2. lines[n + 1].kind \in {"If", "ElseIf", "Else", "LanguageFile"}
        BY <1>4, <3>1, BlocksNext
      <3> QED BY <3>2
    <2>3. HeldBy(lines, n + 1, h, n + 1) =
            IF lines[n + 1].kind = "LanguageFile" THEN {n + 1} ELSE {}
      BY <1>1, <2>1, <2>2 DEF HeldBy
    <2> QED BY <1>4, <2>3
  <1>5. \A p \in Blocks(lines, n + 1) :
          BlockInstalls(more, InstallBlock(b[p])) =
            {what[m] : m \in HeldBy(lines, n + 1, h, p)}
    BY <1>2, <1>3, <1>4
  <1> QED BY <1>5 DEF Holding

-----------------------------------------------------------------------------
(* The arrays hold the blocks and conditions that the lines describe. *)
Skeleton(arrays, lines, n, languages, base, home, chain, branches, pending) ==
  /\ Allocated(arrays, lines, n, languages, base, chain)
  /\ Homes(lines, n, languages, home)
  /\ Branched(arrays, lines, n, languages, base, chain, branches)
  /\ Joined(arrays, lines, n, languages, base, chain, home, pending)

(* The arrays of a tree are told apart by their types. *)
LEMMA ArraysApart ==
  ASSUME NEW arrays, Tree(arrays), NEW lines, NEW n \in Nat, NEW languages, NEW base, NEW chain,
         Allocated(arrays, lines, n, languages, base, chain)
  PROVE  /\ \A p \in Blocks(lines, n) :
              /\ base[p] \in Nat
              /\ base[p] + 1 \in 1 .. Len(arrays) /\ arrays[base[p] + 1].type = "SISFileDescription"
              /\ base[p] + 2 \in 1 .. Len(arrays) /\ arrays[base[p] + 2].type = "SISController"
              /\ base[p] + 3 \in 1 .. Len(arrays) /\ arrays[base[p] + 3].type = "SISIf"
         /\ \A p, q \in Blocks(lines, n) : p # q => base[p] # base[q]
         /\ \A i \in Openers(lines, n, languages) :
              chain[i] \in 1 .. Len(arrays) /\ arrays[chain[i]].type = "SISElseIf"
         /\ \A i, j \in Openers(lines, n, languages) : i # j => chain[i] # chain[j]
  <1>1. ASSUME NEW p \in Blocks(lines, n)
        PROVE  /\ base[p] \in Nat
               /\ base[p] + 1 \in 1 .. Len(arrays) /\ arrays[base[p] + 1].type = "SISFileDescription"
               /\ base[p] + 2 \in 1 .. Len(arrays) /\ arrays[base[p] + 2].type = "SISController"
               /\ base[p] + 3 \in 1 .. Len(arrays) /\ arrays[base[p] + 3].type = "SISIf"
    BY DEF Allocated, BlockAt, InstallBlock, Points
  <1>2. ASSUME NEW p \in Blocks(lines, n), NEW q \in Blocks(lines, n), p # q
        PROVE  base[p] # base[q]
    <2>1. p \in Int /\ q \in Int
      BY BlocksNext
    <2>2. CASE p < q
      BY <1>1, <2>2 DEF Allocated
    <2>3. CASE q < p
      BY <1>1, <2>3 DEF Allocated
    <2> QED BY <1>2, <2>1, <2>2, <2>3
  <1>3. ASSUME NEW i \in Openers(lines, n, languages)
        PROVE  chain[i] \in 1 .. Len(arrays) /\ arrays[chain[i]].type = "SISElseIf"
    BY DEF Allocated, Points
  <1>4. \A i, j \in Openers(lines, n, languages) : i # j => chain[i] # chain[j]
    BY DEF Allocated
  <1> QED BY <1>1, <1>2, <1>3, <1>4

(* Arrays that changed in no IF and no ELSEIF. *)
SameConditions(arrays, more, lines, n, languages, base, chain) ==
  /\ \A p \in Blocks(lines, n) : more[base[p] + 3].elems = arrays[base[p] + 3].elems
  /\ \A i \in Openers(lines, n, languages) : more[chain[i]].elems = arrays[chain[i]].elems

LEMMA FilePut ==
  ASSUME NEW arrays, Tree(arrays), NEW lines, NEW n \in Nat, NEW languages, NEW base, NEW chain,
         Allocated(arrays, lines, n, languages, base, chain),
         NEW q \in Blocks(lines, n), NEW d,
         NEW more, more = AddTo(arrays, base[q] + 1, d)
  PROVE  /\ \A p \in Blocks(lines, n) :
              BlockInstalls(more, InstallBlock(base[p])) =
                BlockInstalls(arrays, InstallBlock(base[p])) \cup
                  IF p = q THEN {[file |-> d.hash]} ELSE {}
         /\ SameConditions(arrays, more, lines, n, languages, base, chain)
  <1>1. PICK z : z = base[q] + 1
    OBVIOUS
  <1>2. /\ z \in 1 .. Len(arrays) /\ base[q] \in Nat
        /\ arrays[z].type = "SISFileDescription"
    BY <1>1, ArraysApart
  <1>3. /\ more[z].elems = Append(arrays[z].elems, d)
        /\ \A a \in 1 .. Len(arrays) : a # z => more[a] = arrays[a]
        /\ IsList(arrays[z].elems)
    <2>1. more = AddTo(arrays, z, d)
      BY <1>1
    <2>2. z \in 1 .. Len(arrays)
      BY <1>2
    <2>3. /\ AddTo(arrays, z, d)[z].elems = Append(arrays[z].elems, d)
          /\ \A a \in 1 .. Len(arrays) : a # z => AddTo(arrays, z, d)[a] = arrays[a]
          /\ IsList(arrays[z].elems)
      BY <2>2, AddToElems
    <2> QED BY <2>1, <2>3
  <1>4. ASSUME NEW p \in Blocks(lines, n)
        PROVE  /\ p # q => more[base[p] + 1] = arrays[base[p] + 1]
               /\ more[base[p] + 2] = arrays[base[p] + 2]
               /\ more[base[p] + 3] = arrays[base[p] + 3]
    <2>1. /\ base[p] \in Nat
          /\ base[p] + 1 \in 1 .. Len(arrays)
          /\ base[p] + 2 \in 1 .. Len(arrays) /\ arrays[base[p] + 2].type = "SISController"
          /\ base[p] + 3 \in 1 .. Len(arrays) /\ arrays[base[p] + 3].type = "SISIf"
          /\ p # q => base[p] # base[q]
      BY ArraysApart
    <2>2. p # q => base[p] + 1 # z
      BY <1>1, <1>2, <2>1
    <2>3. base[p] + 2 # z /\ base[p] + 3 # z
      BY <1>2, <2>1
    <2> QED BY <1>3, <2>1, <2>2, <2>3
  <1>5. ASSUME NEW i \in Openers(lines, n, languages)
        PROVE  more[chain[i]] = arrays[chain[i]]
    <2>1. chain[i] \in 1 .. Len(arrays) /\ arrays[chain[i]].type = "SISElseIf"
      BY ArraysApart
    <2> QED BY <1>2, <1>3, <2>1
  <1>6. SameConditions(arrays, more, lines, n, languages, base, chain)
    BY <1>4, <1>5 DEF SameConditions
  <1>7. ASSUME NEW p \in Blocks(lines, n), p # q
        PROVE  BlockInstalls(more, InstallBlock(base[p])) = BlockInstalls(arrays, InstallBlock(base[p]))
    <2>1. PICK b : b = InstallBlock(base[p])
      OBVIOUS
    <2>2. b.files = base[p] + 1 /\ b.embedded = base[p] + 2
      BY <2>1 DEF InstallBlock
    <2>3. BlockInstalls(more, b) = BlockInstalls(arrays, b)
      BY <1>4, <1>7, <2>2, SameInstalls
    <2> QED BY <2>1, <2>3
  <1>8. BlockInstalls(more, InstallBlock(base[q])) =
          BlockInstalls(arrays, InstallBlock(base[q])) \cup {[file |-> d.hash]}
    <2>1. PICK b : b = InstallBlock(base[q])
      OBVIOUS
    <2>2. b.files = base[q] + 1 /\ b.embedded = base[q] + 2 /\ b.files = z
      BY <1>1, <2>1 DEF InstallBlock
    <2>3. more[base[q] + 2] = arrays[base[q] + 2]
      BY <1>4
    <2>8. IsList(arrays[b.files].elems)
      BY <1>3, <2>2, Zenon
    <2>4. more[b.files].elems = Append(arrays[b.files].elems, d)
      BY <1>3, <2>2, Zenon
    <2>5. more[b.embedded].elems = arrays[b.embedded].elems
      BY <2>2, <2>3, Zenon
    <2>6. BlockInstalls(more, b) = BlockInstalls(arrays, b) \cup {[file |-> d.hash]}
      BY ONLY <2>8, <2>4, <2>5, FileInstalls, SMTT(30)
    <2> QED BY <2>1, <2>6
  <1>9. ASSUME NEW p \in Blocks(lines, n)
        PROVE  BlockInstalls(more, InstallBlock(base[p])) =
                 BlockInstalls(arrays, InstallBlock(base[p])) \cup
                   IF p = q THEN {[file |-> d.hash]} ELSE {}
    <2>1. CASE p = q
      BY <1>8, <2>1
    <2>2. CASE p # q
      BY <1>7, <2>2
    <2> QED BY <2>1, <2>2
  <1> QED BY <1>6, <1>9

LEMMA PackagePut ==
  ASSUME NEW arrays, Tree(arrays), NEW lines, NEW n \in Nat, NEW languages, NEW base, NEW chain,
         Allocated(arrays, lines, n, languages, base, chain),
         NEW q \in Blocks(lines, n), NEW d, NEW u, u = FindElement(d, "SISInfo").uid,
         NEW more, more = AddTo(arrays, base[q] + 2, d)
  PROVE  /\ \A p \in Blocks(lines, n) :
              BlockInstalls(more, InstallBlock(base[p])) =
                BlockInstalls(arrays, InstallBlock(base[p])) \cup
                  IF p = q THEN {[package |-> u]} ELSE {}
         /\ SameConditions(arrays, more, lines, n, languages, base, chain)
  <1>1. PICK z : z = base[q] + 2
    OBVIOUS
  <1>2. /\ z \in 1 .. Len(arrays) /\ base[q] \in Nat
        /\ arrays[z].type = "SISController"
    BY <1>1, ArraysApart
  <1>3. /\ more[z].elems = Append(arrays[z].elems, d)
        /\ \A a \in 1 .. Len(arrays) : a # z => more[a] = arrays[a]
        /\ IsList(arrays[z].elems)
    <2>1. more = AddTo(arrays, z, d)
      BY <1>1
    <2> QED BY <1>2, <2>1, AddToElems, SMTT(30)
  <1>4. ASSUME NEW p \in Blocks(lines, n)
        PROVE  /\ p # q => more[base[p] + 2] = arrays[base[p] + 2]
               /\ more[base[p] + 1] = arrays[base[p] + 1]
               /\ more[base[p] + 3] = arrays[base[p] + 3]
    <2>1. /\ base[p] \in Nat
          /\ base[p] + 2 \in 1 .. Len(arrays)
          /\ base[p] + 1 \in 1 .. Len(arrays) /\ arrays[base[p] + 1].type = "SISFileDescription"
          /\ base[p] + 3 \in 1 .. Len(arrays) /\ arrays[base[p] + 3].type = "SISIf"
          /\ p # q => base[p] # base[q]
      BY ArraysApart
    <2>2. p # q => base[p] + 2 # z
      BY <1>1, <1>2, <2>1, SMTT(30)
    <2>3. base[p] + 1 # z /\ base[p] + 3 # z
      BY <1>2, <2>1
    <2> QED BY <1>3, <2>1, <2>2, <2>3
  <1>5. ASSUME NEW i \in Openers(lines, n, languages)
        PROVE  more[chain[i]] = arrays[chain[i]]
    <2>1. chain[i] \in 1 .. Len(arrays) /\ arrays[chain[i]].type = "SISElseIf"
      BY ArraysApart
    <2> QED BY <1>2, <1>3, <2>1
  <1>6. SameConditions(arrays, more, lines, n, languages, base, chain)
    BY <1>4, <1>5 DEF SameConditions
  <1>7. ASSUME NEW p \in Blocks(lines, n), p # q
        PROVE  BlockInstalls(more, InstallBlock(base[p])) = BlockInstalls(arrays, InstallBlock(base[p]))
    <2>1. PICK b : b = InstallBlock(base[p])
      OBVIOUS
    <2>2. b.files = base[p] + 1 /\ b.embedded = base[p] + 2
      BY <2>1 DEF InstallBlock
    <2>3. BlockInstalls(more, b) = BlockInstalls(arrays, b)
      BY <1>4, <1>7, <2>2, SameInstalls
    <2> QED BY <2>1, <2>3
  <1>8. BlockInstalls(more, InstallBlock(base[q])) =
          BlockInstalls(arrays, InstallBlock(base[q])) \cup {[package |-> u]}
    <2>1. PICK b : b = InstallBlock(base[q])
      OBVIOUS
    <2>2. b.files = base[q] + 1 /\ b.embedded = base[q] + 2 /\ b.embedded = z
      BY <1>1, <2>1 DEF InstallBlock
    <2>3. more[base[q] + 1] = arrays[base[q] + 1]
      BY <1>4
    <2>8. IsList(arrays[b.embedded].elems)
      BY <1>3, <2>2, Zenon
    <2>4. more[b.embedded].elems = Append(arrays[b.embedded].elems, d)
      BY <1>3, <2>2, Zenon
    <2>5. more[b.files].elems = arrays[b.files].elems
      BY <2>2, <2>3, Zenon
    <2>6. u = FindElement(d, "SISInfo").uid
      OBVIOUS
    <2>7. BlockInstalls(more, b) = BlockInstalls(arrays, b) \cup {[package |-> u]}
      BY ONLY <2>8, <2>4, <2>5, <2>6, PackageInstalls
    <2> QED BY <2>1, <2>7
  <1>9. ASSUME NEW p \in Blocks(lines, n)
        PROVE  BlockInstalls(more, InstallBlock(base[p])) =
                 BlockInstalls(arrays, InstallBlock(base[p])) \cup
                   IF p = q THEN {[package |-> u]} ELSE {}
    <2>1. CASE p = q
      BY <1>8, <2>1
    <2>2. CASE p # q
      BY <1>7, <2>2
    <2> QED BY <2>1, <2>2
  <1> QED BY <1>6, <1>9

LEMMA AllocatedGrows ==
  ASSUME NEW arrays, NEW more, Tree(arrays), Tree(more), Grows(arrays, more),
         NEW lines, NEW n, NEW languages, NEW base, NEW chain,
         Allocated(arrays, lines, n, languages, base, chain)
  PROVE  Allocated(more, lines, n, languages, base, chain)
  <1>1. \A k \in Blocks(lines, n) : BlockAt(more, InstallBlock(base[k]))
    <2>1. ASSUME NEW k \in Blocks(lines, n) PROVE BlockAt(more, InstallBlock(base[k]))
      <3>1. BlockAt(arrays, InstallBlock(base[k]))
        BY DEF Allocated
      <3> QED BY <3>1, BlockGrows
    <2> QED BY <2>1
  <1>2. \A i \in Openers(lines, n, languages) : Points(more, chain[i], "SISElseIf")
    <2>1. ASSUME NEW i \in Openers(lines, n, languages)
          PROVE  Points(more, chain[i], "SISElseIf")
      <3>1. Points(arrays, chain[i], "SISElseIf")
        BY DEF Allocated
      <3> QED BY <3>1, PointsGrow
    <2> QED BY <2>1
  <1> QED BY <1>1, <1>2, Zenon DEF Allocated

LEMMA SkeletonPut ==
  ASSUME NEW arrays, NEW more, Tree(arrays), Tree(more), Grows(arrays, more),
         NEW lines, NEW n \in Nat, NEW languages, NEW base, NEW home, NEW chain, NEW branches,
         NEW pending,
         Skeleton(arrays, lines, n, languages, base, home, chain, branches, pending),
         SameConditions(arrays, more, lines, n, languages, base, chain)
  PROVE  Skeleton(more, lines, n, languages, base, home, chain, branches, pending)
  <1>1. /\ Allocated(arrays, lines, n, languages, base, chain)
        /\ Homes(lines, n, languages, home)
        /\ Branched(arrays, lines, n, languages, base, chain, branches)
        /\ Joined(arrays, lines, n, languages, base, chain, home, pending)
    BY DEF Skeleton
  <1>2. Allocated(more, lines, n, languages, base, chain)
    BY <1>1, AllocatedGrows
  <1>3. /\ \A q \in Blocks(lines, n) : more[base[q] + 3].elems = arrays[base[q] + 3].elems
        /\ \A i \in Openers(lines, n, languages) : more[chain[i]].elems = arrays[chain[i]].elems
    BY DEF SameConditions
  <1>4. Branched(more, lines, n, languages, base, chain, branches)
    <2>1. ASSUME NEW i \in Openers(lines, n, languages)
          PROVE  BranchesAre(more, lines, n, languages, base, chain, branches, i)
      <3>1. BranchesAre(arrays, lines, n, languages, base, chain, branches, i)
        BY <1>1, BranchedIs
      <3> QED BY <1>3, <3>1, Zenon DEF BranchesAre
    <2>2. \A k \in Blocks(lines, n) : k # 0 =>
            \E i \in Openers(lines, n, languages) : k \in ElementsOf(branches[i])
      BY <1>1, BranchedIs
    <2> QED BY <2>1, <2>2, BranchedIs
  <1>5. Joined(more, lines, n, languages, base, chain, home, pending)
    BY <1>1, <1>3, Zenon DEF Joined
  <1> QED BY <1>1, <1>2, <1>4, <1>5 DEF Skeleton

(* A line that begins no block. *)
LEMMA SkeletonQuiet ==
  ASSUME NEW arrays, NEW lines, NEW n \in Nat, NEW languages, NEW base, NEW home, NEW chain,
         NEW branches,
         Skeleton(arrays, lines, n, languages, base, home, chain, branches, 0),
         lines[n + 1].kind \in {"File", "Option", "EndIf"},
         NEW h, \A m \in 1 .. n : h[m] = home[m],
         lines[n + 1].kind = "File" =>
           /\ h[n + 1] \in 0 .. n
           /\ h[n + 1] \in {0} \cup Headers(lines)
           /\ Around(lines, n + 1) = Inside(lines, h[n + 1])
  PROVE  Skeleton(arrays, lines, n + 1, languages, base, h, chain, branches, 0)
  <1>1. /\ Allocated(arrays, lines, n, languages, base, chain)
        /\ Homes(lines, n, languages, home)
        /\ Branched(arrays, lines, n, languages, base, chain, branches)
        /\ Joined(arrays, lines, n, languages, base, chain, home, 0)
    BY DEF Skeleton
  <1>2. ~ Opens(lines, n + 1, languages)
    BY DEF Opens
  <1>3. Openers(lines, n + 1, languages) = Openers(lines, n, languages)
    BY <1>2, OpenersNext
  <1>4. Blocks(lines, n + 1) = Blocks(lines, n)
    <2>1. \A k : k \in Blocks(lines, n + 1) <=> k \in Blocks(lines, n)
      BY BlocksNext
    <2> QED BY <2>1
  <1>5. Allocated(arrays, lines, n + 1, languages, base, chain)
    BY <1>1, <1>3, <1>4, Zenon DEF Allocated
  <1>6. Homes(lines, n + 1, languages, h)
    BY <1>1, <1>2, HomesNext
  <1>7. Branched(arrays, lines, n + 1, languages, base, chain, branches)
    BY <1>1, BranchedStays
  <1>8. \A i \in Openers(lines, n, languages) : h[i] = home[i]
    <2>1. \A i \in Openers(lines, n, languages) : i \in 1 .. n
      BY OpenersNext
    <2> QED BY <2>1
  <1>9. Joined(arrays, lines, n + 1, languages, base, chain, h, 0)
    <2>1. ASSUME NEW p \in Blocks(lines, n)
          PROVE  {j \in Openers(lines, n + 1, languages) : j # 0 /\ h[j] = p}
                   = {j \in Openers(lines, n, languages) : j # 0 /\ home[j] = p}
      BY <1>3, <1>8
    <2> QED BY <1>1, <1>4, <2>1, Zenon DEF Joined
  <1> QED BY <1>5, <1>6, <1>7, <1>9 DEF Skeleton

(* Files and packages stay when only conditions are added to. *)
LEMMA InstallsStay ==
  ASSUME NEW arrays, Tree(arrays), NEW lines, NEW n \in Nat, NEW languages, NEW base, NEW chain,
         Allocated(arrays, lines, n, languages, base, chain),
         NEW more,
         \A a \in 1 .. Len(arrays) :
           arrays[a].type \in {"SISFileDescription", "SISController"} =>
             more[a].elems = arrays[a].elems,
         NEW p \in Blocks(lines, n)
  PROVE  BlockInstalls(more, InstallBlock(base[p])) = BlockInstalls(arrays, InstallBlock(base[p]))
  <1>1. PICK b : b = InstallBlock(base[p])
    OBVIOUS
  <1>2. b.files = base[p] + 1 /\ b.embedded = base[p] + 2
    BY <1>1 DEF InstallBlock
  <1>3. /\ more[b.files].elems = arrays[b.files].elems
        /\ more[b.embedded].elems = arrays[b.embedded].elems
    <2>1. /\ base[p] + 1 \in 1 .. Len(arrays)
          /\ arrays[base[p] + 1].type = "SISFileDescription"
          /\ base[p] + 2 \in 1 .. Len(arrays)
          /\ arrays[base[p] + 2].type = "SISController"
      BY ArraysApart
    <2> QED BY <1>2, <2>1
  <1>4. BlockInstalls(more, b) = BlockInstalls(arrays, b)
    BY <1>3, SameInstalls
  <1> QED BY <1>1, <1>4

(* A line that opens a condition, which is put into the block around it at *)
(* once or is left pending.                                                *)
NewBlockAt(arrays, more, at) ==
  /\ at \in Nat /\ at >= Len(arrays) /\ BlockAt(more, InstallBlock(at))
  /\ more[at + 3].elems = << >>

Puts(arrays, more, lines, n, languages, base, b, c, h, new) ==
  \A p \in Blocks(lines, n) :
    ElementsOf(more[base[p] + 3].elems) =
      ElementsOf(arrays[base[p] + 3].elems) \cup
        {Opening(lines, languages, b, c, i) : i \in {j \in new : h[j] = p}}

AddsCondition(arrays, more, lines, n, languages, base, home, chain, branches,
              b, h, c, r, new) ==
  /\ BeginsCondition(arrays, more, lines, n, languages, base, chain, branches, b, c, r)
  /\ NewBlockAt(arrays, more, b[n + 1])
  /\ c[n + 1] > Len(arrays) /\ Points(more, c[n + 1], "SISElseIf")
  /\ \A m \in 1 .. n : h[m] = home[m]
  /\ h[n + 1] \in 0 .. n /\ h[n + 1] \in {0} \cup Headers(lines)
  /\ Around(lines, n + 1) = Inside(lines, h[n + 1])
  /\ new \in {{}, {n + 1}}
  /\ Puts(arrays, more, lines, n, languages, base, b, c, h, new)

LEMMA SkeletonOpens ==
  ASSUME NEW arrays, NEW more, Tree(arrays), Tree(more), Grows(arrays, more),
         NEW lines, NEW n \in Nat, NEW languages, NEW base, NEW home, NEW chain, NEW branches,
         Skeleton(arrays, lines, n, languages, base, home, chain, branches, 0),
         NEW b, NEW h, NEW c, NEW r, NEW new,
         AddsCondition(arrays, more, lines, n, languages, base, home, chain, branches,
                       b, h, c, r, new),
         NEW late, late = IF new = {} THEN n + 1 ELSE 0
  PROVE  Skeleton(more, lines, n + 1, languages, b, h, c, r, late)
  <1>0. /\ BeginsCondition(arrays, more, lines, n, languages, base, chain, branches, b, c, r)
        /\ NewBlockAt(arrays, more, b[n + 1])
        /\ c[n + 1] > Len(arrays) /\ Points(more, c[n + 1], "SISElseIf")
        /\ \A m \in 1 .. n : h[m] = home[m]
        /\ h[n + 1] \in 0 .. n /\ h[n + 1] \in {0} \cup Headers(lines)
        /\ Around(lines, n + 1) = Inside(lines, h[n + 1])
        /\ new \in {{}, {n + 1}}
        /\ Puts(arrays, more, lines, n, languages, base, b, c, h, new)
    BY DEF AddsCondition
  <1>01. /\ Opens(lines, n + 1, languages)
         /\ \A k \in Blocks(lines, n) : b[k] = base[k]
         /\ \A i \in Openers(lines, n, languages) : c[i] = chain[i]
    BY <1>0 DEF BeginsCondition
  <1>02. /\ b[n + 1] \in Nat /\ b[n + 1] >= Len(arrays) /\ BlockAt(more, InstallBlock(b[n + 1]))
         /\ more[b[n + 1] + 3].elems = << >>
    BY <1>0 DEF NewBlockAt
  <1>1. /\ Allocated(arrays, lines, n, languages, base, chain)
        /\ Homes(lines, n, languages, home)
        /\ Branched(arrays, lines, n, languages, base, chain, branches)
        /\ Joined(arrays, lines, n, languages, base, chain, home, 0)
    BY DEF Skeleton
  <1>2. Allocated(more, lines, n + 1, languages, b, c)
    BY <1>0, <1>01, <1>02, <1>1, AllocatedNext
  <1>3. Homes(lines, n + 1, languages, h)
    BY <1>0, <1>1, HomesNext
  <1>4. Branched(more, lines, n + 1, languages, b, c, r)
    BY <1>0, <1>1, BranchedOpens
  <1>5. \A i : i \in Openers(lines, n, languages) => i \in 1 .. n
    BY OpenersNext
  <1>6. \A i : i \in Openers(lines, n + 1, languages) /\ i # late
                 <=> (i \in Openers(lines, n, languages) /\ i # 0) \/ i \in new
    <2>1. \A i : i \in Openers(lines, n + 1, languages) <=>
                   i \in Openers(lines, n, languages) \/ i = n + 1
      BY <1>01, OpenersNext
    <2>2. n + 1 # 0 /\ n + 1 \notin 1 .. n /\ 0 \notin 1 .. n
      OBVIOUS
    <2>3. CASE new = {}
      BY <1>0, <1>01, <1>5, <2>1, <2>2, <2>3
    <2>4. CASE new = {n + 1}
      BY <1>5, <2>1, <2>2, <2>4
    <2> QED BY <1>0, <2>3, <2>4
  <1>7. \A i \in Openers(lines, n, languages) : h[i] = home[i]
    BY <1>0, <1>5
  <1>8. \A i \in Openers(lines, n + 1, languages) : h[i] # n + 1
    <2>1. \A i \in Openers(lines, n + 1, languages) : h[i] \in 0 .. i - 1 /\ i \in 1 .. n + 1
      <3>1. ASSUME NEW i \in Openers(lines, n + 1, languages)
            PROVE  h[i] \in 0 .. i - 1 /\ i \in 1 .. n + 1
        <4>1. i \in 1 .. n + 1
          BY Zenon DEF Openers
        <4> QED BY <1>3, <4>1 DEF Homes
      <3> QED BY <3>1
    <2> QED BY <2>1
  <1>9. Joined(more, lines, n + 1, languages, b, c, h, late)
    <2>1. \A k \in Blocks(lines, n) : b[k] = base[k]
      BY <1>01
    <2>2. \A i \in Openers(lines, n, languages) : c[i] = chain[i] /\ h[i] = home[i]
      BY <1>01, <1>7
    <2>3. n + 1 \in Blocks(lines, n + 1) => more[b[n + 1] + 3].elems = << >>
      BY <1>02
    <2>4. \A p \in Blocks(lines, n) :
            ElementsOf(more[b[p] + 3].elems) =
              ElementsOf(arrays[base[p] + 3].elems) \cup
                {Opening(lines, languages, b, c, i) : i \in {j \in new : h[j] = p}}
      BY <1>0, <2>1, Zenon DEF Puts
    <2>5. Joins(arrays, more, lines, n, languages, base, chain, home, 0, b, c, h, late, new)
      BY <1>6, <1>8, <2>1, <2>2, <2>3, <2>4, Zenon DEF Joins
    <2> QED BY <1>1, <2>5, JoinedNext
  <1> QED BY <1>2, <1>3, <1>4, <1>9 DEF Skeleton

(* A line that goes on with a condition, which may then be complete. *)
AddsBranch(arrays, more, lines, n, languages, base, home, chain, branches, pending,
           i, b, r, new) ==
  /\ GoesOnWith(arrays, more, lines, n, languages, base, chain, branches, i, b, r)
  /\ NewBlockAt(arrays, more, b[n + 1])
  /\ new = {} \/ (new = {i} /\ pending = i)
  /\ Puts(arrays, more, lines, n, languages, base, b, chain, home, new)

LEMMA SkeletonContinues ==
  ASSUME NEW arrays, NEW more, Tree(arrays), Tree(more), Grows(arrays, more),
         NEW lines, NEW n \in Nat, NEW languages, NEW base, NEW home, NEW chain, NEW branches,
         NEW pending,
         Skeleton(arrays, lines, n, languages, base, home, chain, branches, pending),
         NEW i \in Openers(lines, n, languages), NEW b, NEW r, NEW new,
         AddsBranch(arrays, more, lines, n, languages, base, home, chain, branches, pending,
                    i, b, r, new),
         NEW late, late = IF new = {} THEN pending ELSE 0
  PROVE  Skeleton(more, lines, n + 1, languages, b, home, chain, r, late)
  <1>0. /\ GoesOnWith(arrays, more, lines, n, languages, base, chain, branches, i, b, r)
        /\ NewBlockAt(arrays, more, b[n + 1])
        /\ new = {} \/ (new = {i} /\ pending = i)
        /\ Puts(arrays, more, lines, n, languages, base, b, chain, home, new)
    BY DEF AddsBranch
  <1>01. /\ n + 1 \in Blocks(lines, n + 1) /\ ~ Opens(lines, n + 1, languages)
         /\ \A k \in Blocks(lines, n) : b[k] = base[k]
    BY <1>0 DEF GoesOnWith
  <1>02. /\ b[n + 1] \in Nat /\ b[n + 1] >= Len(arrays) /\ BlockAt(more, InstallBlock(b[n + 1]))
         /\ more[b[n + 1] + 3].elems = << >>
    BY <1>0 DEF NewBlockAt
  <1>1. /\ Allocated(arrays, lines, n, languages, base, chain)
        /\ Homes(lines, n, languages, home)
        /\ Branched(arrays, lines, n, languages, base, chain, branches)
        /\ Joined(arrays, lines, n, languages, base, chain, home, pending)
    BY DEF Skeleton
  <1>2. \A j : j \in Openers(lines, n + 1, languages) <=> j \in Openers(lines, n, languages)
    BY <1>01, OpenersNext
  <1>3. \A j : j \in Openers(lines, n, languages) => j \in 1 .. n
    BY OpenersNext
  <1>4. n + 1 \notin Openers(lines, n + 1, languages)
    <2>1. n + 1 \notin 1 .. n
      OBVIOUS
    <2> QED BY <1>2, <1>3, <2>1
  <1>5. Allocated(more, lines, n + 1, languages, b, chain)
    BY <1>01, <1>02, <1>1, <1>4, AllocatedNext
  <1>6. lines[n + 1].kind # "File"
    <2>1. n + 1 \notin Blocks(lines, n)
      <3>1. n + 1 \in Blocks(lines, n) => n + 1 \in 0 .. n
        BY BlocksNext
      <3> QED BY <3>1
    <2>2. lines[n + 1].kind \in {"If", "ElseIf", "Else", "LanguageFile"}
      BY <1>01, <2>1, BlocksNext
    <2> QED BY <2>2
  <1>7. Homes(lines, n + 1, languages, home)
    BY <1>01, <1>1, <1>6, HomesNext
  <1>8. Branched(more, lines, n + 1, languages, b, chain, r)
    <2>1. IsList(arrays[chain[i]].elems)
      <3>1. chain[i] \in 1 .. Len(arrays)
        BY <1>1, ArraysApart
      <3> QED BY <3>1 DEF Tree, IsArray
    <2>2. Branched(arrays, lines, n, languages, base, chain, branches)
      BY <1>1
    <2> QED BY <1>0, <2>1, <2>2, BranchedMore
  <1>9. \A j : j \in Openers(lines, n + 1, languages) /\ j # late
                 <=> (j \in Openers(lines, n, languages) /\ j # pending) \/ j \in new
    <2>1. 0 \notin 1 .. n
      OBVIOUS
    <2>2. CASE new = {}
      BY <1>2, <2>2
    <2>3. CASE new = {i} /\ pending = i
      BY <1>2, <1>3, <2>1, <2>3
    <2> QED BY <1>0, <2>2, <2>3
  <1>10. \A j \in Openers(lines, n + 1, languages) : home[j] # n + 1
    <2>1. \A j \in Openers(lines, n, languages) : home[j] \in 0 .. j - 1 /\ j \in 1 .. n
      BY <1>1, <1>3 DEF Homes
    <2> QED BY <1>2, <2>1
  <1>11. Joined(more, lines, n + 1, languages, b, chain, home, late)
    <2>1. \A k \in Blocks(lines, n) : b[k] = base[k]
      BY <1>01
    <2>2. \A j \in Openers(lines, n, languages) : chain[j] = chain[j] /\ home[j] = home[j]
      OBVIOUS
    <2>3. n + 1 \in Blocks(lines, n + 1) => more[b[n + 1] + 3].elems = << >>
      BY <1>02
    <2>4. \A p \in Blocks(lines, n) :
            ElementsOf(more[b[p] + 3].elems) =
              ElementsOf(arrays[base[p] + 3].elems) \cup
                {Opening(lines, languages, b, chain, k) : k \in {j \in new : home[j] = p}}
      BY <1>0, <2>1, Zenon DEF Puts
    <2>5. Joins(arrays, more, lines, n, languages, base, chain, home, pending,
                b, chain, home, late, new)
      BY <1>9, <1>10, <2>1, <2>2, <2>3, <2>4, Zenon DEF Joins
    <2> QED BY <1>1, <2>5, JoinedNext
  <1> QED BY <1>5, <1>7, <1>8, <1>11 DEF Skeleton

-----------------------------------------------------------------------------
(***************************************************************************)
(* What the generator keeps in hand: its current arrays and its stacks are *)
(* those of the blocks around the next line, and the SISIf of a language   *)
(* block waits until its last language.                                    *)
(***************************************************************************)
RootOf(cur) == [files |-> cur.files, embedded |-> cur.embedded, ifs |-> cur.ifs]

InHand(cur, stacks, base, home, chain, stack, opener) ==
  /\ RootOf(cur) = InstallBlock(base[stack[Level(stacks)]])
  /\ Level(stacks) > 0 => cur.elseIfs = chain[opener[Level(stacks)]]
  /\ \A e \in 1 .. Level(stacks) :
       /\ BlockOf(stacks, e) = InstallBlock(base[stack[e - 1]])
       /\ e > 1 => stacks.elseIfs[e] = chain[opener[e - 1]]
       /\ home[opener[e]] = stack[e - 1]

(* The language block of line i, in the block of line p. *)
InLanguages(lines, n, languages, base, home, chain, branches, p, lang, i) ==
  /\ i = n + 1 - lang.done
  /\ i \in Openers(lines, n, languages) /\ lines[i].kind = "LanguageFile"
  /\ home[i] = p
  /\ Len(branches[i]) = lang.done /\ ElementsOf(branches[i]) = i .. n
  /\ lang.ifField = Opening(lines, languages, base, chain, i)
  /\ lang.elseIfs = chain[i]

(* The state of the generator behind line n; line pending is the one of an *)
(* unfinished language block, or 0.                                        *)
Built(lines, n, languages, what, arrays, cur, stacks, lang, pending,
      base, home, chain, branches, stack, opener) ==
  /\ Skeleton(arrays, lines, n, languages, base, home, chain, branches, pending)
  /\ Holding(arrays, lines, n, base, home, what)
  /\ Stacked(lines, n, Level(stacks), stack)
  /\ Grouped(lines, n, Level(stacks), opener, branches)
  /\ InHand(cur, stacks, base, home, chain, stack, opener)
  /\ pending # 0 => InLanguages(lines, n, languages, base, home, chain, branches,
                                stack[Level(stacks)], lang, pending)

BehindLine(lines, n, arrays, stacks) ==
  /\ Len(lines) \in Nat /\ n \in Nat /\ n + 1 <= Len(lines)
  /\ Tree(arrays) /\ StackShape(stacks)
  /\ Level(stacks) \in Nat /\ Level(stacks) = Depth(lines, n)

LEMMA StackedBlock ==
  ASSUME NEW lines, NEW n \in Nat, NEW level, NEW stack, Stacked(lines, n, level, stack),
         level \in Nat, NEW e \in 0 .. level
  PROVE  /\ stack[e] \in Blocks(lines, n) /\ stack[e] \in 0 .. n
         /\ stack[e] \in {0} \cup Headers(lines)
  <1>1. CASE e = 0
    BY <1>1 DEF Stacked, Blocks
  <1>2. CASE e # 0
    <2>1. e \in 1 .. level
      BY <1>2
    <2>2. stack[e] \in Headers(lines) /\ stack[e] <= n
      BY <2>1 DEF Stacked
    <2>3. /\ stack[e] \in 1 .. Len(lines)
          /\ lines[stack[e]].kind \in {"If", "ElseIf", "Else"}
      BY <2>2 DEF Headers
    <2>4. stack[e] \in 1 .. n /\ stack[e] \in 0 .. n
      BY <2>2, <2>3
    <2>5. stack[e] \in Blocks(lines, n)
      BY <2>3, <2>4 DEF Blocks
    <2> QED BY <2>2, <2>4, <2>5
  <1> QED BY <1>1, <1>2

(* What is put into the block of line p. *)
PutsItems(arrays, more, lines, n, languages, base, chain, p, items) ==
  /\ Tree(more) /\ Grows(arrays, more)
  /\ SameConditions(arrays, more, lines, n, languages, base, chain)
  /\ \A q \in Blocks(lines, n) :
       BlockInstalls(more, InstallBlock(base[q])) =
         BlockInstalls(arrays, InstallBlock(base[q])) \cup IF q = p THEN items ELSE {}

LEMMA FilePutIs ==
  ASSUME NEW arrays, Tree(arrays), NEW lines, NEW n \in Nat, NEW languages, NEW base, NEW chain,
         Allocated(arrays, lines, n, languages, base, chain),
         NEW p \in Blocks(lines, n), NEW d, d.id = "SISFileDescription",
         NEW a, a = base[p] + 1, NEW more, more = AddTo(arrays, a, d)
  PROVE  PutsItems(arrays, more, lines, n, languages, base, chain, p, {[file |-> d.hash]})
  <1>1. Points(arrays, a, "SISFileDescription")
    BY ArraysApart DEF Points
  <1>2. Tree(more) /\ Grows(arrays, more)
    BY <1>1, AddToIs
  <1>3. more = AddTo(arrays, base[p] + 1, d)
    OBVIOUS
  <1>4. /\ \A q \in Blocks(lines, n) :
             BlockInstalls(more, InstallBlock(base[q])) =
               BlockInstalls(arrays, InstallBlock(base[q])) \cup
                 IF q = p THEN {[file |-> d.hash]} ELSE {}
        /\ SameConditions(arrays, more, lines, n, languages, base, chain)
    BY <1>3, FilePut
  <1> QED BY <1>2, <1>4, Zenon DEF PutsItems

LEMMA PackagePutIs ==
  ASSUME NEW arrays, Tree(arrays), NEW lines, NEW n \in Nat, NEW languages, NEW base, NEW chain,
         Allocated(arrays, lines, n, languages, base, chain),
         NEW p \in Blocks(lines, n), NEW d, NEW u, u = FindElement(d, "SISInfo").uid,
         NEW a, a = base[p] + 2, NEW more, more = AddTo(arrays, a, d)
  PROVE  PutsItems(arrays, more, lines, n, languages, base, chain, p, {[package |-> u]})
  <1>1. Points(arrays, a, "SISController")
    BY ArraysApart DEF Points
  <1>2. Tree(more) /\ Grows(arrays, more)
    BY <1>1, AddToIs
  <1>3. more = AddTo(arrays, base[p] + 2, d)
    OBVIOUS
  <1>4. /\ \A q \in Blocks(lines, n) :
             BlockInstalls(more, InstallBlock(base[q])) =
               BlockInstalls(arrays, InstallBlock(base[q])) \cup
                 IF q = p THEN {[package |-> u]} ELSE {}
        /\ SameConditions(arrays, more, lines, n, languages, base, chain)
    BY <1>3, PackagePut
  <1> QED BY <1>2, <1>4, Zenon DEF PutsItems

LEMMA NothingPutIs ==
  ASSUME NEW arrays, Tree(arrays), NEW lines, NEW n, NEW languages, NEW base, NEW chain, NEW p
  PROVE  PutsItems(arrays, arrays, lines, n, languages, base, chain, p, {})
  <1>1. Grows(arrays, arrays)
    BY DEF Grows, Tree, IsList
  <1> QED BY <1>1 DEF PutsItems, SameConditions

(* Lines that begin and end no block. *)

LEMMA BuiltQuiet ==
  ASSUME NEW lines, NEW n, NEW languages, NEW what, NEW arrays, NEW cur, NEW stacks, NEW lang,
         NEW base, NEW home, NEW chain, NEW branches, NEW stack, NEW opener,
         BehindLine(lines, n, arrays, stacks),
         Built(lines, n, languages, what, arrays, cur, stacks, lang, 0,
               base, home, chain, branches, stack, opener),
         lines[n + 1].kind \in {"File", "Option"},
         NEW items, items = IF lines[n + 1].kind = "File" THEN {what[n + 1]} ELSE {},
         NEW more,
         PutsItems(arrays, more, lines, n, languages, base, chain, stack[Level(stacks)], items),
         NEW h, \A m \in 1 .. n : h[m] = home[m], h[n + 1] = stack[Level(stacks)]
  PROVE  Built(lines, n + 1, languages, what, more, cur, stacks, lang, 0,
               base, h, chain, branches, stack, opener)
  <1>1. /\ Len(lines) \in Nat /\ n \in Nat /\ n + 1 <= Len(lines) /\ Tree(arrays)
        /\ Level(stacks) \in Nat /\ Level(stacks) = Depth(lines, n)
    BY DEF BehindLine
  <1>2. /\ Skeleton(arrays, lines, n, languages, base, home, chain, branches, 0)
        /\ Holding(arrays, lines, n, base, home, what)
        /\ Stacked(lines, n, Level(stacks), stack)
        /\ Grouped(lines, n, Level(stacks), opener, branches)
        /\ InHand(cur, stacks, base, home, chain, stack, opener)
    BY DEF Built
  <1>3. /\ Tree(more) /\ Grows(arrays, more)
        /\ SameConditions(arrays, more, lines, n, languages, base, chain)
        /\ \A q \in Blocks(lines, n) :
             BlockInstalls(more, InstallBlock(base[q])) =
               BlockInstalls(arrays, InstallBlock(base[q])) \cup
                 IF q = stack[Level(stacks)] THEN items ELSE {}
    BY DEF PutsItems
  <1>4. /\ h[n + 1] \in 0 .. n /\ h[n + 1] \in {0} \cup Headers(lines)
        /\ Around(lines, n + 1) = Inside(lines, h[n + 1])
    <2>1. Level(stacks) \in 0 .. Level(stacks)
      BY <1>1
    <2>2. h[n + 1] \in 0 .. n /\ h[n + 1] \in {0} \cup Headers(lines)
      BY <1>1, <1>2, <2>1, StackedBlock
    <2>3. Around(lines, n + 1) = Inside(lines, stack[Level(stacks)])
      BY <1>1, <1>2, StackedAround
    <2> QED BY <2>2, <2>3
  <1>5. Skeleton(more, lines, n, languages, base, home, chain, branches, 0)
    BY <1>1, <1>2, <1>3, SkeletonPut
  <1>6. Skeleton(more, lines, n + 1, languages, base, h, chain, branches, 0)
    BY <1>1, <1>4, <1>5, SkeletonQuiet
  <1>7. Holding(more, lines, n + 1, base, h, what)
    <2>1. n + 1 \notin Blocks(lines, n + 1)
      <3>1. n + 1 \in Blocks(lines, n) => n + 1 \in 0 .. n
        BY <1>1, BlocksNext
      <3>2. n + 1 \notin 0 .. n
        BY <1>1
      <3> QED BY <1>1, <3>1, <3>2, BlocksNext
    <2>2. Homes(lines, n, languages, home)
      BY <1>2 DEF Skeleton
    <2>3. \A q \in Blocks(lines, n) :
            BlockInstalls(more, InstallBlock(base[q])) =
              BlockInstalls(arrays, InstallBlock(base[q])) \cup
                IF lines[n + 1].kind = "File" /\ h[n + 1] = q THEN {what[n + 1]} ELSE {}
      <3>1. CASE lines[n + 1].kind = "File"
        BY <1>3, <3>1
      <3>2. CASE lines[n + 1].kind # "File"
        BY <1>3, <3>2
      <3> QED BY <3>1, <3>2
    <2>4. HoldsNext(arrays, more, lines, n, base, home, what, base, h)
      BY <2>1, <2>3, Zenon DEF HoldsNext
    <2> QED BY <1>1, <1>2, <2>2, <2>4, HoldingNext
  <1>8. Stacked(lines, n + 1, Level(stacks), stack)
    BY <1>1, <1>2, StackedStays
  <1>9. Grouped(lines, n + 1, Level(stacks), opener, branches)
    BY <1>1, <1>2, GroupedStays
  <1>10. InHand(cur, stacks, base, h, chain, stack, opener)
    <2>1. \A e \in 1 .. Level(stacks) : opener[e] \in 1 .. n
      BY <1>2 DEF Grouped
    <2>2. \A e \in 1 .. Level(stacks) : h[opener[e]] = home[opener[e]]
      BY <2>1
    <2> QED BY <1>2, <2>2, Zenon DEF InHand
  <1> QED BY <1>6, <1>7, <1>8, <1>9, <1>10 DEF Built

(* ENDIF. *)
LEMMA BuiltEndIf ==
  ASSUME NEW lines, NEW n, NEW languages, NEW what, NEW arrays, NEW cur, NEW stacks, NEW lang,
         NEW base, NEW home, NEW chain, NEW branches, NEW stack, NEW opener,
         BehindLine(lines, n, arrays, stacks), Level(stacks) > 0,
         Built(lines, n, languages, what, arrays, cur, stacks, lang, 0,
               base, home, chain, branches, stack, opener),
         lines[n + 1].kind = "EndIf",
         NEW t, t = PopAll(stacks),
         NEW c, c = CurrentArrays(Tops(stacks), Last(stacks.elseIfs))
  PROVE  Built(lines, n + 1, languages, what, arrays, c, t, lang, 0,
               base, home, chain, branches, stack, opener)
  <1>1. /\ Len(lines) \in Nat /\ n \in Nat /\ n + 1 <= Len(lines) /\ Tree(arrays)
        /\ Level(stacks) \in Nat /\ Level(stacks) = Depth(lines, n) /\ StackShape(stacks)
    BY DEF BehindLine
  <1>2. /\ Skeleton(arrays, lines, n, languages, base, home, chain, branches, 0)
        /\ Holding(arrays, lines, n, base, home, what)
        /\ Stacked(lines, n, Level(stacks), stack)
        /\ Grouped(lines, n, Level(stacks), opener, branches)
        /\ InHand(cur, stacks, base, home, chain, stack, opener)
    BY DEF Built
  <1>3. Skeleton(arrays, lines, n + 1, languages, base, home, chain, branches, 0)
    BY <1>1, <1>2, SkeletonQuiet
  <1>4. Holding(arrays, lines, n + 1, base, home, what)
    <2>1. n + 1 \notin Blocks(lines, n + 1)
      <3>1. n + 1 \in Blocks(lines, n) => n + 1 \in 0 .. n
        BY <1>1, BlocksNext
      <3>2. n + 1 \notin 0 .. n
        BY <1>1
      <3> QED BY <1>1, <3>1, <3>2, BlocksNext
    <2>2. Homes(lines, n, languages, home)
      BY <1>2 DEF Skeleton
    <2>3. \A q \in Blocks(lines, n) :
            BlockInstalls(arrays, InstallBlock(base[q])) =
              BlockInstalls(arrays, InstallBlock(base[q])) \cup
                IF lines[n + 1].kind = "File" /\ home[n + 1] = q THEN {what[n + 1]} ELSE {}
      OBVIOUS
    <2>4. HoldsNext(arrays, arrays, lines, n, base, home, what, base, home)
      BY <2>1, <2>3, Zenon DEF HoldsNext
    <2> QED BY <1>1, <1>2, <2>2, <2>4, HoldingNext
  <1>5. Stacked(lines, n + 1, Level(stacks) - 1, stack)
    BY <1>1, <1>2, StackedEndIf
  <1>6. Grouped(lines, n + 1, Level(stacks) - 1, opener, branches)
    BY <1>1, <1>2, GroupedEndIf
  <1>7. PICK top : top = BlockOf(stacks, Level(stacks))
    OBVIOUS
  <1>8. /\ StackShape(t) /\ Level(t) = Level(stacks) - 1
        /\ \A e \in 1 .. Level(stacks) - 1 : /\ BlockOf(t, e) = BlockOf(stacks, e)
                                             /\ t.elseIfs[e] = stacks.elseIfs[e]
        /\ Tops(stacks) = top /\ Last(stacks.elseIfs) = stacks.elseIfs[Level(stacks)]
    BY <1>1, <1>7, PopIs
  <1>9. /\ Level(stacks) \in 1 .. Level(stacks)
        /\ \A e \in 1 .. Level(t) : e \in 1 .. Level(stacks) /\ e \in 1 .. Level(stacks) - 1
    BY <1>1, <1>8
  <1>10. RootOf(c) = top /\ c.elseIfs = stacks.elseIfs[Level(stacks)]
    BY <1>7, <1>8 DEF CurrentArrays, RootOf, BlockOf
  <1>11. InHand(c, t, base, home, chain, stack, opener)
    <2>1. RootOf(c) = InstallBlock(base[stack[Level(t)]])
      BY <1>2, <1>7, <1>8, <1>9, <1>10 DEF InHand
    <2>2. Level(t) > 0 => c.elseIfs = chain[opener[Level(t)]]
      <3>1. Level(t) > 0 => Level(stacks) > 1
        BY <1>1, <1>8
      <3> QED BY <1>2, <1>8, <1>9, <1>10, <3>1 DEF InHand
    <2>3. \A e \in 1 .. Level(t) :
            /\ BlockOf(t, e) = InstallBlock(base[stack[e - 1]])
            /\ e > 1 => t.elseIfs[e] = chain[opener[e - 1]]
            /\ home[opener[e]] = stack[e - 1]
      BY <1>2, <1>8, <1>9 DEF InHand
    <2> QED BY <2>1, <2>2, <2>3 DEF InHand
  <1>12. /\ Stacked(lines, n + 1, Level(t), stack)
         /\ Grouped(lines, n + 1, Level(t), opener, branches)
    BY <1>5, <1>6, <1>8
  <1> QED BY <1>3, <1>4, <1>11, <1>12 DEF Built

-----------------------------------------------------------------------------
(* Empty arrays behind those that are there. *)
Appended(arrays, x) ==
  /\ Tree(x) /\ Grows(arrays, x)
  /\ \A a \in 1 .. Len(arrays) : x[a] = arrays[a]
  /\ \A a \in Len(arrays) + 1 .. Len(x) : x[a].elems = << >>

LEMMA AppendedMore ==
  ASSUME NEW arrays, NEW x, Tree(arrays), Appended(arrays, x), NEW s, NewArrays(s),
         NEW y, y = x \o s
  PROVE  Appended(arrays, y) /\ Appended(x, y)
  <1>1. /\ Tree(x) /\ Grows(arrays, x)
        /\ \A a \in 1 .. Len(arrays) : x[a] = arrays[a]
        /\ \A a \in Len(arrays) + 1 .. Len(x) : x[a].elems = << >>
    BY DEF Appended
  <1>2. /\ Len(arrays) \in Nat /\ Len(x) \in Nat /\ Len(s) \in Nat /\ Len(arrays) <= Len(x)
    BY <1>1 DEF Tree, IsList, NewArrays, Grows
  <1>3. /\ Tree(y) /\ Len(y) = Len(x) + Len(s) /\ Grows(x, y)
    BY <1>1, AddArrays
  <1>4. /\ \A a \in 1 .. Len(x) : y[a] = x[a]
        /\ \A a \in 1 .. Len(s) : y[Len(x) + a].elems = << >>
    BY <1>1, ConcatArrays
  <1>5. \A a \in Len(x) + 1 .. Len(y) : y[a].elems = << >>
    <2>1. ASSUME NEW a \in Len(x) + 1 .. Len(y) PROVE y[a].elems = << >>
      <3>1. a - Len(x) \in 1 .. Len(s) /\ a = Len(x) + (a - Len(x))
        BY <1>2, <1>3
      <3> QED BY <1>4, <3>1
    <2> QED BY <2>1
  <1>6. Grows(arrays, y)
    BY <1>1, <1>3, GrowsTwice
  <1>7. \A a \in 1 .. Len(arrays) : y[a] = arrays[a]
    BY <1>1, <1>2, <1>4
  <1>8. \A a \in Len(arrays) + 1 .. Len(y) : y[a].elems = << >>
    <2>1. ASSUME NEW a \in Len(arrays) + 1 .. Len(y) PROVE y[a].elems = << >>
      <3>1. \/ a \in 1 .. Len(x) /\ a \in Len(arrays) + 1 .. Len(x)
            \/ a \in Len(x) + 1 .. Len(y)
        BY <1>2, <1>3
      <3>2. CASE a \in 1 .. Len(x) /\ a \in Len(arrays) + 1 .. Len(x)
        BY <1>1, <1>4, <3>2
      <3> QED BY <1>5, <3>1, <3>2
    <2> QED BY <2>1
  <1> QED BY <1>3, <1>4, <1>5, <1>6, <1>7, <1>8 DEF Appended

LEMMA AppendedSelf ==
  ASSUME NEW arrays, Tree(arrays)
  PROVE  Appended(arrays, arrays)
  <1>1. Len(arrays) \in Nat
    BY DEF Tree, IsList
  <1> QED BY <1>1 DEF Appended, Grows

(* One element behind the others of array p. *)
AddedTo(x, y, p, e) ==
  /\ Tree(y) /\ Grows(x, y) /\ Len(y) = Len(x)
  /\ p \in 1 .. Len(x) /\ IsList(x[p].elems)
  /\ y[p].elems = Append(x[p].elems, e)
  /\ \A a \in 1 .. Len(x) : a # p => y[a] = x[a]

LEMMA AddedIs ==
  ASSUME NEW x, Tree(x), NEW p, NEW type, Points(x, p, type), NEW e,
         type # "SISController" => e.id = type, NEW y, y = AddTo(x, p, e)
  PROVE  AddedTo(x, y, p, e)
  <1>1. p \in 1 .. Len(x)
    BY DEF Points
  <1>2. Tree(y) /\ Len(y) = Len(x) /\ Grows(x, y)
    BY AddToIs
  <1>3. /\ y[p].elems = Append(x[p].elems, e)
        /\ \A a \in 1 .. Len(x) : a # p => y[a] = x[a]
        /\ IsList(x[p].elems)
    BY <1>1, AddToElems
  <1> QED BY <1>1, <1>2, <1>3 DEF AddedTo

(* The arrays of files and packages do not change, and new ones are empty. *)
InstallsKept(arrays, y) ==
  /\ \A a \in 1 .. Len(arrays) :
       arrays[a].type \in {"SISFileDescription", "SISController"} =>
         y[a].elems = arrays[a].elems
  /\ \A a \in Len(arrays) + 1 .. Len(y) :
       y[a].type \in {"SISFileDescription", "SISController"} => y[a].elems = << >>

LEMMA KeptAppended ==
  ASSUME NEW arrays, NEW x, Tree(arrays), Appended(arrays, x)
  PROVE  InstallsKept(arrays, x)
  BY DEF Appended, InstallsKept

LEMMA KeptAdded ==
  ASSUME NEW arrays, NEW x, Tree(arrays), InstallsKept(arrays, x), Grows(arrays, x), Tree(x),
         NEW p, NEW type \in {"SISIf", "SISElseIf"}, Points(x, p, type),
         NEW e, NEW y, AddedTo(x, y, p, e)
  PROVE  InstallsKept(arrays, y)
  <1>1. /\ Len(y) = Len(x) /\ Grows(x, y)
        /\ \A a \in 1 .. Len(x) : a # p => y[a] = x[a]
    BY DEF AddedTo
  <1>2. Len(arrays) \in Nat /\ Len(x) \in Nat /\ Len(arrays) <= Len(x)
    BY DEF Tree, IsList, Grows
  <1>3. \A a \in 1 .. Len(arrays) : a \in 1 .. Len(x) /\ x[a].type = arrays[a].type
    BY <1>2 DEF Grows
  <1>4. \A a \in Len(arrays) + 1 .. Len(y) : a \in 1 .. Len(x) /\ a \in Len(arrays) + 1 .. Len(x)
    BY <1>1, <1>2
  <1>5. x[p].type \notin {"SISFileDescription", "SISController"}
    BY DEF Points
  <1>6. \A a \in 1 .. Len(x) : y[a].type = x[a].type
    BY <1>1 DEF Grows
  <1> QED BY <1>1, <1>3, <1>4, <1>5, <1>6 DEF InstallsKept

(* Blocks install what they did, and a new block nothing. *)
LEMMA KeptInstalls ==
  ASSUME NEW arrays, Tree(arrays), NEW y, Tree(y), InstallsKept(arrays, y),
         NEW lines, NEW n \in Nat, NEW languages, NEW base, NEW chain,
         Allocated(arrays, lines, n, languages, base, chain)
  PROVE  \A p \in Blocks(lines, n) :
           BlockInstalls(y, InstallBlock(base[p])) = BlockInstalls(arrays, InstallBlock(base[p]))
  <1>1. \A a \in 1 .. Len(arrays) :
           arrays[a].type \in {"SISFileDescription", "SISController"} =>
             y[a].elems = arrays[a].elems
    BY DEF InstallsKept
  <1> QED BY <1>1, InstallsStay

LEMMA KeptEmpty ==
  ASSUME NEW arrays, Tree(arrays), NEW y, Tree(y), InstallsKept(arrays, y),
         NEW at \in Nat, at >= Len(arrays), BlockAt(y, InstallBlock(at))
  PROVE  BlockInstalls(y, InstallBlock(at)) = {}
  <1>1. PICK b : b = InstallBlock(at)
    OBVIOUS
  <1>2. b.files = at + 1 /\ b.embedded = at + 2
    BY <1>1 DEF InstallBlock
  <1>3. /\ at + 1 \in 1 .. Len(y) /\ y[at + 1].type = "SISFileDescription"
        /\ at + 2 \in 1 .. Len(y) /\ y[at + 2].type = "SISController"
    BY <1>1, <1>2 DEF BlockAt, Points
  <1>4. Len(arrays) \in Nat /\ Len(y) \in Nat
    BY DEF Tree, IsList
  <1>5. at + 1 \in Len(arrays) + 1 .. Len(y) /\ at + 2 \in Len(arrays) + 1 .. Len(y)
    BY <1>3, <1>4
  <1>6. y[b.files].elems = << >> /\ y[b.embedded].elems = << >>
    BY <1>2, <1>3, <1>5 DEF InstallsKept
  <1> QED BY <1>1, <1>6, NoInstalls

(* A condition is put into the block of line q. *)
PutInto(arrays, y, lines, n, languages, base, chain, q, e) ==
  /\ \A p \in Blocks(lines, n) :
       ElementsOf(y[base[p] + 3].elems) =
         ElementsOf(arrays[base[p] + 3].elems) \cup IF p = q THEN {e} ELSE {}
  /\ \A i \in Openers(lines, n, languages) : y[chain[i]].elems = arrays[chain[i]].elems

LEMMA PutIntoIs ==
  ASSUME NEW arrays, NEW x, Tree(arrays), NEW lines, NEW n \in Nat, NEW languages, NEW base,
         NEW chain, Allocated(arrays, lines, n, languages, base, chain),
         \A a \in 1 .. Len(arrays) : x[a] = arrays[a], Len(arrays) <= Len(x), Tree(x),
         NEW q \in Blocks(lines, n), NEW e, NEW p, p = base[q] + 3, NEW y, AddedTo(x, y, p, e)
  PROVE  PutInto(arrays, y, lines, n, languages, base, chain, q, e)
  <1>1. /\ IsList(x[p].elems) /\ y[p].elems = Append(x[p].elems, e)
        /\ \A a \in 1 .. Len(x) : a # p => y[a] = x[a]
    BY DEF AddedTo
  <1>2. Len(arrays) \in Nat /\ Len(x) \in Nat
    BY DEF Tree, IsList
  <1>3. \A a \in 1 .. Len(arrays) : a # p => y[a] = arrays[a]
    BY <1>1, <1>2
  <1>4. p \in 1 .. Len(arrays) /\ x[p] = arrays[p] /\ arrays[p].type = "SISIf"
    BY ArraysApart
  <1>5. ElementsOf(y[p].elems) = ElementsOf(arrays[p].elems) \cup {e}
    <2>1. ElementsOf(y[p].elems) = ElementsOf(x[p].elems) \cup {e}
      BY <1>1, AppendElements
    <2> QED BY <1>4, <2>1
  <1>6. ASSUME NEW r \in Blocks(lines, n), r # q
        PROVE  y[base[r] + 3] = arrays[base[r] + 3]
    <2>1. base[r] \in Nat /\ base[r] + 3 \in 1 .. Len(arrays) /\ base[q] \in Nat
      BY ArraysApart
    <2>2. base[r] # base[q]
      BY <1>6, ArraysApart
    <2> QED BY <1>3, <2>1, <2>2, SMTT(30)
  <1>7. \A r \in Blocks(lines, n) :
          ElementsOf(y[base[r] + 3].elems) =
            ElementsOf(arrays[base[r] + 3].elems) \cup IF r = q THEN {e} ELSE {}
    <2>1. ASSUME NEW r \in Blocks(lines, n)
          PROVE  ElementsOf(y[base[r] + 3].elems) =
                   ElementsOf(arrays[base[r] + 3].elems) \cup IF r = q THEN {e} ELSE {}
      <3>1. CASE r = q
        BY <1>5, <3>1
      <3>2. CASE r # q
        BY <1>6, <3>2
      <3> QED BY <3>1, <3>2
    <2> QED BY <2>1
  <1>8. \A i \in Openers(lines, n, languages) : y[chain[i]].elems = arrays[chain[i]].elems
    <2>1. ASSUME NEW i \in Openers(lines, n, languages)
          PROVE  y[chain[i]].elems = arrays[chain[i]].elems
      <3>1. chain[i] \in 1 .. Len(arrays) /\ arrays[chain[i]].type = "SISElseIf"
        BY ArraysApart
      <3> QED BY <1>3, <1>4, <3>1
    <2> QED BY <2>1
  <1> QED BY <1>7, <1>8 DEF PutInto

(* A branch is put behind those of the condition of line i. *)
PutBehind(arrays, y, lines, n, languages, base, chain, i, e) ==
  /\ \A p \in Blocks(lines, n) : y[base[p] + 3].elems = arrays[base[p] + 3].elems
  /\ \A j \in Openers(lines, n, languages) : j # i => y[chain[j]].elems = arrays[chain[j]].elems
  /\ y[chain[i]].elems = Append(arrays[chain[i]].elems, e)

LEMMA PutBehindIs ==
  ASSUME NEW arrays, NEW x, Tree(arrays), NEW lines, NEW n \in Nat, NEW languages, NEW base,
         NEW chain, Allocated(arrays, lines, n, languages, base, chain),
         \A a \in 1 .. Len(arrays) : x[a] = arrays[a], Len(arrays) <= Len(x), Tree(x),
         NEW i \in Openers(lines, n, languages), NEW e, NEW p, p = chain[i],
         NEW y, AddedTo(x, y, p, e)
  PROVE  PutBehind(arrays, y, lines, n, languages, base, chain, i, e)
  <1>1. /\ y[p].elems = Append(x[p].elems, e)
        /\ \A a \in 1 .. Len(x) : a # p => y[a] = x[a]
    BY DEF AddedTo
  <1>2. Len(arrays) \in Nat /\ Len(x) \in Nat
    BY DEF Tree, IsList
  <1>3. \A a \in 1 .. Len(arrays) : a # p => y[a] = arrays[a]
    BY <1>1, <1>2
  <1>4. p \in 1 .. Len(arrays) /\ x[p] = arrays[p] /\ arrays[p].type = "SISElseIf"
    BY ArraysApart, SMTT(30)
  <1>5. y[chain[i]].elems = Append(arrays[chain[i]].elems, e)
    BY <1>1, <1>4
  <1>6. \A r \in Blocks(lines, n) : y[base[r] + 3].elems = arrays[base[r] + 3].elems
    <2>1. ASSUME NEW r \in Blocks(lines, n)
          PROVE  y[base[r] + 3].elems = arrays[base[r] + 3].elems
      <3>1. base[r] + 3 \in 1 .. Len(arrays) /\ arrays[base[r] + 3].type = "SISIf"
        BY ArraysApart
      <3> QED BY <1>3, <1>4, <3>1
    <2> QED BY <2>1
  <1>7. \A j \in Openers(lines, n, languages) : j # i => y[chain[j]].elems = arrays[chain[j]].elems
    <2>1. ASSUME NEW j \in Openers(lines, n, languages), j # i
          PROVE  y[chain[j]].elems = arrays[chain[j]].elems
      <3>1. chain[j] \in 1 .. Len(arrays)
        BY ArraysApart
      <3>2. chain[j] # chain[i]
        BY <2>1 DEF Allocated
      <3> QED BY <1>3, <3>1, <3>2
    <2> QED BY <2>1
  <1> QED BY <1>5, <1>6, <1>7 DEF PutBehind

-----------------------------------------------------------------------------
(* f with another value at k. *)
Updated(f, k, x) == [j \in Nat |-> IF j = k THEN x ELSE f[j]]

Update(f, g, k, x) == g[k] = x /\ \A j \in Nat : j # k => g[j] = f[j]

LEMMA UpdatedIs ==
  ASSUME NEW f, NEW k \in Nat, NEW x, NEW g, g = Updated(f, k, x)
  PROVE  Update(f, g, k, x)
  BY DEF Updated, Update

LEMMA UpdateIs ==
  ASSUME NEW n \in Nat, NEW f, NEW g, NEW x, Update(f, g, n + 1, x)
  PROVE  g[n + 1] = x /\ \A m \in 0 .. n : g[m] = f[m]
  <1>1. \A m \in 0 .. n : m \in Nat /\ m # n + 1
    OBVIOUS
  <1> QED BY <1>1 DEF Update

LEMMA BlocksSoFar ==
  ASSUME NEW lines, NEW n \in Nat
  PROVE  \A k \in Blocks(lines, n) : k \in 0 .. n
  BY BlocksNext

LEMMA OpenersSoFar ==
  ASSUME NEW lines, NEW n \in Nat, NEW languages
  PROVE  \A i \in Openers(lines, n, languages) : i \in 1 .. n /\ i \in 0 .. n
  <1>1. \A i \in 1 .. n : i \in 0 .. n
    OBVIOUS
  <1> QED BY <1>1, OpenersNext

(* IF: the arrays of a block and of its condition. *)
LEMMA IfArrays ==
  ASSUME NEW arrays, Tree(arrays), NEW x, x = arrays \o BlockArrays \o <<NewArray("SISElseIf")>>
  PROVE  /\ Appended(arrays, x) /\ Len(x) = Len(arrays) + 4
         /\ BlockAt(x, InstallBlock(Len(arrays)))
         /\ Points(x, Len(arrays) + 4, "SISElseIf")
  <1>1. PICK y : y = arrays \o BlockArrays
    OBVIOUS
  <1>2. x = y \o <<NewArray("SISElseIf")>>
    BY <1>1
  <1>3. Appended(arrays, y) /\ Tree(y)
    <2>1. Appended(arrays, arrays)
      BY AppendedSelf
    <2>2. NewArrays(BlockArrays)
      BY BlockArraysIs
    <2>3. Appended(arrays, y)
      BY <1>1, <2>1, <2>2, AppendedMore
    <2> QED BY <2>3 DEF Appended
  <1>4. Len(y) = Len(arrays) + 3
    BY <1>1, AddArrays, BlockArraysIs
  <1>5. BlockAt(y, InstallBlock(Len(arrays)))
    BY <1>1, BlockIsNew
  <1>6. Appended(arrays, x) /\ Appended(y, x)
    BY <1>2, <1>3, AppendedMore, NewArrayIs
  <1>7. Len(x) = Len(y) + 1 /\ Points(x, Len(y) + 1, "SISElseIf")
    BY <1>2, <1>3, ChainIsNew
  <1>8. BlockAt(x, InstallBlock(Len(arrays)))
    BY <1>3, <1>5, <1>6, BlockGrows DEF Appended
  <1>9. Len(arrays) \in Nat
    BY DEF Tree, IsList
  <1>10. Len(y) + 1 = Len(arrays) + 4
    BY <1>4, <1>9
  <1> QED BY <1>6, <1>7, <1>8, <1>10

LEMMA OneOpening ==
  ASSUME NEW lines, NEW languages, NEW b, NEW c, NEW h, NEW i, NEW e,
         Opening(lines, languages, b, c, i) = e, NEW p
  PROVE  {Opening(lines, languages, b, c, k) : k \in {j \in {i} : h[j] = p}}
           = IF h[i] = p THEN {e} ELSE {}
  OBVIOUS

LEMMA NoOpening ==
  ASSUME NEW lines, NEW languages, NEW b, NEW c, NEW h, NEW p
  PROVE  {Opening(lines, languages, b, c, k) : k \in {j \in {} : h[j] = p}} = {}
  OBVIOUS

(* The condition of line i is put into the block of its home. *)
LEMMA PutsOne ==
  ASSUME NEW arrays, NEW y, NEW lines, NEW n, NEW languages, NEW base, NEW chain, NEW q, NEW e,
         PutInto(arrays, y, lines, n, languages, base, chain, q, e),
         NEW b, NEW c, NEW h, NEW i, Opening(lines, languages, b, c, i) = e, h[i] = q
  PROVE  Puts(arrays, y, lines, n, languages, base, b, c, h, {i})
  <1>1. ASSUME NEW p \in Blocks(lines, n)
        PROVE  ElementsOf(y[base[p] + 3].elems) =
                 ElementsOf(arrays[base[p] + 3].elems) \cup
                   {Opening(lines, languages, b, c, k) : k \in {j \in {i} : h[j] = p}}
    <2>1. ElementsOf(y[base[p] + 3].elems) =
            ElementsOf(arrays[base[p] + 3].elems) \cup IF p = q THEN {e} ELSE {}
      BY DEF PutInto
    <2>2. {Opening(lines, languages, b, c, k) : k \in {j \in {i} : h[j] = p}}
            = IF h[i] = p THEN {e} ELSE {}
      BY OneOpening
    <2> QED BY <2>1, <2>2
  <1> QED BY <1>1, Zenon DEF Puts

LEMMA PutsNone ==
  ASSUME NEW arrays, NEW y, NEW lines, NEW n, NEW languages, NEW base,
         \A p \in Blocks(lines, n) : y[base[p] + 3].elems = arrays[base[p] + 3].elems,
         NEW b, NEW c, NEW h
  PROVE  Puts(arrays, y, lines, n, languages, base, b, c, h, {})
  <1>1. ASSUME NEW p \in Blocks(lines, n)
        PROVE  ElementsOf(y[base[p] + 3].elems) =
                 ElementsOf(arrays[base[p] + 3].elems) \cup
                   {Opening(lines, languages, b, c, k) : k \in {j \in {} : h[j] = p}}
    <2>1. {Opening(lines, languages, b, c, k) : k \in {j \in {} : h[j] = p}} = {}
      BY NoOpening
    <2> QED BY <2>1
  <1> QED BY <1>1, Zenon DEF Puts

(* What IF does to the arrays, and to the tree that they hold. *)
IfLine(line, arrays, cur, stacks, at, e, more, t, d) ==
  /\ at = Len(arrays)
  /\ e = SISIf(line.cond, InstallBlock(at), at + 4)
  /\ more = AddTo(arrays \o BlockArrays \o <<NewArray("SISElseIf")>>, cur.ifs, e)
  /\ t = PushAll(stacks, cur)
  /\ d = CurrentArrays(InstallBlock(at), at + 4)

IfTree(n, level, at, base, home, chain, branches, stack, opener, b, h, c, r, s, o) ==
  /\ Update(base, b, n + 1, at)
  /\ Update(home, h, n + 1, stack[level])
  /\ Update(chain, c, n + 1, at + 4)
  /\ Update(branches, r, n + 1, <<n + 1>>)
  /\ Update(stack, s, level + 1, n + 1)
  /\ Update(opener, o, level + 1, n + 1)

LEMMA BuiltIf ==
  ASSUME NEW lines, NEW n, NEW languages, NEW what, NEW arrays, NEW cur, NEW stacks, NEW lang,
         NEW base, NEW home, NEW chain, NEW branches, NEW stack, NEW opener,
         BehindLine(lines, n, arrays, stacks), Pointers(arrays, cur, stacks),
         Built(lines, n, languages, what, arrays, cur, stacks, lang, 0,
               base, home, chain, branches, stack, opener),
         lines[n + 1].kind = "If",
         NEW at, NEW e, NEW more, NEW t, NEW d,
         IfLine(lines[n + 1], arrays, cur, stacks, at, e, more, t, d),
         NEW b, NEW h, NEW c, NEW r, NEW s, NEW o,
         IfTree(n, Level(stacks), at, base, home, chain, branches, stack, opener,
                b, h, c, r, s, o)
  PROVE  Built(lines, n + 1, languages, what, more, d, t, lang, 0, b, h, c, r, s, o)
  <1> SUFFICES ASSUME at = Len(arrays),
                      e = SISIf(lines[n + 1].cond, InstallBlock(at), at + 4),
                      more = AddTo(arrays \o BlockArrays \o <<NewArray("SISElseIf")>>,
                                   cur.ifs, e),
                      t = PushAll(stacks, cur),
                      d = CurrentArrays(InstallBlock(at), at + 4),
                      Update(base, b, n + 1, at),
                      Update(home, h, n + 1, stack[Level(stacks)]),
                      Update(chain, c, n + 1, at + 4),
                      Update(branches, r, n + 1, <<n + 1>>),
                      Update(stack, s, Level(stacks) + 1, n + 1),
                      Update(opener, o, Level(stacks) + 1, n + 1)
               PROVE  Built(lines, n + 1, languages, what, more, d, t, lang, 0,
                            b, h, c, r, s, o)
    BY Zenon DEF IfLine, IfTree
  <1>1. /\ Len(lines) \in Nat /\ n \in Nat /\ n + 1 <= Len(lines) /\ Tree(arrays)
        /\ Level(stacks) \in Nat /\ Level(stacks) = Depth(lines, n) /\ StackShape(stacks)
    BY DEF BehindLine
  <1>2. /\ Skeleton(arrays, lines, n, languages, base, home, chain, branches, 0)
        /\ Holding(arrays, lines, n, base, home, what)
        /\ Stacked(lines, n, Level(stacks), stack)
        /\ Grouped(lines, n, Level(stacks), opener, branches)
        /\ InHand(cur, stacks, base, home, chain, stack, opener)
    BY DEF Built
  <1>3. /\ Allocated(arrays, lines, n, languages, base, chain)
        /\ Homes(lines, n, languages, home)
    BY <1>2 DEF Skeleton
  <1>4. PICK level \in Nat : level = Level(stacks)
    BY <1>1
  <1>5. PICK q : q = stack[level]
    OBVIOUS
  <1>6. /\ q \in Blocks(lines, n) /\ q \in 0 .. n /\ q \in {0} \cup Headers(lines)
    <2>1. level \in 0 .. level
      OBVIOUS
    <2> QED BY <1>1, <1>2, <1>4, <1>5, <2>1, StackedBlock
  <1>a. /\ Stacked(lines, n, level, stack) /\ Grouped(lines, n, level, opener, branches)
        /\ Depth(lines, n) = level
    BY <1>1, <1>2, <1>4
  <1>b. /\ \A k \in Blocks(lines, n) : k \in 0 .. n
        /\ \A i \in Openers(lines, n, languages) : i \in 0 .. n
        /\ \A m \in 1 .. n : m \in 0 .. n
    <2>1. \A m \in 1 .. n : m \in 0 .. n
      BY <1>1
    <2> QED BY <1>1, <2>1, BlocksSoFar, OpenersSoFar
  <1>7. /\ \A k \in Blocks(lines, n) : b[k] = base[k]
        /\ b[n + 1] = at
    <2>1. b[n + 1] = at /\ \A m \in 0 .. n : b[m] = base[m]
      <3>1. Update(base, b, n + 1, at)
        BY Zenon
      <3>2. n \in Nat
        BY <1>1
      <3> QED BY ONLY <3>1, <3>2, UpdateIs
    <2> QED BY <1>b, <2>1
  <1>8. /\ \A i \in Openers(lines, n, languages) : c[i] = chain[i]
        /\ \A i \in 1 .. n : c[i] = chain[i]
        /\ c[n + 1] = at + 4
    <2>1. c[n + 1] = at + 4 /\ \A m \in 0 .. n : c[m] = chain[m]
      <3>1. Update(chain, c, n + 1, at + 4)
        BY Zenon
      <3>2. n \in Nat
        BY <1>1
      <3> QED BY ONLY <3>1, <3>2, UpdateIs
    <2> QED BY <1>b, <2>1
  <1>9. /\ \A i \in Openers(lines, n, languages) : r[i] = branches[i]
        /\ \A m \in 1 .. n : r[m] = branches[m]
        /\ r[n + 1] = <<n + 1>>
    <2>1. r[n + 1] = <<n + 1>> /\ \A m \in 0 .. n : r[m] = branches[m]
      <3>1. Update(branches, r, n + 1, <<n + 1>>)
        BY Zenon
      <3>2. n \in Nat
        BY <1>1
      <3> QED BY ONLY <3>1, <3>2, UpdateIs
    <2> QED BY <1>b, <2>1
  <1>10. /\ \A m \in 1 .. n : h[m] = home[m]
         /\ h[n + 1] = q
    <2>1. h[n + 1] = stack[Level(stacks)] /\ \A m \in 0 .. n : h[m] = home[m]
      <3>1. Update(home, h, n + 1, stack[Level(stacks)])
        BY Zenon
      <3>2. n \in Nat
        BY <1>1
      <3> QED BY ONLY <3>1, <3>2, UpdateIs
    <2> QED BY <1>4, <1>5, <1>b, <2>1
  <1>11. PICK x : x = arrays \o BlockArrays \o <<NewArray("SISElseIf")>>
    OBVIOUS
  <1>12. /\ Appended(arrays, x) /\ Len(x) = at + 4 /\ BlockAt(x, InstallBlock(at))
         /\ Points(x, at + 4, "SISElseIf")
    BY <1>1, <1>11, IfArrays
  <1>13. /\ Tree(x) /\ Grows(arrays, x) /\ \A a \in 1 .. Len(arrays) : x[a] = arrays[a]
         /\ \A a \in at + 1 .. at + 4 : x[a].elems = << >>
         /\ at \in Nat /\ Len(arrays) <= Len(x)
    <2>1. Tree(x) /\ Grows(arrays, x) /\ \A a \in 1 .. Len(arrays) : x[a] = arrays[a]
      BY <1>12 DEF Appended
    <2>2. \A a \in at + 1 .. at + 4 : x[a].elems = << >>
      BY <1>12 DEF Appended
    <2>3. at \in Nat
      BY <1>1 DEF Tree, IsList
    <2> QED BY <1>12, <2>1, <2>2, <2>3
  <1>14. cur.ifs = base[q] + 3
    <2>1. RootOf(cur) = InstallBlock(base[q])
      BY <1>2, <1>4, <1>5 DEF InHand
    <2> QED BY <2>1 DEF RootOf, InstallBlock
  <1>15. Points(x, cur.ifs, "SISIf") /\ e.id = "SISIf"
    <2>1. Points(arrays, cur.ifs, "SISIf")
      BY DEF Pointers, BlockAt
    <2>2. Points(x, cur.ifs, "SISIf")
      BY <1>1, <1>13, <2>1, PointsGrow
    <2> QED BY <2>2 DEF SISIf
  <1>16. AddedTo(x, more, cur.ifs, e)
    BY <1>11, <1>13, <1>15, AddedIs
  <1>17. /\ Tree(more) /\ Grows(x, more) /\ Len(more) = Len(x)
         /\ \A a \in 1 .. Len(x) : a # cur.ifs => more[a] = x[a]
    BY <1>16 DEF AddedTo
  <1>18. Grows(arrays, more) /\ BlockAt(more, InstallBlock(at))
         /\ Points(more, at + 4, "SISElseIf")
    BY <1>1, <1>12, <1>13, <1>17, GrowsTwice, BlockGrows, PointsGrow
  <1>19. PutInto(arrays, more, lines, n, languages, base, chain, q, e)
    BY <1>1, <1>3, <1>6, <1>13, <1>14, <1>16, PutIntoIs
  <1>20. cur.ifs \in 1 .. at
    BY DEF Pointers, BlockAt, Points
  <1>21. more[at + 3].elems = << >> /\ more[at + 4].elems = << >>
    <2>1. /\ at + 3 \in 1 .. Len(x) /\ at + 4 \in 1 .. Len(x)
          /\ at + 3 \in at + 1 .. at + 4 /\ at + 4 \in at + 1 .. at + 4
          /\ at + 3 # cur.ifs /\ at + 4 # cur.ifs
      BY <1>12, <1>13, <1>20
    <2> QED BY <1>13, <1>17, <2>1
  <1>22. Opens(lines, n + 1, languages) /\ Prior(lines, n + 1, languages) = {}
    <2>1. Earlier(lines, n + 1) = {}
      BY DEF Earlier
    <2> QED BY <2>1 DEF Opens, Prior
  <1>23. BeginsCondition(arrays, more, lines, n, languages, base, chain, branches, b, c, r)
    <2>1. \A i \in Openers(lines, n, languages) : more[chain[i]].elems = arrays[chain[i]].elems
      BY <1>19 DEF PutInto
    <2> QED BY <1>7, <1>8, <1>9, <1>21, <1>22, <2>1, Zenon DEF BeginsCondition
  <1>24. NewBlockAt(arrays, more, b[n + 1])
    BY <1>7, <1>13, <1>18, <1>21 DEF NewBlockAt
  <1>25. Opening(lines, languages, b, c, n + 1) = e
    <2>1. CondOf(lines, n + 1, languages) = lines[n + 1].cond
      BY DEF CondOf
    <2> QED BY <1>7, <1>8, <2>1 DEF Opening
  <1>26. Puts(arrays, more, lines, n, languages, base, b, c, h, {n + 1})
    BY <1>10, <1>19, <1>25, PutsOne
  <1>27. Around(lines, n + 1) = Inside(lines, q)
    <2>1. lines[n + 1].kind \notin {"EndIf", "ElseIf", "Else"}
      OBVIOUS
    <2>2. Around(lines, n + 1) = Inside(lines, stack[level])
      BY ONLY <1>1, <1>4, <1>a, <2>1, StackedAround
    <2> QED BY <1>5, <2>2
  <1>28. AddsCondition(arrays, more, lines, n, languages, base, home, chain, branches,
                       b, h, c, r, {n + 1})
    <2>1. c[n + 1] > Len(arrays) /\ Points(more, c[n + 1], "SISElseIf")
      BY <1>8, <1>13, <1>18
    <2>2. h[n + 1] \in 0 .. n /\ h[n + 1] \in {0} \cup Headers(lines)
      BY <1>6, <1>10
    <2>3. Around(lines, n + 1) = Inside(lines, h[n + 1])
      BY <1>10, <1>27
    <2> QED BY <1>10, <1>23, <1>24, <1>26, <2>1, <2>2, <2>3, Zenon DEF AddsCondition
  <1>29. Skeleton(more, lines, n + 1, languages, b, h, c, r, 0)
    <2>1. 0 = IF {n + 1} = {} THEN n + 1 ELSE 0
      OBVIOUS
    <2> QED BY <1>1, <1>2, <1>17, <1>18, <1>28, <2>1, SkeletonOpens
  <1>30. InstallsKept(arrays, more)
    <2>1. InstallsKept(arrays, x)
      BY <1>1, <1>12, KeptAppended
    <2> QED BY <1>1, <1>13, <1>15, <1>16, <2>1, KeptAdded
  <1>31. Holding(more, lines, n + 1, b, h, what)
    <2>1. \A p \in Blocks(lines, n) :
            BlockInstalls(more, InstallBlock(base[p])) = BlockInstalls(arrays, InstallBlock(base[p]))
      BY <1>1, <1>3, <1>17, <1>30, KeptInstalls
    <2>2. BlockInstalls(more, InstallBlock(at)) = {}
      BY <1>1, <1>13, <1>17, <1>18, <1>30, KeptEmpty
    <2>3. \A p \in Blocks(lines, n) :
            BlockInstalls(more, InstallBlock(b[p])) =
              BlockInstalls(arrays, InstallBlock(base[p])) \cup
                IF lines[n + 1].kind = "File" /\ h[n + 1] = p THEN {what[n + 1]} ELSE {}
      BY <1>7, <2>1
    <2>4. BlockInstalls(more, InstallBlock(b[n + 1])) =
            IF lines[n + 1].kind = "LanguageFile" THEN {what[n + 1]} ELSE {}
      BY <1>7, <2>2
    <2>5. HoldsNext(arrays, more, lines, n, base, home, what, b, h)
      BY <1>7, <1>10, <2>3, <2>4, Zenon DEF HoldsNext
    <2> QED BY <1>1, <1>2, <1>3, <2>5, HoldingNext
  <1>32. /\ s[level + 1] = n + 1 /\ \A j \in 0 .. level : s[j] = stack[j]
         /\ o[level + 1] = n + 1 /\ \A j \in 1 .. level : o[j] = opener[j]
    BY <1>4 DEF Update
  <1>33. Stacked(lines, n + 1, level + 1, s)
    <2>1. s[0] = 0 /\ \A j \in 1 .. level : s[j] = stack[j]
      <3>1. stack[0] = 0
        BY <1>2 DEF Stacked
      <3> QED BY <1>32, <3>1
    <2> QED BY <1>1, <1>2, <1>4, <1>32, <2>1, StackedIf
  <1>34. Grouped(lines, n + 1, level + 1, o, r)
    <2>1. \A k \in 1 .. n : lines[k].kind = "If" => r[k] = branches[k]
      BY <1>9
    <2>2. lines[n + 1].kind = "If" /\ r[n + 1] = <<n + 1>>
      BY <1>9
    <2>3. o[level + 1] = n + 1
      BY <1>32
    <2>4. \A j \in 1 .. level : o[j] = opener[j]
      BY <1>32
    <2>5. Len(lines) \in Nat /\ n \in Nat /\ n + 1 <= Len(lines) /\ level \in Nat
      BY <1>1, <1>4
    <2>6. OpensGroup(lines, n, level, opener, branches, o, r)
      BY <2>1, <2>2, <2>3, <2>4, Zenon DEF OpensGroup
    <2>7. Grouped(lines, n, level, opener, branches) /\ Depth(lines, n) = level
      BY <1>a
    <2>8. lines[n + 1].kind = "If"
      BY <2>2
    <2> QED BY ONLY <2>5, <2>6, <2>7, <2>8, GroupedIf, ZenonT(60)
  <1>35. /\ Level(t) = level + 1
         /\ \A i \in 1 .. level : BlockOf(t, i) = BlockOf(stacks, i) /\ t.elseIfs[i] = stacks.elseIfs[i]
         /\ BlockOf(t, level + 1) = RootOf(cur) /\ t.elseIfs[level + 1] = cur.elseIfs
    <2>1. StackShape(stacks)
      BY <1>1
    <2>2. t = PushAll(stacks, cur)
      BY Zenon
    <2>3. /\ Level(t) = Level(stacks) + 1
          /\ \A i \in 1 .. Level(stacks) : /\ BlockOf(t, i) = BlockOf(stacks, i)
                                           /\ t.elseIfs[i] = stacks.elseIfs[i]
          /\ BlockOf(t, Level(stacks) + 1) =
               [files |-> cur.files, embedded |-> cur.embedded, ifs |-> cur.ifs]
          /\ t.elseIfs[Level(stacks) + 1] = cur.elseIfs
      BY ONLY <2>1, <2>2, PushIs
    <2>4. /\ Level(t) = level + 1
          /\ \A i \in 1 .. level : BlockOf(t, i) = BlockOf(stacks, i) /\ t.elseIfs[i] = stacks.elseIfs[i]
          /\ BlockOf(t, level + 1) =
               [files |-> cur.files, embedded |-> cur.embedded, ifs |-> cur.ifs]
          /\ t.elseIfs[level + 1] = cur.elseIfs
      BY ONLY <1>4, <2>3
    <2> QED BY ONLY <2>4, Zenon DEF RootOf
  <1>36. InHand(d, t, b, h, c, s, o)
    <2>1. RootOf(d) = InstallBlock(b[s[Level(t)]])
      BY <1>7, <1>32, <1>35 DEF RootOf, CurrentArrays, InstallBlock
    <2>2. d.elseIfs = c[o[Level(t)]]
      BY <1>8, <1>32, <1>35 DEF CurrentArrays
    <2>3. \A j \in 1 .. level : opener[j] \in 1 .. n
      BY <1>2, <1>4 DEF Grouped
    <2>4. ASSUME NEW j \in 1 .. level + 1
          PROVE  /\ BlockOf(t, j) = InstallBlock(b[s[j - 1]])
                 /\ j > 1 => t.elseIfs[j] = c[o[j - 1]]
                 /\ h[o[j]] = s[j - 1]
      <3>1. j - 1 \in 0 .. level /\ s[j - 1] = stack[j - 1]
        BY <1>32
      <3>2. stack[j - 1] \in Blocks(lines, n)
        BY <1>1, <1>2, <1>4, <3>1, StackedBlock
      <3>3. b[s[j - 1]] = base[stack[j - 1]]
        BY <1>7, <3>1, <3>2
      <3>4. CASE j \in 1 .. level
        <4>1. /\ BlockOf(stacks, j) = InstallBlock(base[stack[j - 1]])
              /\ j > 1 => stacks.elseIfs[j] = chain[opener[j - 1]]
              /\ home[opener[j]] = stack[j - 1]
          BY <1>2, <1>4, <3>4 DEF InHand
        <4>2. j > 1 => j - 1 \in 1 .. level /\ o[j - 1] = opener[j - 1]
          BY <1>32, <3>4
        <4>3. j > 1 => c[o[j - 1]] = chain[opener[j - 1]]
          BY <1>8, <2>3, <4>2
        <4>4. h[o[j]] = home[opener[j]]
          BY <1>10, <1>32, <2>3, <3>4
        <4> QED BY <1>35, <3>1, <3>3, <3>4, <4>1, <4>3, <4>4
      <3>5. CASE j = level + 1
        <4>1. j - 1 = level /\ s[j - 1] = q
          BY <1>5, <1>32, <3>1, <3>5
        <4>2. RootOf(cur) = InstallBlock(base[q])
          BY <1>2, <1>4, <1>5 DEF InHand
        <4>3. BlockOf(t, j) = InstallBlock(b[s[j - 1]])
          BY <1>5, <1>35, <3>3, <3>5, <4>1, <4>2
        <4>4. j > 1 => t.elseIfs[j] = c[o[j - 1]]
          <5>1. j > 1 => level \in 1 .. level /\ level > 0
            BY <3>5
          <5>2. level > 0 => cur.elseIfs = chain[opener[level]]
            BY <1>2, <1>4 DEF InHand
          <5>3. level \in 1 .. level => c[o[level]] = chain[opener[level]]
            BY <1>8, <1>32, <2>3
          <5> QED BY <1>35, <3>5, <4>1, <5>1, <5>2, <5>3
        <4>5. h[o[j]] = s[j - 1]
          BY <1>10, <1>32, <3>5, <4>1
        <4> QED BY <4>3, <4>4, <4>5
      <3> QED BY <3>4, <3>5
    <2> QED BY <1>35, <2>1, <2>2, <2>4, Zenon DEF InHand
  <1> QED BY <1>29, <1>31, <1>33, <1>34, <1>35, <1>36, Zenon DEF Built


(* ELSEIF and ELSE. *)
LEMMA BuiltElse ==
  ASSUME NEW lines, NEW n, NEW languages, NEW what, NEW arrays, NEW cur, NEW stacks, NEW lang,
         NEW base, NEW home, NEW chain, NEW branches, NEW stack, NEW opener,
         BehindLine(lines, n, arrays, stacks), Pointers(arrays, cur, stacks),
         Level(stacks) > 0,
         Built(lines, n, languages, what, arrays, cur, stacks, lang, 0,
               base, home, chain, branches, stack, opener),
         lines[n + 1].kind \in {"ElseIf", "Else"},
         NEW at, at = Len(arrays),
         NEW e,
         e = SISElseIf(IF lines[n + 1].kind = "Else" THEN Always ELSE lines[n + 1].cond,
                       InstallBlock(at)),
         NEW more, more = AddTo(arrays \o BlockArrays, cur.elseIfs, e),
         NEW d, d = CurrentArrays(InstallBlock(at), cur.elseIfs),
         NEW b, Update(base, b, n + 1, at),
         NEW i, i = opener[Level(stacks)],
         NEW r, Update(branches, r, i, Append(branches[i], n + 1)),
         NEW s, Update(stack, s, Level(stacks), n + 1)
  PROVE  Built(lines, n + 1, languages, what, more, d, stacks, lang, 0,
               b, home, chain, r, s, opener)
  <1>1. /\ Len(lines) \in Nat /\ n \in Nat /\ n + 1 <= Len(lines) /\ Tree(arrays)
        /\ Level(stacks) \in Nat /\ Level(stacks) = Depth(lines, n) /\ StackShape(stacks)
    BY DEF BehindLine
  <1>2. /\ Skeleton(arrays, lines, n, languages, base, home, chain, branches, 0)
        /\ Holding(arrays, lines, n, base, home, what)
        /\ Stacked(lines, n, Level(stacks), stack)
        /\ Grouped(lines, n, Level(stacks), opener, branches)
        /\ InHand(cur, stacks, base, home, chain, stack, opener)
    BY DEF Built
  <1>3. /\ Allocated(arrays, lines, n, languages, base, chain)
        /\ Homes(lines, n, languages, home)
        /\ Branched(arrays, lines, n, languages, base, chain, branches)
    BY <1>2 DEF Skeleton
  <1>4. PICK level \in Nat \ {0} : level = Level(stacks)
    BY <1>1
  <1>5. /\ Stacked(lines, n, level, stack) /\ Grouped(lines, n, level, opener, branches)
        /\ Depth(lines, n) = level /\ level \in 1 .. level /\ i = opener[level]
    BY <1>1, <1>2, <1>4
  <1>6. /\ i \in 1 .. n /\ lines[i].kind = "If" /\ Depth(lines, i) = level
        /\ Group(lines, n, level) = ElementsOf(branches[i])
    BY <1>5 DEF Grouped
  <1>7. i \in Openers(lines, n, languages)
    BY <1>6 DEF Openers
  <1>8. /\ \A k \in Blocks(lines, n) : b[k] = base[k]
        /\ b[n + 1] = at
    <2>1. b[n + 1] = at /\ \A m \in 0 .. n : b[m] = base[m]
      <3>1. Update(base, b, n + 1, at)
        BY Zenon
      <3>2. n \in Nat
        BY <1>1
      <3> QED BY ONLY <3>1, <3>2, UpdateIs
    <2>2. \A k \in Blocks(lines, n) : k \in 0 .. n
      BY <1>1, BlocksSoFar
    <2> QED BY <2>1, <2>2
  <1>9. /\ r[i] = Append(branches[i], n + 1)
        /\ \A k \in 1 .. n : k # i => r[k] = branches[k]
        /\ \A k \in Openers(lines, n, languages) : k # i => r[k] = branches[k]
    <2>1. \A k \in Openers(lines, n, languages) : k \in 1 .. n
      BY <1>1, OpenersSoFar
    <2> QED BY <2>1 DEF Update
  <1>10. PICK x : x = arrays \o BlockArrays
    OBVIOUS
  <1>11. /\ Appended(arrays, x) /\ Len(x) = at + 3 /\ BlockAt(x, InstallBlock(at))
    <2>1. Appended(arrays, arrays)
      BY <1>1, AppendedSelf
    <2>2. NewArrays(BlockArrays)
      BY BlockArraysIs
    <2>3. Appended(arrays, x)
      BY <1>1, <1>10, <2>1, <2>2, AppendedMore
    <2>4. Len(x) = at + 3
      BY <1>1, <1>10, AddArrays, BlockArraysIs
    <2> QED BY <1>1, <1>10, <2>3, <2>4, BlockIsNew
  <1>12. /\ Tree(x) /\ Grows(arrays, x) /\ \A a \in 1 .. Len(arrays) : x[a] = arrays[a]
         /\ \A a \in at + 1 .. at + 3 : x[a].elems = << >>
         /\ at \in Nat /\ Len(arrays) <= Len(x)
    <2>1. Tree(x) /\ Grows(arrays, x) /\ \A a \in 1 .. Len(arrays) : x[a] = arrays[a]
      BY <1>11 DEF Appended
    <2>2. \A a \in at + 1 .. at + 3 : x[a].elems = << >>
      BY <1>11 DEF Appended
    <2>3. at \in Nat
      BY <1>1 DEF Tree, IsList
    <2> QED BY <1>11, <2>1, <2>2, <2>3
  <1>13. cur.elseIfs = chain[i]
    BY <1>2, <1>4, <1>5 DEF InHand
  <1>14. /\ Points(x, cur.elseIfs, "SISElseIf") /\ e.id = "SISElseIf"
         /\ cur.elseIfs \in 1 .. at
    <2>1. Points(arrays, cur.elseIfs, "SISElseIf")
      BY DEF Pointers, ChainAt
    <2>2. Points(x, cur.elseIfs, "SISElseIf")
      BY <1>1, <1>12, <2>1, PointsGrow
    <2> QED BY <2>1, <2>2 DEF SISElseIf, Points
  <1>15. AddedTo(x, more, cur.elseIfs, e)
    BY <1>10, <1>12, <1>14, AddedIs
  <1>16. /\ Tree(more) /\ Grows(x, more) /\ Len(more) = Len(x)
         /\ \A a \in 1 .. Len(x) : a # cur.elseIfs => more[a] = x[a]
    BY <1>15 DEF AddedTo
  <1>17. Grows(arrays, more) /\ BlockAt(more, InstallBlock(at))
    BY <1>1, <1>11, <1>12, <1>16, GrowsTwice, BlockGrows
  <1>18. PutBehind(arrays, more, lines, n, languages, base, chain, i, e)
    BY <1>1, <1>3, <1>7, <1>12, <1>13, <1>15, PutBehindIs
  <1>19. more[at + 3].elems = << >>
    <2>1. /\ at + 3 \in 1 .. Len(x) /\ at + 3 \in at + 1 .. at + 3 /\ at + 3 # cur.elseIfs
      BY <1>11, <1>12, <1>14
    <2> QED BY <1>12, <1>16, <2>1
  <1>20. n + 1 \in Blocks(lines, n + 1) /\ ~ Opens(lines, n + 1, languages)
    BY <1>1, BlocksNext DEF Opens
  <1>21. Around(lines, n + 1) = Around(lines, i)
    <2>1. Around(lines, n + 1) = Inside(lines, stack[level - 1])
      BY <1>1, <1>4, <1>5, StackedAroundElse
    <2>2. home[i] = stack[level - 1]
      BY <1>2, <1>4, <1>5 DEF InHand
    <2>3. Around(lines, i) = Inside(lines, home[i])
      BY <1>3, <1>6, <1>7 DEF Homes
    <2> QED BY <2>1, <2>2, <2>3
  <1>22. Prior(lines, n + 1, languages) = ElementsOf(branches[i])
    <2>1. Depth(lines, n + 1) = level
      BY <1>1, <1>5, DepthNext
    <2>2. Earlier(lines, n + 1) = Group(lines, n, level)
      BY <1>1, <2>1, EarlierNext
    <2> QED BY <1>6, <2>2 DEF Prior
  <1>23. Slotted(lines, languages, i, Len(branches[i]) + 1, n + 1)
    BY <1>6 DEF Slotted
  <1>24. e = Branch(lines, languages, b, n + 1)
    <2>1. CondOf(lines, n + 1, languages)
            = IF lines[n + 1].kind = "Else" THEN Always ELSE lines[n + 1].cond
      BY DEF CondOf
    <2> QED BY <1>8, <2>1 DEF Branch
  <1>25. GoesOnWith(arrays, more, lines, n, languages, base, chain, branches, i, b, r)
    <2>1. /\ \A j \in Openers(lines, n, languages) :
               j # i => more[chain[j]].elems = arrays[chain[j]].elems
          /\ more[chain[i]].elems
               = Append(arrays[chain[i]].elems, Branch(lines, languages, b, n + 1))
      BY <1>18, <1>24 DEF PutBehind
    <2> QED BY <1>8, <1>9, <1>20, <1>21, <1>22, <1>23, <2>1, Zenon DEF GoesOnWith
  <1>26. NewBlockAt(arrays, more, b[n + 1])
    BY <1>8, <1>12, <1>17, <1>19 DEF NewBlockAt
  <1>27. Puts(arrays, more, lines, n, languages, base, b, chain, home, {})
    <2>1. \A p \in Blocks(lines, n) : more[base[p] + 3].elems = arrays[base[p] + 3].elems
      BY <1>18 DEF PutBehind
    <2> QED BY <2>1, PutsNone
  <1>28. AddsBranch(arrays, more, lines, n, languages, base, home, chain, branches, 0,
                    i, b, r, {})
    BY <1>25, <1>26, <1>27, Zenon DEF AddsBranch
  <1>29. Skeleton(more, lines, n + 1, languages, b, home, chain, r, 0)
    <2>1. 0 = IF {} = {} THEN 0 ELSE 0
      OBVIOUS
    <2> QED BY <1>1, <1>2, <1>7, <1>16, <1>17, <1>28, <2>1, SkeletonContinues
  <1>30. InstallsKept(arrays, more)
    <2>1. InstallsKept(arrays, x)
      BY <1>1, <1>11, KeptAppended
    <2> QED BY <1>1, <1>12, <1>14, <1>15, <2>1, KeptAdded
  <1>31. Holding(more, lines, n + 1, b, home, what)
    <2>1. \A p \in Blocks(lines, n) :
            BlockInstalls(more, InstallBlock(base[p])) = BlockInstalls(arrays, InstallBlock(base[p]))
      BY <1>1, <1>3, <1>16, <1>30, KeptInstalls
    <2>2. BlockInstalls(more, InstallBlock(at)) = {}
      BY <1>1, <1>12, <1>16, <1>17, <1>30, KeptEmpty
    <2>3. \A p \in Blocks(lines, n) :
            BlockInstalls(more, InstallBlock(b[p])) =
              BlockInstalls(arrays, InstallBlock(base[p])) \cup
                IF lines[n + 1].kind = "File" /\ home[n + 1] = p THEN {what[n + 1]} ELSE {}
      BY <1>8, <2>1
    <2>4. BlockInstalls(more, InstallBlock(b[n + 1])) =
            IF lines[n + 1].kind = "LanguageFile" THEN {what[n + 1]} ELSE {}
      BY <1>8, <2>2
    <2>5. HoldsNext(arrays, more, lines, n, base, home, what, b, home)
      BY <1>8, <2>3, <2>4, Zenon DEF HoldsNext
    <2> QED BY <1>1, <1>2, <1>3, <2>5, HoldingNext
  <1>32. s[level] = n + 1 /\ \A j \in 0 .. level - 1 : s[j] = stack[j]
    BY <1>4 DEF Update
  <1>33. Stacked(lines, n + 1, level, s)
    <2>1. s[0] = 0 /\ \A j \in 1 .. level - 1 : s[j] = stack[j]
      <3>1. stack[0] = 0
        BY <1>2 DEF Stacked
      <3> QED BY <1>4, <1>32, <3>1
    <2> QED BY <1>1, <1>4, <1>5, <1>32, <2>1, StackedElse
  <1>34. Grouped(lines, n + 1, level, opener, r)
    <2>1. IsList(branches[i])
      BY <1>3, <1>7 DEF Branched
    <2>2. IsList(branches[opener[level]])
      BY <1>5, <2>1
    <2>3. r[opener[level]] = Append(branches[opener[level]], n + 1)
      BY <1>5, <1>9
    <2>4. \A k \in 1 .. n : k # opener[level] => r[k] = branches[k]
      BY <1>5, <1>9
    <2>5. lines[n + 1].kind \in {"ElseIf", "Else"}
      OBVIOUS
    <2>6. Len(lines) \in Nat /\ n \in Nat /\ n + 1 <= Len(lines) /\ level \in Nat \ {0}
      BY <1>1, <1>4
    <2>7. Grouped(lines, n, level, opener, branches) /\ Depth(lines, n) = level
      BY <1>5
    <2> QED BY ONLY <2>2, <2>3, <2>4, <2>5, <2>6, <2>7, GroupedElse
  <1>35. InHand(d, stacks, b, home, chain, s, opener)
    <2>1. RootOf(d) = InstallBlock(b[s[level]])
      BY <1>8, <1>32 DEF RootOf, CurrentArrays, InstallBlock
    <2>2. d.elseIfs = chain[opener[level]]
      BY <1>5, <1>13 DEF CurrentArrays
    <2>3. ASSUME NEW j \in 1 .. level
          PROVE  /\ BlockOf(stacks, j) = InstallBlock(b[s[j - 1]])
                 /\ j > 1 => stacks.elseIfs[j] = chain[opener[j - 1]]
                 /\ home[opener[j]] = s[j - 1]
      <3>1. j - 1 \in 0 .. level - 1 /\ j - 1 \in 0 .. level /\ s[j - 1] = stack[j - 1]
        BY <1>4, <1>32
      <3>2. stack[j - 1] \in Blocks(lines, n)
        BY <1>1, <1>4, <1>5, <3>1, StackedBlock
      <3>3. /\ BlockOf(stacks, j) = InstallBlock(base[stack[j - 1]])
            /\ j > 1 => stacks.elseIfs[j] = chain[opener[j - 1]]
            /\ home[opener[j]] = stack[j - 1]
        BY <1>2, <1>4 DEF InHand
      <3> QED BY <1>8, <3>1, <3>2, <3>3
    <2> QED BY <1>4, <2>1, <2>2, <2>3, Zenon DEF InHand
  <1>36. Stacked(lines, n + 1, Level(stacks), s) /\ Grouped(lines, n + 1, Level(stacks), opener, r)
    BY <1>4, <1>33, <1>34
  <1> QED BY <1>29, <1>31, <1>35, <1>36, Zenon DEF Built

-----------------------------------------------------------------------------
(* z has the arrays of the language block's line n + 1, which begin at at. *)
LanguageAdded(arrays, z, lines, n, languages, at, base, home, chain, branches,
              b, h, c, r, late) ==
  /\ Tree(z) /\ Grows(arrays, z) /\ InstallsKept(arrays, z)
  /\ at \in Nat /\ at >= Len(arrays) /\ BlockAt(z, InstallBlock(at)) /\ b[n + 1] = at
  /\ \A k \in Blocks(lines, n) : b[k] = base[k]
  /\ \A m \in 1 .. n : h[m] = home[m]
  /\ \A k \in 1 .. n : lines[k].kind = "If" => c[k] = chain[k] /\ r[k] = branches[k]
  /\ Skeleton(z, lines, n + 1, languages, b, h, c, r, late)

(* Its file is put into the new block. *)
LEMMA BuiltLanguage ==
  ASSUME NEW lines, NEW n, NEW languages, NEW what, NEW arrays, NEW cur, NEW stacks,
         NEW lang, NEW pending,
         NEW base, NEW home, NEW chain, NEW branches, NEW stack, NEW opener,
         BehindLine(lines, n, arrays, stacks),
         Built(lines, n, languages, what, arrays, cur, stacks, lang, pending,
               base, home, chain, branches, stack, opener),
         lines[n + 1].kind = "LanguageFile",
         NEW z, NEW at, NEW b, NEW h, NEW c, NEW r, NEW late,
         LanguageAdded(arrays, z, lines, n, languages, at, base, home, chain, branches,
                       b, h, c, r, late),
         NEW more,
         PutsItems(z, more, lines, n + 1, languages, b, c, n + 1, {what[n + 1]}),
         NEW l, late # 0 => InLanguages(lines, n + 1, languages, b, h, c, r,
                                        stack[Level(stacks)], l, late)
  PROVE  Built(lines, n + 1, languages, what, more, cur, stacks, l, late,
               b, h, c, r, stack, opener)
  <1>1. /\ Len(lines) \in Nat /\ n \in Nat /\ n + 1 <= Len(lines) /\ Tree(arrays)
        /\ Level(stacks) \in Nat /\ Level(stacks) = Depth(lines, n)
    BY DEF BehindLine
  <1>2. /\ Skeleton(arrays, lines, n, languages, base, home, chain, branches, pending)
        /\ Holding(arrays, lines, n, base, home, what)
        /\ Stacked(lines, n, Level(stacks), stack)
        /\ Grouped(lines, n, Level(stacks), opener, branches)
        /\ InHand(cur, stacks, base, home, chain, stack, opener)
    BY DEF Built
  <1>3. /\ Tree(z) /\ Grows(arrays, z) /\ InstallsKept(arrays, z)
        /\ at \in Nat /\ at >= Len(arrays) /\ BlockAt(z, InstallBlock(at)) /\ b[n + 1] = at
        /\ \A k \in Blocks(lines, n) : b[k] = base[k]
        /\ \A m \in 1 .. n : h[m] = home[m]
        /\ \A k \in 1 .. n : lines[k].kind = "If" => c[k] = chain[k] /\ r[k] = branches[k]
        /\ Skeleton(z, lines, n + 1, languages, b, h, c, r, late)
    BY DEF LanguageAdded
  <1>4. /\ Tree(more) /\ Grows(z, more)
        /\ SameConditions(z, more, lines, n + 1, languages, b, c)
        /\ \A q \in Blocks(lines, n + 1) :
             BlockInstalls(more, InstallBlock(b[q])) =
               BlockInstalls(z, InstallBlock(b[q])) \cup IF q = n + 1 THEN {what[n + 1]} ELSE {}
    BY DEF PutsItems
  <1>5. n + 1 \in Nat
    BY <1>1
  <1>6. Skeleton(more, lines, n + 1, languages, b, h, c, r, late)
    BY <1>3, <1>4, <1>5, SkeletonPut
  <1>7. Allocated(arrays, lines, n, languages, base, chain) /\ Homes(lines, n, languages, home)
    BY <1>2 DEF Skeleton
  <1>8. Holding(more, lines, n + 1, b, h, what)
    <2>1. \A p \in Blocks(lines, n) : p \in Blocks(lines, n + 1) /\ p # n + 1
      <3>1. \A p \in Blocks(lines, n) : p \in Blocks(lines, n + 1) /\ p \in 0 .. n
        BY <1>1, BlocksNext
      <3> QED BY <1>1, <3>1
    <2>2. \A p \in Blocks(lines, n) :
            BlockInstalls(z, InstallBlock(base[p])) = BlockInstalls(arrays, InstallBlock(base[p]))
      BY <1>1, <1>3, <1>7, KeptInstalls
    <2>3. \A p \in Blocks(lines, n) :
            BlockInstalls(more, InstallBlock(b[p])) =
              BlockInstalls(arrays, InstallBlock(base[p])) \cup
                IF lines[n + 1].kind = "File" /\ h[n + 1] = p THEN {what[n + 1]} ELSE {}
      BY <1>3, <1>4, <2>1, <2>2
    <2>4. BlockInstalls(z, InstallBlock(at)) = {}
      BY <1>1, <1>3, KeptEmpty
    <2>5. n + 1 \in Blocks(lines, n + 1)
      BY <1>1, BlocksNext
    <2>6. BlockInstalls(more, InstallBlock(b[n + 1])) =
            IF lines[n + 1].kind = "LanguageFile" THEN {what[n + 1]} ELSE {}
      BY <1>3, <1>4, <2>4, <2>5
    <2>7. HoldsNext(arrays, more, lines, n, base, home, what, b, h)
      BY <1>3, <2>3, <2>6, Zenon DEF HoldsNext
    <2> QED BY <1>1, <1>2, <1>7, <2>7, HoldingNext
  <1>9. Stacked(lines, n + 1, Level(stacks), stack)
    BY <1>1, <1>2, StackedStays
  <1>10. Grouped(lines, n + 1, Level(stacks), opener, r)
    <2>1. \A k \in 1 .. n : lines[k].kind = "If" => r[k] = branches[k]
      BY <1>3
    <2> QED BY <1>1, <1>2, <2>1, GroupedStays
  <1>11. InHand(cur, stacks, b, h, c, stack, opener)
    <2>1. \A e \in 1 .. Level(stacks) :
            c[opener[e]] = chain[opener[e]] /\ h[opener[e]] = home[opener[e]]
      <3>1. \A e \in 1 .. Level(stacks) : opener[e] \in 1 .. n /\ lines[opener[e]].kind = "If"
        BY <1>2 DEF Grouped
      <3> QED BY <1>3, <3>1
    <2>2. \A e \in 0 .. Level(stacks) : b[stack[e]] = base[stack[e]]
      <3>1. \A e \in 0 .. Level(stacks) : stack[e] \in Blocks(lines, n)
        BY <1>1, <1>2, StackedBlock
      <3> QED BY <1>3, <3>1
    <2>3. /\ Level(stacks) \in 0 .. Level(stacks)
          /\ Level(stacks) > 0 => Level(stacks) \in 1 .. Level(stacks)
          /\ \A e \in 1 .. Level(stacks) : e - 1 \in 0 .. Level(stacks)
          /\ \A e \in 1 .. Level(stacks) : e > 1 => e - 1 \in 1 .. Level(stacks)
      BY <1>1
    <2>4. RootOf(cur) = InstallBlock(b[stack[Level(stacks)]])
      BY <1>2, <2>2, <2>3 DEF InHand
    <2>5. Level(stacks) > 0 => cur.elseIfs = c[opener[Level(stacks)]]
      BY <1>2, <2>1, <2>3 DEF InHand
    <2>6. ASSUME NEW e \in 1 .. Level(stacks)
          PROVE  /\ BlockOf(stacks, e) = InstallBlock(b[stack[e - 1]])
                 /\ e > 1 => stacks.elseIfs[e] = c[opener[e - 1]]
                 /\ h[opener[e]] = stack[e - 1]
      <3>1. /\ BlockOf(stacks, e) = InstallBlock(base[stack[e - 1]])
            /\ e > 1 => stacks.elseIfs[e] = chain[opener[e - 1]]
            /\ home[opener[e]] = stack[e - 1]
        BY <1>2 DEF InHand
      <3> QED BY <2>1, <2>2, <2>3, <3>1
    <2> QED BY <2>4, <2>5, <2>6, Zenon DEF InHand
  <1> QED BY <1>6, <1>8, <1>9, <1>10, <1>11, Zenon DEF Built

(* The condition of a language block is put into the block of line q after *)
(* its last language.                                                      *)
JoinsBlock(y, z, lines, n, languages, base, chain, q, conditions) ==
  /\ Tree(z) /\ Grows(y, z) /\ Len(z) = Len(y)
  /\ \A a \in 1 .. Len(y) : a # base[q] + 3 => z[a] = y[a]
  /\ \A p \in Blocks(lines, n) :
       ElementsOf(z[base[p] + 3].elems) =
         ElementsOf(y[base[p] + 3].elems) \cup IF p = q THEN conditions ELSE {}
  /\ \A i \in Openers(lines, n, languages) : z[chain[i]].elems = y[chain[i]].elems

LEMMA LanguageJoins ==
  ASSUME NEW y, Tree(y), NEW lines, NEW n \in Nat, NEW languages, NEW base, NEW chain,
         Allocated(y, lines, n, languages, base, chain), NEW q \in Blocks(lines, n),
         NEW e, e.id = "SISIf", NEW p, p = base[q] + 3, NEW last \in BOOLEAN,
         NEW z, z = IF last THEN AddTo(y, p, e) ELSE y
  PROVE  JoinsBlock(y, z, lines, n, languages, base, chain, q, IF last THEN {e} ELSE {})
  <1>1. Len(y) \in Nat
    BY DEF Tree, IsList
  <1>2. CASE last
    <2>1. z = AddTo(y, p, e)
      BY <1>2
    <2>2. Points(y, p, "SISIf")
      BY DEF Allocated, BlockAt, InstallBlock
    <2>3. AddedTo(y, z, p, e)
      BY <2>1, <2>2, AddedIs
    <2>4. PutInto(y, z, lines, n, languages, base, chain, q, e)
      BY <1>1, <2>3, PutIntoIs
    <2> QED BY <1>2, <2>3, <2>4 DEF JoinsBlock, AddedTo, PutInto
  <1>3. CASE ~ last
    <2>1. z = y
      BY <1>3
    <2> QED BY <1>1, <1>3, <2>1 DEF JoinsBlock, Grows
  <1> QED BY <1>2, <1>3

LEMMA LanguageKeeps ==
  ASSUME NEW arrays, NEW y, Tree(arrays), Tree(y), Grows(arrays, y), InstallsKept(arrays, y),
         NEW p, Points(y, p, "SISIf"), NEW e, e.id = "SISIf", NEW last \in BOOLEAN,
         NEW z, z = IF last THEN AddTo(y, p, e) ELSE y
  PROVE  InstallsKept(arrays, z)
  <1>1. CASE last
    <2>1. z = AddTo(y, p, e)
      BY <1>1
    <2>2. AddedTo(y, z, p, e)
      BY <2>1, AddedIs
    <2> QED BY <2>2, KeptAdded
  <1>2. CASE ~ last
    BY <1>2
  <1> QED BY <1>1, <1>2

LEMMA LanguagePuts ==
  ASSUME NEW arrays, NEW y, NEW z, NEW lines, NEW n, NEW languages, NEW base, NEW chain,
         NEW q, NEW last \in BOOLEAN, NEW e,
         JoinsBlock(y, z, lines, n, languages, base, chain, q, IF last THEN {e} ELSE {}),
         \A p \in Blocks(lines, n) : y[base[p] + 3].elems = arrays[base[p] + 3].elems,
         NEW b, NEW c, NEW h, NEW i, Opening(lines, languages, b, c, i) = e, h[i] = q,
         NEW new, new = IF last THEN {i} ELSE {}
  PROVE  Puts(arrays, z, lines, n, languages, base, b, c, h, new)
  <1>1. ASSUME NEW p \in Blocks(lines, n)
        PROVE  ElementsOf(z[base[p] + 3].elems) =
                 ElementsOf(arrays[base[p] + 3].elems) \cup
                   IF p = q THEN IF last THEN {e} ELSE {} ELSE {}
    BY DEF JoinsBlock
  <1>2. ASSUME NEW p
        PROVE  {Opening(lines, languages, b, c, k) : k \in {j \in {i} : h[j] = p}}
                 = IF h[i] = p THEN {e} ELSE {}
    BY OneOpening
  <1>3. ASSUME NEW p
        PROVE  {Opening(lines, languages, b, c, k) : k \in {j \in {} : h[j] = p}} = {}
    BY NoOpening
  <1>4. CASE last
    <2>1. new = {i}
      BY <1>4
    <2> QED BY <1>1, <1>2, <1>4, <2>1 DEF Puts
  <1>5. CASE ~ last
    <2>1. new = {}
      BY <1>5
    <2> QED BY <1>1, <1>3, <1>5, <2>1 DEF Puts
  <1> QED BY <1>4, <1>5

(* The arrays of a language block and of its first language. *)
LEMMA LanguageArrays ==
  ASSUME NEW arrays, Tree(arrays), NEW at, at = Len(arrays) + 1,
         NEW x, x = Append(arrays, NewArray("SISElseIf")) \o BlockArrays
  PROVE  /\ Appended(arrays, x) /\ Len(x) = at + 3 /\ at \in Nat
         /\ BlockAt(x, InstallBlock(at)) /\ Points(x, at, "SISElseIf")
  <1>1. Len(arrays) \in Nat /\ IsList(arrays)
    BY DEF Tree, IsList
  <1>2. PICK y : y = arrays \o <<NewArray("SISElseIf")>>
    OBVIOUS
  <1>3. x = y \o BlockArrays
    BY <1>1, <1>2, AppendJoins
  <1>4. Tree(y) /\ Len(y) = at /\ Points(y, at, "SISElseIf")
    BY <1>2, ChainIsNew DEF Leads
  <1>5. Appended(arrays, y)
    BY <1>2, AppendedSelf, AppendedMore, NewArrayIs
  <1>6. Appended(arrays, x)
    BY <1>3, <1>5, AppendedMore, BlockArraysIs
  <1>7. Leads(y, x) /\ BlockAt(x, InstallBlock(at))
    BY <1>3, <1>4, BlockIsNew
  <1>8. Points(x, at, "SISElseIf")
    BY <1>4, <1>7, PointsGrow DEF Leads
  <1>9. Len(x) = Len(y) + 3
    BY <1>3, <1>4, AddArrays, BlockArraysIs
  <1> QED BY <1>1, <1>4, <1>6, <1>7, <1>8, <1>9

(* The lines of the languages before. *)
LEMMA LanguagePrior ==
  ASSUME NEW lines, NEW languages, NEW k \in Nat, lines[k].kind = "LanguageFile",
         NEW slot, slot = LanguageSlot(lines, k, languages), NEW j
  PROVE  j \in Prior(lines, k, languages) <=> j \in 1 .. k - 1 /\ j > k - slot
  BY DEF Prior

(* What the first line of a language block does to the arrays and their    *)
(* tree, and what the others do.                                           *)
FirstLanguage(languages, arrays, cur, at, e, x, last, z) ==
  /\ at = Len(arrays) + 1
  /\ e = SISIf(LanguageIs(languages[1]), InstallBlock(at), at)
  /\ x = Append(arrays, NewArray("SISElseIf")) \o BlockArrays
  /\ last \in BOOLEAN
  /\ z = IF last THEN AddTo(x, cur.ifs, e) ELSE x

FirstLanguageTree(n, at, q, last, base, home, chain, branches, b, h, c, r, late) ==
  /\ Update(base, b, n + 1, at)
  /\ Update(home, h, n + 1, q)
  /\ Update(chain, c, n + 1, at)
  /\ Update(branches, r, n + 1, <<n + 1>>)
  /\ late = IF last THEN 0 ELSE n + 1

OtherLanguage(languages, arrays, cur, lang, at, e, y, last, z) ==
  /\ at = Len(arrays)
  /\ e = SISElseIf(LanguageIs(languages[lang.done + 1]), InstallBlock(at))
  /\ y = AddTo(arrays \o BlockArrays, lang.elseIfs, e)
  /\ last \in BOOLEAN
  /\ z = IF last THEN AddTo(y, cur.ifs, lang.ifField) ELSE y

OtherLanguageTree(n, at, i, last, base, branches, b, r, late) ==
  /\ Update(base, b, n + 1, at)
  /\ Update(branches, r, i, Append(branches[i], n + 1))
  /\ late = IF last THEN 0 ELSE i

(* The first line of a language block.                                     *)
LEMMA LanguageBegins ==
  ASSUME NEW lines, NEW n, NEW languages, NEW what, NEW arrays, NEW cur, NEW stacks, NEW lang,
         NEW base, NEW home, NEW chain, NEW branches, NEW stack, NEW opener,
         BehindLine(lines, n, arrays, stacks),
         Built(lines, n, languages, what, arrays, cur, stacks, lang, 0,
               base, home, chain, branches, stack, opener),
         lines[n + 1].kind = "LanguageFile", LanguageSlot(lines, n + 1, languages) = 1,
         NEW at, NEW e, NEW x, NEW last, NEW z,
         FirstLanguage(languages, arrays, cur, at, e, x, last, z),
         NEW q, q = stack[Level(stacks)], NEW b, NEW h, NEW c, NEW r, NEW late,
         FirstLanguageTree(n, at, q, last, base, home, chain, branches, b, h, c, r, late)
  PROVE  /\ LanguageAdded(arrays, z, lines, n, languages, at, base, home, chain, branches,
                          b, h, c, r, late)
         /\ Opening(lines, languages, b, c, n + 1) = e
  <1> SUFFICES ASSUME at = Len(arrays) + 1,
                      e = SISIf(LanguageIs(languages[1]), InstallBlock(at), at),
                      x = Append(arrays, NewArray("SISElseIf")) \o BlockArrays,
                      last \in BOOLEAN, z = IF last THEN AddTo(x, cur.ifs, e) ELSE x,
                      Update(base, b, n + 1, at),
                      Update(home, h, n + 1, q),
                      Update(chain, c, n + 1, at),
                      Update(branches, r, n + 1, <<n + 1>>),
                      late = IF last THEN 0 ELSE n + 1
               PROVE  /\ LanguageAdded(arrays, z, lines, n, languages, at, base, home, chain,
                                       branches, b, h, c, r, late)
                      /\ Opening(lines, languages, b, c, n + 1) = e
    BY Zenon DEF FirstLanguage, FirstLanguageTree
  <1>1. /\ Len(lines) \in Nat /\ n \in Nat /\ n + 1 <= Len(lines) /\ Tree(arrays)
        /\ Level(stacks) \in Nat /\ Level(stacks) = Depth(lines, n)
    BY DEF BehindLine
  <1>2. /\ Skeleton(arrays, lines, n, languages, base, home, chain, branches, 0)
        /\ Stacked(lines, n, Level(stacks), stack)
        /\ InHand(cur, stacks, base, home, chain, stack, opener)
    BY DEF Built
  <1>3. Allocated(arrays, lines, n, languages, base, chain)
    BY <1>2 DEF Skeleton
  <1>4. /\ q \in Blocks(lines, n) /\ q \in 0 .. n /\ q \in {0} \cup Headers(lines)
    <2>1. Level(stacks) \in 0 .. Level(stacks)
      BY <1>1
    <2> QED BY <1>1, <1>2, <2>1, StackedBlock
  <1>5. /\ \A k \in Blocks(lines, n) : k \in 0 .. n
        /\ \A i \in Openers(lines, n, languages) : i \in 0 .. n
        /\ \A m \in 1 .. n : m \in 0 .. n
    <2>1. \A m \in 1 .. n : m \in 0 .. n
      BY <1>1
    <2> QED BY <1>1, <2>1, BlocksSoFar, OpenersSoFar
  <1>6. /\ \A k \in Blocks(lines, n) : b[k] = base[k]
        /\ b[n + 1] = at
    <2>1. b[n + 1] = at /\ \A m \in 0 .. n : b[m] = base[m]
      <3>1. Update(base, b, n + 1, at)
        OBVIOUS
      <3> QED BY ONLY <1>1, <3>1, UpdateIs
    <2> QED BY <1>5, <2>1
  <1>7. /\ \A i \in Openers(lines, n, languages) : c[i] = chain[i]
        /\ \A i \in 1 .. n : c[i] = chain[i]
        /\ c[n + 1] = at
    <2>1. c[n + 1] = at /\ \A m \in 0 .. n : c[m] = chain[m]
      <3>1. Update(chain, c, n + 1, at)
        OBVIOUS
      <3> QED BY ONLY <1>1, <3>1, UpdateIs
    <2> QED BY <1>5, <2>1
  <1>8. /\ \A i \in Openers(lines, n, languages) : r[i] = branches[i]
        /\ \A m \in 1 .. n : r[m] = branches[m]
        /\ r[n + 1] = <<n + 1>>
    <2>1. r[n + 1] = <<n + 1>> /\ \A m \in 0 .. n : r[m] = branches[m]
      <3>1. Update(branches, r, n + 1, <<n + 1>>)
        OBVIOUS
      <3> QED BY ONLY <1>1, <3>1, UpdateIs
    <2> QED BY <1>5, <2>1
  <1>9. /\ \A m \in 1 .. n : h[m] = home[m]
        /\ h[n + 1] = q
    <2>1. h[n + 1] = q /\ \A m \in 0 .. n : h[m] = home[m]
      <3>1. Update(home, h, n + 1, q)
        OBVIOUS
      <3> QED BY ONLY <1>1, <3>1, UpdateIs
    <2> QED BY <1>5, <2>1
  <1>10. /\ Appended(arrays, x) /\ Len(x) = at + 3 /\ at \in Nat
         /\ BlockAt(x, InstallBlock(at)) /\ Points(x, at, "SISElseIf")
    BY <1>1, LanguageArrays
  <1>11. /\ Tree(x) /\ Grows(arrays, x) /\ \A a \in 1 .. Len(arrays) : x[a] = arrays[a]
         /\ \A a \in Len(arrays) + 1 .. Len(x) : x[a].elems = << >>
    BY <1>10 DEF Appended
  <1>12. /\ Len(arrays) \in Nat /\ at + 3 \in Len(arrays) + 1 .. Len(x)
         /\ at \in Len(arrays) + 1 .. Len(x)
         /\ at + 3 \in 1 .. Len(x) /\ at \in 1 .. Len(x)
         /\ at > Len(arrays) /\ at >= Len(arrays)
    <2>1. Len(arrays) \in Nat
      BY <1>1 DEF Tree, IsList
    <2> QED BY <1>10, <2>1
  <1>13. cur.ifs = base[q] + 3
    <2>1. RootOf(cur) = InstallBlock(base[q])
      BY <1>2 DEF InHand
    <2> QED BY <2>1 DEF RootOf, InstallBlock
  <1>14. Allocated(x, lines, n, languages, base, chain)
    BY <1>1, <1>3, <1>11, AllocatedGrows
  <1>15. e.id = "SISIf"
    BY DEF SISIf
  <1>16. JoinsBlock(x, z, lines, n, languages, base, chain, q, IF last THEN {e} ELSE {})
    BY <1>1, <1>4, <1>11, <1>13, <1>14, <1>15, LanguageJoins
  <1>17. /\ Tree(z) /\ Grows(x, z) /\ Len(z) = Len(x)
         /\ \A a \in 1 .. Len(x) : a # base[q] + 3 => z[a] = x[a]
         /\ \A i \in Openers(lines, n, languages) : z[chain[i]].elems = x[chain[i]].elems
    BY <1>16 DEF JoinsBlock
  <1>18. Grows(arrays, z) /\ BlockAt(z, InstallBlock(at)) /\ Points(z, at, "SISElseIf")
    BY <1>1, <1>10, <1>11, <1>17, GrowsTwice, BlockGrows, PointsGrow
  <1>19. base[q] + 3 \in 1 .. Len(arrays) /\ Points(x, base[q] + 3, "SISIf")
    <2>1. BlockAt(arrays, InstallBlock(base[q])) /\ BlockAt(x, InstallBlock(base[q]))
      BY <1>3, <1>4, <1>14 DEF Allocated
    <2> QED BY <2>1 DEF BlockAt, Points, InstallBlock
  <1>20. z[at + 3].elems = << >> /\ z[at].elems = << >>
    <2>1. at + 3 # base[q] + 3 /\ at # base[q] + 3
      BY <1>12, <1>19
    <2>2. z[at + 3] = x[at + 3] /\ z[at] = x[at]
      BY <1>12, <1>17, <2>1
    <2>3. x[at + 3].elems = << >> /\ x[at].elems = << >>
      BY <1>11, <1>12
    <2> QED BY <2>2, <2>3
  <1>21. InstallsKept(arrays, z)
    <2>1. InstallsKept(arrays, x)
      BY <1>1, <1>10, KeptAppended
    <2> QED BY <1>1, <1>11, <1>13, <1>15, <1>19, <2>1, LanguageKeeps
  <1>22. /\ \A p \in Blocks(lines, n) : x[base[p] + 3].elems = arrays[base[p] + 3].elems
         /\ \A i \in Openers(lines, n, languages) : z[chain[i]].elems = arrays[chain[i]].elems
    <2>1. /\ \A p \in Blocks(lines, n) : base[p] + 3 \in 1 .. Len(arrays)
          /\ \A i \in Openers(lines, n, languages) : chain[i] \in 1 .. Len(arrays)
      BY <1>1, <1>3, ArraysApart, ZenonT(60)
    <2> QED BY <1>11, <1>17, <2>1
  <1>23. Opens(lines, n + 1, languages) /\ Prior(lines, n + 1, languages) = {}
    <2>1. n + 1 \in Nat /\ \A j \in 1 .. n + 1 - 1 : ~ (j > n + 1 - 1)
      BY <1>1
    <2>2. Prior(lines, n + 1, languages) = {}
      BY <2>1, LanguagePrior
    <2>3. Opens(lines, n + 1, languages)
      BY DEF Opens
    <2> QED BY <2>2, <2>3
  <1>24. BeginsCondition(arrays, z, lines, n, languages, base, chain, branches, b, c, r)
    BY <1>6, <1>7, <1>8, <1>20, <1>22, <1>23, Zenon DEF BeginsCondition
  <1>25. Opening(lines, languages, b, c, n + 1) = e
    <2>1. CondOf(lines, n + 1, languages) = LanguageIs(languages[1])
      BY DEF CondOf
    <2> QED BY <1>6, <1>7, <2>1 DEF Opening
  <1>26. PICK new : new = IF last THEN {n + 1} ELSE {}
    OBVIOUS
  <1>27. Puts(arrays, z, lines, n, languages, base, b, c, h, new)
    <2>1. \A p \in Blocks(lines, n) : x[base[p] + 3].elems = arrays[base[p] + 3].elems
      BY <1>22
    <2>2. h[n + 1] = q
      BY <1>9
    <2>3. last \in BOOLEAN
      OBVIOUS
    <2> QED BY ONLY <1>16, <1>25, <1>26, <2>1, <2>2, <2>3, LanguagePuts
  <1>28. AddsCondition(arrays, z, lines, n, languages, base, home, chain, branches,
                       b, h, c, r, new)
    <2>1. NewBlockAt(arrays, z, b[n + 1])
      BY <1>6, <1>10, <1>12, <1>18, <1>20 DEF NewBlockAt
    <2>2. c[n + 1] > Len(arrays) /\ Points(z, c[n + 1], "SISElseIf")
      BY <1>7, <1>12, <1>18
    <2>3. h[n + 1] \in 0 .. n /\ h[n + 1] \in {0} \cup Headers(lines)
      BY <1>4, <1>9
    <2>4. Around(lines, n + 1) = Inside(lines, h[n + 1])
      <3>1. Around(lines, n + 1) = Inside(lines, stack[Level(stacks)])
        <4>1. lines[n + 1].kind \notin {"EndIf", "ElseIf", "Else"}
          OBVIOUS
        <4> QED BY ONLY <1>1, <1>2, <4>1, StackedAround
      <3> QED BY <1>9, <3>1
    <2>5. new \in {{}, {n + 1}}
      BY <1>26
    <2> QED BY <1>9, <1>24, <1>27, <2>1, <2>2, <2>3, <2>4, <2>5, Zenon DEF AddsCondition
  <1>29. Skeleton(z, lines, n + 1, languages, b, h, c, r, late)
    <2>1. late = IF new = {} THEN n + 1 ELSE 0
      BY <1>26
    <2> QED BY <1>1, <1>2, <1>17, <1>18, <1>28, <2>1, SkeletonOpens
  <1>30. \A k \in 1 .. n : lines[k].kind = "If" => c[k] = chain[k] /\ r[k] = branches[k]
    BY <1>7, <1>8
  <1>31. LanguageAdded(arrays, z, lines, n, languages, at, base, home, chain, branches,
                       b, h, c, r, late)
    BY <1>6, <1>9, <1>10, <1>12, <1>17, <1>18, <1>21, <1>29, <1>30, Zenon DEF LanguageAdded
  <1> QED BY <1>25, <1>31

(* Its other lines.                                                        *)
LEMMA LanguageGoesOn ==
  ASSUME NEW lines, NEW n, NEW languages, NEW what, NEW arrays, NEW cur, NEW stacks, NEW lang,
         NEW base, NEW home, NEW chain, NEW branches, NEW stack, NEW opener, NEW i, i # 0,
         BehindLine(lines, n, arrays, stacks),
         Built(lines, n, languages, what, arrays, cur, stacks, lang, i,
               base, home, chain, branches, stack, opener),
         lines[n + 1].kind = "LanguageFile", lang.done \in Nat \ {0},
         LanguageSlot(lines, n + 1, languages) = lang.done + 1,
         NEW at, NEW e, NEW y, NEW last, NEW z,
         OtherLanguage(languages, arrays, cur, lang, at, e, y, last, z),
         NEW b, NEW r, NEW late, OtherLanguageTree(n, at, i, last, base, branches, b, r, late)
  PROVE  LanguageAdded(arrays, z, lines, n, languages, at, base, home, chain, branches,
                       b, home, chain, r, late)
  <1> SUFFICES ASSUME at = Len(arrays),
                      e = SISElseIf(LanguageIs(languages[lang.done + 1]), InstallBlock(at)),
                      y = AddTo(arrays \o BlockArrays, lang.elseIfs, e),
                      last \in BOOLEAN,
                      z = IF last THEN AddTo(y, cur.ifs, lang.ifField) ELSE y,
                      Update(base, b, n + 1, at),
                      Update(branches, r, i, Append(branches[i], n + 1)),
                      late = IF last THEN 0 ELSE i
               PROVE  LanguageAdded(arrays, z, lines, n, languages, at, base, home, chain,
                                    branches, b, home, chain, r, late)
    BY Zenon DEF OtherLanguage, OtherLanguageTree
  <1>1. /\ Len(lines) \in Nat /\ n \in Nat /\ n + 1 <= Len(lines) /\ Tree(arrays)
        /\ Level(stacks) \in Nat /\ Level(stacks) = Depth(lines, n)
    BY DEF BehindLine
  <1>2. /\ Skeleton(arrays, lines, n, languages, base, home, chain, branches, i)
        /\ Stacked(lines, n, Level(stacks), stack)
        /\ InHand(cur, stacks, base, home, chain, stack, opener)
        /\ InLanguages(lines, n, languages, base, home, chain, branches,
                       stack[Level(stacks)], lang, i)
    BY DEF Built
  <1>3. /\ Allocated(arrays, lines, n, languages, base, chain)
        /\ Homes(lines, n, languages, home)
        /\ Branched(arrays, lines, n, languages, base, chain, branches)
    BY <1>2 DEF Skeleton
  <1>4. PICK q : q = stack[Level(stacks)]
    OBVIOUS
  <1>5. q \in Blocks(lines, n)
    <2>1. Level(stacks) \in 0 .. Level(stacks)
      BY <1>1
    <2> QED BY <1>1, <1>2, <1>4, <2>1, StackedBlock
  <1>6. /\ i = n + 1 - lang.done
        /\ i \in Openers(lines, n, languages) /\ lines[i].kind = "LanguageFile"
        /\ home[i] = q
        /\ Len(branches[i]) = lang.done /\ ElementsOf(branches[i]) = i .. n
        /\ lang.ifField = Opening(lines, languages, base, chain, i)
        /\ lang.elseIfs = chain[i]
    BY <1>2, <1>4 DEF InLanguages
  <1>7. i \in 1 .. n
    BY <1>1, <1>6, OpenersSoFar
  <1>8. /\ \A k \in Blocks(lines, n) : b[k] = base[k]
        /\ b[n + 1] = at /\ b[i] = base[i]
    <2>1. b[n + 1] = at /\ \A m \in 0 .. n : b[m] = base[m]
      BY <1>1, UpdateIs
    <2>2. \A k \in Blocks(lines, n) : k \in 0 .. n
      BY <1>1, BlocksSoFar
    <2> QED BY <1>7, <2>1, <2>2
  <1>9. /\ r[i] = Append(branches[i], n + 1)
        /\ \A k \in 1 .. n : k # i => r[k] = branches[k]
        /\ \A k \in Openers(lines, n, languages) : k # i => r[k] = branches[k]
    <2>1. \A k \in Openers(lines, n, languages) : k \in 1 .. n
      BY <1>1, OpenersSoFar
    <2> QED BY <2>1 DEF Update
  <1>10. PICK x : x = arrays \o BlockArrays
    OBVIOUS
  <1>11. /\ Appended(arrays, x) /\ Len(x) = at + 3 /\ BlockAt(x, InstallBlock(at))
    <2>1. Appended(arrays, arrays)
      BY <1>1, AppendedSelf
    <2>2. NewArrays(BlockArrays)
      BY BlockArraysIs
    <2>3. Appended(arrays, x)
      BY <1>1, <1>10, <2>1, <2>2, AppendedMore
    <2>4. Len(x) = at + 3
      BY <1>1, <1>10, AddArrays, BlockArraysIs
    <2> QED BY <1>1, <1>10, <2>3, <2>4, BlockIsNew
  <1>12. /\ Tree(x) /\ Grows(arrays, x) /\ \A a \in 1 .. Len(arrays) : x[a] = arrays[a]
         /\ \A a \in at + 1 .. at + 3 : x[a].elems = << >>
         /\ at \in Nat /\ Len(arrays) <= Len(x) /\ Len(arrays) <= at
    <2>1. Tree(x) /\ Grows(arrays, x) /\ \A a \in 1 .. Len(arrays) : x[a] = arrays[a]
      BY <1>11 DEF Appended
    <2>2. \A a \in at + 1 .. at + 3 : x[a].elems = << >>
      BY <1>11 DEF Appended
    <2>3. at \in Nat
      BY <1>1 DEF Tree, IsList
    <2> QED BY <1>11, <2>1, <2>2, <2>3
  <1>13. /\ Points(x, lang.elseIfs, "SISElseIf") /\ e.id = "SISElseIf"
         /\ lang.elseIfs \in 1 .. at
    <2>1. Points(arrays, lang.elseIfs, "SISElseIf")
      BY <1>3, <1>6 DEF Allocated
    <2>2. Points(x, lang.elseIfs, "SISElseIf")
      BY <1>1, <1>12, <2>1, PointsGrow
    <2> QED BY <2>1, <2>2 DEF SISElseIf, Points
  <1>14. AddedTo(x, y, lang.elseIfs, e)
    BY <1>10, <1>12, <1>13, AddedIs
  <1>15. /\ Tree(y) /\ Grows(x, y) /\ Len(y) = Len(x)
         /\ \A a \in 1 .. Len(x) : a # lang.elseIfs => y[a] = x[a]
    BY <1>14 DEF AddedTo
  <1>16. Grows(arrays, y) /\ BlockAt(y, InstallBlock(at))
    BY <1>1, <1>11, <1>12, <1>15, GrowsTwice, BlockGrows
  <1>17. PutBehind(arrays, y, lines, n, languages, base, chain, i, e)
    BY <1>1, <1>3, <1>6, <1>12, <1>14, PutBehindIs
  <1>18. /\ \A p \in Blocks(lines, n) : y[base[p] + 3].elems = arrays[base[p] + 3].elems
         /\ \A j \in Openers(lines, n, languages) :
              j # i => y[chain[j]].elems = arrays[chain[j]].elems
         /\ y[chain[i]].elems = Append(arrays[chain[i]].elems, e)
    BY <1>17 DEF PutBehind
  <1>19. Allocated(y, lines, n, languages, base, chain)
    BY <1>1, <1>3, <1>15, <1>16, AllocatedGrows
  <1>20. cur.ifs = base[q] + 3 /\ lang.ifField.id = "SISIf"
    <2>1. RootOf(cur) = InstallBlock(base[q])
      BY <1>2, <1>4 DEF InHand
    <2>2. cur.ifs = base[q] + 3
      BY <2>1 DEF RootOf, InstallBlock
    <2>3. lang.ifField.id = "SISIf"
      BY <1>6 DEF Opening, SISIf
    <2> QED BY <2>2, <2>3
  <1>21. PICK f : f = lang.ifField
    OBVIOUS
  <1>22. JoinsBlock(y, z, lines, n, languages, base, chain, q, IF last THEN {f} ELSE {})
    BY <1>1, <1>5, <1>15, <1>19, <1>20, <1>21, LanguageJoins
  <1>23. /\ Tree(z) /\ Grows(y, z) /\ Len(z) = Len(y)
         /\ \A a \in 1 .. Len(y) : a # base[q] + 3 => z[a] = y[a]
         /\ \A j \in Openers(lines, n, languages) : z[chain[j]].elems = y[chain[j]].elems
    BY <1>22 DEF JoinsBlock
  <1>24. Grows(arrays, z) /\ BlockAt(z, InstallBlock(at))
    BY <1>1, <1>15, <1>16, <1>23, GrowsTwice, BlockGrows, SMTT(30)
  <1>25. base[q] + 3 \in 1 .. at /\ Points(y, base[q] + 3, "SISIf")
    <2>1. BlockAt(arrays, InstallBlock(base[q])) /\ BlockAt(y, InstallBlock(base[q]))
      BY <1>3, <1>5, <1>19 DEF Allocated
    <2> QED BY <2>1 DEF BlockAt, Points, InstallBlock
  <1>26. z[at + 3].elems = << >>
    <2>1. /\ at + 3 \in 1 .. Len(x) /\ at + 3 \in at + 1 .. at + 3
          /\ at + 3 # lang.elseIfs /\ at + 3 # base[q] + 3
      BY <1>11, <1>12, <1>13, <1>25
    <2>2. z[at + 3] = y[at + 3] /\ y[at + 3] = x[at + 3]
      BY <1>15, <1>23, <2>1
    <2>3. x[at + 3].elems = << >>
      BY <1>12, <2>1
    <2> QED BY <2>2, <2>3
  <1>27. InstallsKept(arrays, z)
    <2>1. InstallsKept(arrays, x)
      BY <1>1, <1>11, KeptAppended
    <2>2. InstallsKept(arrays, y)
      BY <1>1, <1>12, <1>13, <1>14, <2>1, KeptAdded
    <2> QED BY <1>1, <1>15, <1>16, <1>20, <1>25, <2>2, LanguageKeeps
  <1>28. n + 1 \in Blocks(lines, n + 1) /\ ~ Opens(lines, n + 1, languages)
    <2>1. n + 1 \in Blocks(lines, n + 1)
      BY <1>1, BlocksNext
    <2>2. lang.done + 1 # 1
      OBVIOUS
    <2> QED BY <2>1, <2>2 DEF Opens
  <1>29. Around(lines, n + 1) = Around(lines, i)
    <2>1. lines[n + 1].kind \notin {"EndIf", "ElseIf", "Else"}
      OBVIOUS
    <2>2. Around(lines, n + 1) = Inside(lines, stack[Level(stacks)])
      BY ONLY <1>1, <1>2, <2>1, StackedAround
    <2>3. Around(lines, i) = Inside(lines, home[i])
      BY <1>3, <1>6, <1>7 DEF Homes
    <2> QED BY <1>4, <1>6, <2>2, <2>3
  <1>30. Prior(lines, n + 1, languages) = ElementsOf(branches[i])
    <2>1. n + 1 \in Nat
      BY <1>1
    <2>2. PICK k \in Nat : k = n + 1
      BY <2>1
    <2>3. PICK slot : slot = lang.done + 1
      OBVIOUS
    <2>4. lines[k].kind = "LanguageFile" /\ slot = LanguageSlot(lines, k, languages)
      BY <2>2, <2>3
    <2>5. \A j : j \in Prior(lines, k, languages) <=> j \in 1 .. k - 1 /\ j > k - slot
      BY ONLY <2>4, LanguagePrior
    <2>6. \A j : j \in 1 .. k - 1 /\ j > k - slot <=> j \in i .. n
      BY <1>1, <1>6, <1>7, <2>2, <2>3
    <2>7. Prior(lines, k, languages) = i .. n
      BY ONLY <2>5, <2>6
    <2> QED BY <1>6, <2>2, <2>7
  <1>31. Slotted(lines, languages, i, Len(branches[i]) + 1, n + 1)
    BY <1>6 DEF Slotted
  <1>32. e = Branch(lines, languages, b, n + 1)
    <2>1. CondOf(lines, n + 1, languages) = LanguageIs(languages[lang.done + 1])
      BY DEF CondOf
    <2> QED BY <1>8, <2>1 DEF Branch
  <1>33. GoesOnWith(arrays, z, lines, n, languages, base, chain, branches, i, b, r)
    <2>1. /\ \A j \in Openers(lines, n, languages) :
               j # i => z[chain[j]].elems = arrays[chain[j]].elems
          /\ z[chain[i]].elems
               = Append(arrays[chain[i]].elems, Branch(lines, languages, b, n + 1))
      BY <1>6, <1>18, <1>23, <1>32
    <2> QED BY <1>8, <1>9, <1>28, <1>29, <1>30, <1>31, <2>1, Zenon DEF GoesOnWith
  <1>34. PICK new : new = IF last THEN {i} ELSE {}
    OBVIOUS
  <1>35. Puts(arrays, z, lines, n, languages, base, b, chain, home, new)
    <2>1. Opening(lines, languages, b, chain, i) = f
      BY <1>6, <1>8, <1>21 DEF Opening
    <2>2. home[i] = q
      BY <1>6
    <2>3. last \in BOOLEAN
      OBVIOUS
    <2>4. \A p \in Blocks(lines, n) : y[base[p] + 3].elems = arrays[base[p] + 3].elems
      BY <1>18
    <2> QED BY ONLY <1>22, <1>34, <2>1, <2>2, <2>3, <2>4, LanguagePuts
  <1>36. AddsBranch(arrays, z, lines, n, languages, base, home, chain, branches, i,
                    i, b, r, new)
    <2>1. NewBlockAt(arrays, z, b[n + 1])
      BY <1>8, <1>12, <1>24, <1>26 DEF NewBlockAt
    <2>2. new = {} \/ new = {i}
      BY <1>34
    <2> QED BY <1>33, <1>35, <2>1, <2>2, Zenon DEF AddsBranch
  <1>37. Skeleton(z, lines, n + 1, languages, b, home, chain, r, late)
    <2>1. late = IF new = {} THEN i ELSE 0
      BY <1>34
    <2>2. /\ Tree(arrays) /\ Tree(z) /\ Grows(arrays, z) /\ n \in Nat
          /\ Skeleton(arrays, lines, n, languages, base, home, chain, branches, i)
          /\ i \in Openers(lines, n, languages)
      BY <1>1, <1>2, <1>6, <1>23, <1>24
    <2> QED BY ONLY <1>36, <2>1, <2>2, SkeletonContinues
  <1>38. \A k \in 1 .. n : lines[k].kind = "If" => chain[k] = chain[k] /\ r[k] = branches[k]
    BY <1>6, <1>9
  <1>39. at >= Len(arrays)
    BY <1>12
  <1> QED BY <1>8, <1>12, <1>23, <1>24, <1>27, <1>37, <1>38, <1>39, Zenon DEF LanguageAdded

(* A language block that is not complete stays in hand. *)
LEMMA LanguageBegun ==
  ASSUME NEW lines, NEW n \in Nat, NEW languages,
         lines[n + 1].kind = "LanguageFile", LanguageSlot(lines, n + 1, languages) = 1,
         NEW b, NEW h, NEW c, NEW r, NEW q, NEW at, NEW e,
         h[n + 1] = q, c[n + 1] = at, r[n + 1] = <<n + 1>>,
         Opening(lines, languages, b, c, n + 1) = e,
         NEW l, l = [done |-> 1, ifField |-> e, elseIfs |-> at]
  PROVE  InLanguages(lines, n + 1, languages, b, h, c, r, q, l, n + 1)
  <1>1. l.done = 1 /\ l.ifField = e /\ l.elseIfs = at
    OBVIOUS
  <1>2. n + 1 \in Openers(lines, n + 1, languages)
    BY OpenersNext DEF Opens
  <1>3. PICK s : s = <<n + 1>>
    OBVIOUS
  <1>4. Len(s) = 1 /\ s[1] = n + 1
    BY <1>3, OneIs
  <1>5. ElementsOf(s) = n + 1 .. n + 1
    BY <1>4 DEF ElementsOf
  <1>6. n + 1 = n + 1 + 1 - l.done
    BY <1>1
  <1> QED BY <1>1, <1>2, <1>3, <1>4, <1>5, <1>6 DEF InLanguages

LEMMA LanguageWentOn ==
  ASSUME NEW lines, NEW n \in Nat, NEW languages,
         NEW base, NEW home, NEW chain, NEW branches, NEW p, NEW lang, NEW i,
         InLanguages(lines, n, languages, base, home, chain, branches, p, lang, i),
         lang.done \in Nat, IsList(branches[i]),
         NEW b, b[i] = base[i], NEW r, r[i] = Append(branches[i], n + 1),
         NEW l, l = [done |-> lang.done + 1, ifField |-> lang.ifField, elseIfs |-> lang.elseIfs]
  PROVE  InLanguages(lines, n + 1, languages, b, home, chain, r, p, l, i)
  <1>1. /\ l.done = lang.done + 1 /\ l.ifField = lang.ifField /\ l.elseIfs = lang.elseIfs
    OBVIOUS
  <1>2. /\ i = n + 1 - lang.done
        /\ i \in Openers(lines, n, languages) /\ lines[i].kind = "LanguageFile"
        /\ home[i] = p
        /\ Len(branches[i]) = lang.done /\ ElementsOf(branches[i]) = i .. n
        /\ lang.ifField = Opening(lines, languages, base, chain, i)
        /\ lang.elseIfs = chain[i]
    BY DEF InLanguages
  <1>3. i \in Openers(lines, n + 1, languages) /\ i \in 1 .. n
    BY <1>2, OpenersNext
  <1>4. Len(r[i]) = lang.done + 1
    BY <1>2, AppendIs
  <1>5. ElementsOf(r[i]) = i .. n + 1
    <2>1. ElementsOf(r[i]) = (i .. n) \cup {n + 1}
      BY <1>2, AppendElements
    <2>2. (i .. n) \cup {n + 1} = i .. n + 1
      BY <1>3
    <2> QED BY <2>1, <2>2
  <1>6. i = n + 1 + 1 - l.done
    BY <1>1, <1>2, SMTT(30)
  <1>7. Opening(lines, languages, b, chain, i) = Opening(lines, languages, base, chain, i)
    BY DEF Opening
  <1> QED BY <1>1, <1>2, <1>3, <1>4, <1>5, <1>6, <1>7 DEF InLanguages

(* Before the first line there is the root block. *)
LEMMA BuiltFirst ==
  ASSUME NEW lines, Len(lines) \in Nat, NEW languages, NEW what, NEW cur, NEW stacks, NEW lang,
         Level(stacks) = 0, RootOf(cur) = InstallBlock(0),
         NEW home, NEW chain, NEW branches, NEW opener
  PROVE  Built(lines, 0, languages, what, BlockArrays, cur, stacks, lang, 0,
               [k \in Nat |-> 0], home, chain, branches, [k \in Nat |-> 0], opener)
  <1>1. PICK base : base = [k \in Nat |-> 0]
    OBVIOUS
  <1>2. base[0] = 0
    BY <1>1
  <1>3. Blocks(lines, 0) = {0} /\ Openers(lines, 0, languages) = {}
    BY DEF Blocks, Openers
  <1>4. PICK arrays : arrays = BlockArrays
    OBVIOUS
  <1>5. /\ BlockAt(arrays, InstallBlock(0))
        /\ arrays[1].elems = << >> /\ arrays[2].elems = << >> /\ arrays[3].elems = << >>
    <2>1. Points(arrays, 1, "SISFileDescription") /\ Points(arrays, 2, "SISController")
          /\ Points(arrays, 3, "SISIf")
      BY <1>4, FirstBlock
    <2>2. BlockAt(arrays, InstallBlock(0))
      BY <2>1 DEF BlockAt, InstallBlock
    <2> QED BY <1>4, <2>2 DEF BlockArrays, NewArray
  <1>6. Allocated(arrays, lines, 0, languages, base, chain)
    BY <1>2, <1>3, <1>5 DEF Allocated
  <1>7. Homes(lines, 0, languages, home)
    BY DEF Homes
  <1>8. Branched(arrays, lines, 0, languages, base, chain, branches)
    BY <1>3 DEF Branched
  <1>9. Joined(arrays, lines, 0, languages, base, chain, home, 0)
    <2>1. ElementsOf(arrays[base[0] + 3].elems) = {}
      BY <1>2, <1>5, EmptyList DEF ElementsOf
    <2>2. \A p : {Opening(lines, languages, base, chain, i) :
                    i \in {j \in Openers(lines, 0, languages) : j # 0 /\ home[j] = p}} = {}
      BY <1>3
    <2> QED BY <1>3, <2>1, <2>2 DEF Joined
  <1>10. Holding(arrays, lines, 0, base, home, what)
    <2>1. BlockInstalls(arrays, InstallBlock(base[0])) = {}
      <3>1. /\ arrays[InstallBlock(0).files].elems = << >>
            /\ arrays[InstallBlock(0).embedded].elems = << >>
        BY <1>5 DEF InstallBlock
      <3> QED BY <1>2, <3>1, NoInstalls
    <2>2. \A p : HeldBy(lines, 0, home, p) = {}
      BY DEF HeldBy
    <2> QED BY <1>3, <2>1, <2>2 DEF Holding
  <1>11. Stacked(lines, 0, 0, base)
    BY <1>2, StackedNone
  <1>12. Grouped(lines, 0, 0, opener, branches)
    BY DEF Grouped
  <1>13. InHand(cur, stacks, base, home, chain, base, opener)
    BY <1>2 DEF InHand
  <1> QED
    BY <1>1, <1>4, <1>6, <1>7, <1>8, <1>9, <1>10, <1>11, <1>12, <1>13, Zenon DEF Built, Skeleton

-----------------------------------------------------------------------------
(***************************************************************************)
(* What an installer finds in the tree.                                    *)
(***************************************************************************)
(* Block k is the first of its condition that is true. *)
FirstTrue(lines, languages, k, v) ==
  /\ Holds(CondOf(lines, k, languages), v)
  /\ \A j \in Prior(lines, k, languages) : ~ Holds(CondOf(lines, j, languages), v)

(* The blocks that an installer gets to. *)
Entered(lines, n, languages, v) ==
  {k \in Blocks(lines, n) : \A j \in Inside(lines, k) : FirstTrue(lines, languages, j, v)}

LEMMA ChosenBlockIs ==
  ASSUME NEW arrays, NEW lines, NEW n, NEW languages, NEW base, NEW chain, NEW branches,
         NEW i, BranchesAre(arrays, lines, n, languages, base, chain, branches, i),
         IsList(arrays[chain[i]].elems), NEW v, NEW block
  PROVE  block \in ChosenBlock(arrays, Opening(lines, languages, base, chain, i), v) <=>
           \E k \in ElementsOf(branches[i]) :
             FirstTrue(lines, languages, k, v) /\ block = InstallBlock(base[k])
  <1>1. PICK r : r = branches[i]
    OBVIOUS
  <1>2. PICK elems : elems = arrays[chain[i]].elems
    OBVIOUS
  <1>3. PICK f : f = Opening(lines, languages, base, chain, i)
    OBVIOUS
  <1>4. /\ f.cond = CondOf(lines, i, languages) /\ f.block = InstallBlock(base[i])
        /\ f.elseIfs = chain[i]
    BY <1>3 DEF Opening, SISIf
  <1>5. PICK alts : alts = <<f>> \o elems
    OBVIOUS
  <1>6. alts = Branches(arrays, f)
    BY <1>2, <1>4, <1>5 DEF Branches
  <1>7. /\ IsList(r) /\ r[1] = i /\ Len(r) = Len(elems) + 1
        /\ Len(elems) \in Nat /\ IsList(elems)
        /\ \A x \in 1 .. Len(r) :
             /\ IsBranch(lines, n, languages, branches, i, x, r[x])
             /\ x > 1 => elems[x - 1] = Branch(lines, languages, base, r[x])
    BY <1>1, <1>2 DEF BranchesAre, IsList
  <1>8. /\ Len(alts) = Len(elems) + 1 /\ alts[1] = f
        /\ \A x \in 1 .. Len(elems) : alts[1 + x] = elems[x]
    <2>1. /\ Len(alts) = Len(<<f>>) + Len(elems)
          /\ \A x \in 1 .. Len(<<f>>) : alts[x] = <<f>>[x]
          /\ \A x \in 1 .. Len(elems) : alts[Len(<<f>>) + x] = elems[x]
      BY <1>5, <1>7, ConcatIs, OneIs
    <2>2. Len(<<f>>) = 1 /\ <<f>>[1] = f
      BY OneIs
    <2> QED BY <1>7, <2>1, <2>2
  <1>9. ASSUME NEW x \in 1 .. Len(r)
        PROVE  /\ alts[x].cond = CondOf(lines, r[x], languages)
               /\ alts[x].block = InstallBlock(base[r[x]])
    <2>1. CASE x = 1
      BY <1>4, <1>7, <1>8, <2>1
    <2>2. CASE x > 1
      <3>1. x - 1 \in 1 .. Len(elems) /\ 1 + (x - 1) = x
        BY <1>7, <2>2
      <3>2. alts[x] = Branch(lines, languages, base, r[x])
        BY <1>7, <1>8, <2>2, <3>1
      <3> QED BY <3>2 DEF Branch, SISElseIf
    <2> QED BY <1>7, <2>1, <2>2
  <1>10. PICK hits : hits = {x \in 1 .. Len(alts) : Holds(alts[x].cond, v)}
    OBVIOUS
  <1>11. \A x : x \in hits <=> x \in 1 .. Len(r) /\ Holds(CondOf(lines, r[x], languages), v)
    BY <1>7, <1>8, <1>9, <1>10
  <1>12. ASSUME NEW x \in 1 .. Len(r)
         PROVE  FirstTrue(lines, languages, r[x], v) <=> x \in hits /\ \A g \in hits : x <= g
    <2>1. Prior(lines, r[x], languages) = {r[y] : y \in 1 .. x - 1}
      BY <1>1, <1>7 DEF IsBranch
    <2>2. FirstTrue(lines, languages, r[x], v) <=>
            /\ x \in hits
            /\ \A y \in 1 .. x - 1 : ~ Holds(CondOf(lines, r[y], languages), v)
      BY <1>11, <2>1 DEF FirstTrue
    <2>3. \A y \in 1 .. x - 1 : y \in 1 .. Len(r)
      BY <1>7
    <2>4. FirstTrue(lines, languages, r[x], v) <=> x \in hits /\ \A y \in 1 .. x - 1 : y \notin hits
      BY <1>11, <2>2, <2>3
    <2>5. (\A y \in 1 .. x - 1 : y \notin hits) <=> \A g \in hits : x <= g
      BY <1>7, <1>11
    <2> QED BY <2>4, <2>5
  <1>13. ChosenBlock(arrays, f, v) = {alts[x].block : x \in {h \in hits : \A g \in hits : h <= g}}
    BY <1>6, <1>10, Zenon DEF ChosenBlock
  <1>14. block \in ChosenBlock(arrays, f, v) <=>
           \E x \in hits : (\A g \in hits : x <= g) /\ block = alts[x].block
    BY <1>13
  <1>15. block \in ChosenBlock(arrays, f, v) <=>
           \E x \in 1 .. Len(r) :
             FirstTrue(lines, languages, r[x], v) /\ block = InstallBlock(base[r[x]])
    BY <1>9, <1>11, <1>12, <1>14
  <1> QED BY <1>1, <1>3, <1>15 DEF ElementsOf

(* Block k belongs to a condition that is in block p. *)
DirectlyIn(lines, n, languages, home, branches, p, k) ==
  \E i \in Openers(lines, n, languages) : home[i] = p /\ k \in ElementsOf(branches[i])

LEMMA ChosenInsideIs ==
  ASSUME NEW arrays, Tree(arrays), NEW lines, NEW n, n \in Nat, NEW languages, NEW base,
         NEW home, NEW chain, NEW branches,
         Skeleton(arrays, lines, n, languages, base, home, chain, branches, 0),
         NEW p \in Blocks(lines, n), NEW v, NEW block
  PROVE  block \in ChosenInside(arrays, InstallBlock(base[p]), v) <=>
           \E k : /\ DirectlyIn(lines, n, languages, home, branches, p, k)
                  /\ FirstTrue(lines, languages, k, v) /\ block = InstallBlock(base[k])
  <1>1. /\ Allocated(arrays, lines, n, languages, base, chain)
        /\ Branched(arrays, lines, n, languages, base, chain, branches)
        /\ Joined(arrays, lines, n, languages, base, chain, home, 0)
    BY DEF Skeleton
  <1>2. PICK s : s = arrays[base[p] + 3].elems
    OBVIOUS
  <1>3. InstallBlock(base[p]).ifs = base[p] + 3
    BY DEF InstallBlock
  <1>4. block \in ChosenInside(arrays, InstallBlock(base[p]), v) <=>
          \E f \in ElementsOf(s) : block \in ChosenBlock(arrays, f, v)
    <2>1. ChosenInside(arrays, InstallBlock(base[p]), v)
            = UNION {ChosenBlock(arrays, s[k], v) : k \in 1 .. Len(s)}
      BY <1>2, <1>3, Zenon DEF ChosenInside
    <2> QED BY <2>1 DEF ElementsOf
  <1>5. \A i \in Openers(lines, n, languages) : i # 0
    <2>1. \A i \in Openers(lines, n, languages) : i \in 1 .. n
      BY OpenersSoFar
    <2> QED BY <2>1
  <1>6. ElementsOf(s) = {Opening(lines, languages, base, chain, i) :
                           i \in {j \in Openers(lines, n, languages) : home[j] = p}}
    BY <1>1, <1>2, <1>5 DEF Joined
  <1>7. block \in ChosenInside(arrays, InstallBlock(base[p]), v) <=>
          \E i \in Openers(lines, n, languages) :
            /\ home[i] = p
            /\ block \in ChosenBlock(arrays, Opening(lines, languages, base, chain, i), v)
    BY <1>4, <1>6
  <1>8. ASSUME NEW i \in Openers(lines, n, languages)
        PROVE  block \in ChosenBlock(arrays, Opening(lines, languages, base, chain, i), v) <=>
                 \E k \in ElementsOf(branches[i]) :
                   FirstTrue(lines, languages, k, v) /\ block = InstallBlock(base[k])
    <2>1. BranchesAre(arrays, lines, n, languages, base, chain, branches, i)
      BY <1>1, BranchedIs
    <2>2. IsList(arrays[chain[i]].elems)
      <3>1. chain[i] \in 1 .. Len(arrays)
        BY <1>1 DEF Allocated, Points
      <3> QED BY <3>1 DEF Tree, IsArray
    <2> QED BY <2>1, <2>2, ChosenBlockIs
  <1> QED BY <1>7, <1>8 DEF DirectlyIn

(* An installer gets to a block that is the first true one of a condition  *)
(* in a block that it gets to.                                             *)
LEMMA EnteredIs ==
  ASSUME NEW arrays, NEW lines, NEW n, n \in Nat, NEW languages, NEW base,
         NEW home, NEW chain, NEW branches,
         Skeleton(arrays, lines, n, languages, base, home, chain, branches, 0),
         NEW p, NEW k, DirectlyIn(lines, n, languages, home, branches, p, k), NEW v
  PROVE  /\ p \in Blocks(lines, n) /\ k \in Blocks(lines, n) /\ base[p] < base[k]
         /\ k \in Entered(lines, n, languages, v) <=>
              p \in Entered(lines, n, languages, v) /\ FirstTrue(lines, languages, k, v)
  <1>1. PICK i \in Openers(lines, n, languages) : home[i] = p /\ k \in ElementsOf(branches[i])
    BY DEF DirectlyIn
  <1>2. BranchesAre(arrays, lines, n, languages, base, chain, branches, i)
    BY BranchedIs DEF Skeleton
  <1>3. PICK x \in 1 .. Len(branches[i]) : k = branches[i][x]
    BY <1>1 DEF ElementsOf
  <1>4. k \in Blocks(lines, n) /\ i <= k /\ Around(lines, k) = Around(lines, i)
    BY <1>2, <1>3 DEF BranchesAre, IsBranch
  <1>5. /\ p \in 0 .. i - 1 /\ p \in {0} \cup Headers(lines)
        /\ Around(lines, i) = Inside(lines, p) /\ i \in 1 .. n
    <2>1. i \in 1 .. n
      BY OpenersSoFar
    <2> QED BY <1>1, <2>1 DEF Skeleton, Homes
  <1>6. k \in 1 .. n /\ p < k /\ k # 0
    <2>1. k \in 0 .. n
      BY <1>4, BlocksSoFar
    <2> QED BY <1>4, <1>5, <2>1
  <1>7. p \in Blocks(lines, n)
    BY <1>5 DEF Blocks, Headers
  <1>8. base[p] < base[k]
    BY <1>4, <1>6, <1>7 DEF Skeleton, Allocated
  <1>9. Inside(lines, k) = Inside(lines, p) \cup {k}
    BY <1>4, <1>5, <1>6 DEF Inside
  <1> QED BY <1>4, <1>7, <1>8, <1>9 DEF Entered

(* One level down the tree. *)
Further(arrays, blocks, v) == blocks \cup UNION {ChosenInside(arrays, b, v) : b \in blocks}

Reaches(arrays, root, v, R, reach) ==
  /\ ChosenBlocks(arrays, root, v) = reach[Len(arrays)]
  /\ reach[0] = {root}
  /\ \A n \in 1 .. Len(arrays) : reach[n] = Further(arrays, reach[n - 1], v)
  /\ \A n \in 0 .. Len(arrays) : reach[n] \subseteq R

LEMMA ReachIs ==
  ASSUME NEW arrays, Len(arrays) \in Nat, NEW root, NEW v,
         NEW R, root \in R, \A b \in R : ChosenInside(arrays, b, v) \subseteq R
  PROVE  \E reach : Reaches(arrays, root, v, R, reach)
  <1> DEFINE reach[n \in 0 .. Len(arrays)] ==
               IF n = 0 THEN {root} ELSE Further(arrays, reach[n - 1], v)
  <1>1. ChosenBlocks(arrays, root, v) = reach[Len(arrays)]
    BY Zenon DEF ChosenBlocks, Further
  <1>2. reach = CHOOSE f : f = [n \in 0 .. Len(arrays) |->
                  IF n = 0 THEN {root} ELSE Further(arrays, f[n - 1], v)]
    BY Zenon DEF reach
  <1> HIDE DEF reach
  <1>3. PICK N \in Nat : N = Len(arrays)
    OBVIOUS
  <1>4. PICK first : first = {root}
    OBVIOUS
  <1>5. PICK S : S = SUBSET R
    OBVIOUS
  <1>6. first \in S
    BY <1>4, <1>5
  <1>7. ASSUME NEW s \in S PROVE Further(arrays, s, v) \in S
    <2>1. \A b \in s : ChosenInside(arrays, b, v) \subseteq R
      BY <1>5
    <2> QED BY <1>5, <2>1 DEF Further
  <1>8. PICK g : g = [p \in (1 .. N) \X S |-> Further(arrays, p[2], v)]
    OBVIOUS
  <1>9. g \in [(1 .. N) \X S -> S]
    <2>1. ASSUME NEW p \in (1 .. N) \X S PROVE Further(arrays, p[2], v) \in S
      <3>1. p[2] \in S
        OBVIOUS
      <3> QED BY <1>7, <3>1
    <2> QED BY <1>8, <2>1
  <1>10. PICK f \in [0 .. N -> S] : Follows(f, N, first, g)
    BY <1>6, <1>9, RecursionExists
  <1>11. \A n \in 1 .. N : f[n] = Further(arrays, f[n - 1], v)
    <2>1. ASSUME NEW n \in 1 .. N PROVE f[n] = Further(arrays, f[n - 1], v)
      <3>1. f[n] = g[<<n, f[n - 1]>>]
        BY <1>10 DEF Follows
      <3>2. n - 1 \in 0 .. N
        BY <1>3
      <3>3. <<n, f[n - 1]>> \in (1 .. N) \X S
        BY <3>2
      <3> QED BY <1>8, <3>1, <3>3
    <2> QED BY <2>1
  <1>12. f = [n \in 0 .. N |-> IF n = 0 THEN first ELSE Further(arrays, f[n - 1], v)]
    <2>1. \A n \in 0 .. N : n = 0 \/ n \in 1 .. N
      OBVIOUS
    <2>2. \A n \in 1 .. N : n # 0
      OBVIOUS
    <2>3. \A n \in 0 .. N : f[n] = IF n = 0 THEN first ELSE Further(arrays, f[n - 1], v)
      BY <1>10, <1>11, <2>1, <2>2, Zenon DEF Follows
    <2> QED BY <2>3
  <1>13. reach = [n \in 0 .. N |-> IF n = 0 THEN first ELSE Further(arrays, reach[n - 1], v)]
    BY <1>2, <1>3, <1>4, <1>12, Zenon
  <1>14. reach[0] = first /\ \A n \in 1 .. N : reach[n] = Further(arrays, reach[n - 1], v)
    <2>1. 0 \in 0 .. N /\ \A n \in 1 .. N : n \in 0 .. N /\ n # 0
      OBVIOUS
    <2> QED BY <1>13, <2>1, Zenon
  <1>15. PICK T : T = {n \in 0 .. N : reach[n] \in S}
    OBVIOUS
  <1>16. 0 \in T
    BY <1>6, <1>14, <1>15
  <1>17. ASSUME NEW n \in 0 .. N - 1, n \in T PROVE n + 1 \in T
    <2>1. n + 1 \in 1 .. N /\ (n + 1) - 1 = n /\ n + 1 \in 0 .. N
      OBVIOUS
    <2>2. reach[n] \in S
      BY <1>15, <1>17
    <2>3. reach[n + 1] = Further(arrays, reach[n], v)
      BY <1>14, <2>1
    <2>4. reach[n + 1] \in S
      BY <1>7, <2>2, <2>3
    <2> QED BY <1>15, <2>1, <2>4
  <1>18. \A n \in 0 .. N : n \in T
    BY <1>16, <1>17, SetInduction
  <1>19. \A n \in 0 .. N : reach[n] \subseteq R
    BY <1>5, <1>15, <1>18
  <1> QED BY <1>1, <1>3, <1>4, <1>14, <1>19, Zenon DEF Reaches

(* An installer gets to the blocks that the lines say. *)
LEMMA ChosenBlocksAre ==
  ASSUME NEW arrays, Tree(arrays), NEW lines, NEW n, n \in Nat, NEW languages, NEW base,
         NEW home, NEW chain, NEW branches,
         Skeleton(arrays, lines, n, languages, base, home, chain, branches, 0), NEW v
  PROVE  ChosenBlocks(arrays, InstallBlock(0), v)
           = {InstallBlock(base[k]) : k \in Entered(lines, n, languages, v)}
  <1>1. /\ Allocated(arrays, lines, n, languages, base, chain)
        /\ Branched(arrays, lines, n, languages, base, chain, branches)
    BY DEF Skeleton
  <1>2. PICK E : E = Entered(lines, n, languages, v)
    OBVIOUS
  <1>3. PICK R : R = {InstallBlock(base[k]) : k \in E}
    OBVIOUS
  <1>4. PICK root : root = InstallBlock(0)
    OBVIOUS
  <1>5. \A k \in E : k \in Blocks(lines, n)
    BY <1>2 DEF Entered
  <1>6. 0 \in E /\ base[0] = 0
    <2>1. 0 \in Blocks(lines, n) /\ Inside(lines, 0) = {}
      BY DEF Blocks, Inside
    <2> QED BY <1>1, <1>2, <2>1 DEF Entered, Allocated
  <1>7. root \in R
    BY <1>3, <1>4, <1>6
  <1>8. ASSUME NEW p \in E, NEW b \in ChosenInside(arrays, InstallBlock(base[p]), v)
        PROVE  b \in R
    <2>1. p \in Blocks(lines, n)
      BY <1>5
    <2>2. PICK k : /\ DirectlyIn(lines, n, languages, home, branches, p, k)
                   /\ FirstTrue(lines, languages, k, v) /\ b = InstallBlock(base[k])
      BY <2>1, ChosenInsideIs
    <2>3. k \in E
      BY <1>2, <2>2, EnteredIs
    <2> QED BY <1>3, <2>2, <2>3
  <1>9. \A b \in R : ChosenInside(arrays, b, v) \subseteq R
    BY <1>3, <1>8
  <1>10. PICK N \in Nat : N = Len(arrays)
    BY DEF Tree, IsList
  <1>11. PICK reach : /\ ChosenBlocks(arrays, root, v) = reach[N]
                      /\ reach[0] = {root}
                      /\ \A m \in 1 .. N : reach[m] = Further(arrays, reach[m - 1], v)
                      /\ \A m \in 0 .. N : reach[m] \subseteq R
    <2>1. Len(arrays) \in Nat
      BY <1>10
    <2>2. PICK reach : Reaches(arrays, root, v, R, reach)
      BY <1>7, <1>9, <2>1, ReachIs
    <2> QED BY <1>10, <2>2 DEF Reaches
  <1>12. PICK T : T = {m \in 0 .. N : \A k \in E : base[k] <= m => InstallBlock(base[k]) \in reach[m]}
    OBVIOUS
  <1>13. ASSUME NEW k \in E, k # 0
         PROVE  \E p \in E : /\ base[p] < base[k] /\ base[p] \in Nat /\ base[k] \in Nat
                             /\ InstallBlock(base[k])
                                  \in ChosenInside(arrays, InstallBlock(base[p]), v)
    <2>1. k \in Blocks(lines, n)
      BY <1>5
    <2>2. PICK i \in Openers(lines, n, languages) : k \in ElementsOf(branches[i])
      BY <1>1, <1>13, <2>1 DEF Branched
    <2>3. PICK p : p = home[i]
      OBVIOUS
    <2>4. DirectlyIn(lines, n, languages, home, branches, p, k)
      BY <2>2, <2>3 DEF DirectlyIn
    <2>5. /\ p \in Blocks(lines, n) /\ base[p] < base[k]
          /\ p \in E /\ FirstTrue(lines, languages, k, v)
      BY <1>2, <2>4, EnteredIs
    <2>6. InstallBlock(base[k]) \in ChosenInside(arrays, InstallBlock(base[p]), v)
      BY <2>4, <2>5, ChosenInsideIs
    <2> QED BY <1>1, <2>1, <2>5, <2>6 DEF Allocated
  <1>14. \A k \in E : base[k] \in Nat
    BY <1>1, <1>5 DEF Allocated
  <1>15. 0 \in T
    <2>1. ASSUME NEW k \in E, base[k] <= 0 PROVE InstallBlock(base[k]) \in reach[0]
      <3>1. k = 0
        BY <1>13, <2>1
      <3> QED BY <1>4, <1>6, <1>11, <3>1
    <2> QED BY <1>12, <2>1
  <1>16. ASSUME NEW m \in 0 .. N - 1, m \in T PROVE m + 1 \in T
    <2>1. m + 1 \in 1 .. N /\ (m + 1) - 1 = m /\ m + 1 \in 0 .. N /\ m \in Nat
      OBVIOUS
    <2>2. \A k \in E : base[k] <= m => InstallBlock(base[k]) \in reach[m]
      BY <1>12, <1>16
    <2>3. reach[m + 1] = Further(arrays, reach[m], v)
      BY <1>11, <2>1
    <2>4. ASSUME NEW k \in E, base[k] <= m + 1 PROVE InstallBlock(base[k]) \in reach[m + 1]
      <3>1. CASE k = 0
        BY <1>6, <2>1, <2>2, <2>3, <3>1 DEF Further
      <3>2. CASE k # 0
        <4>1. PICK p \in E : /\ base[p] < base[k] /\ base[p] \in Nat /\ base[k] \in Nat
                             /\ InstallBlock(base[k])
                                  \in ChosenInside(arrays, InstallBlock(base[p]), v)
          BY <1>13, <3>2
        <4>2. base[p] <= m
          BY <2>1, <2>4, <4>1
        <4>3. InstallBlock(base[p]) \in reach[m]
          BY <2>2, <4>2
        <4> QED BY <2>3, <4>1, <4>3 DEF Further
      <3> QED BY <3>1, <3>2
    <2> QED BY <1>12, <2>1, <2>4
  <1>17. N \in T
    <2>1. \A m \in 0 .. N : m \in T
      BY <1>15, <1>16, SetInduction
    <2> QED BY <2>1
  <1>18. ASSUME NEW k \in E PROVE base[k] <= N
    <2>1. base[k] + 1 \in 1 .. N /\ base[k] \in Nat
      BY <1>1, <1>5, <1>10 DEF Allocated, BlockAt, Points, InstallBlock
    <2> QED BY <2>1
  <1>19. R \subseteq reach[N]
    BY <1>3, <1>12, <1>17, <1>18
  <1>20. reach[N] \subseteq R
    BY <1>11
  <1> QED BY <1>2, <1>3, <1>4, <1>11, <1>19, <1>20

(* What an installer installs is what those blocks hold. *)
LEMMA InstalledByTreeIs ==
  ASSUME NEW arrays, Tree(arrays), NEW lines, NEW n, n \in Nat, NEW languages, NEW base,
         NEW home, NEW chain, NEW branches, NEW what,
         Skeleton(arrays, lines, n, languages, base, home, chain, branches, 0),
         Holding(arrays, lines, n, base, home, what), NEW v
  PROVE  InstalledByTree(arrays, InstallBlock(0), v)
           = {what[m] : m \in {j \in 1 .. n :
                \E p \in Entered(lines, n, languages, v) : j \in HeldBy(lines, n, home, p)}}
  <1>1. PICK E : E = Entered(lines, n, languages, v)
    OBVIOUS
  <1>2. ChosenBlocks(arrays, InstallBlock(0), v) = {InstallBlock(base[k]) : k \in E}
    BY <1>1, ChosenBlocksAre
  <1>3. \A p \in E : BlockInstalls(arrays, InstallBlock(base[p]))
                       = {what[m] : m \in HeldBy(lines, n, home, p)}
    BY <1>1 DEF Holding, Entered
  <1>4. \A p : \A m \in HeldBy(lines, n, home, p) : m \in 1 .. n
    BY DEF HeldBy
  <1>5. InstalledByTree(arrays, InstallBlock(0), v)
          = UNION {BlockInstalls(arrays, InstallBlock(base[p])) : p \in E}
    BY <1>2 DEF InstalledByTree
  <1> QED BY <1>1, <1>3, <1>4, <1>5

(* A language block installs the first line of the device's language. *)
LEMMA LanguageHolds ==
  ASSUME NEW languages, NEW v, \A i \in 1 .. Len(languages) : LanguageIs(languages[i]) \notin v.true,
         NEW i \in 1 .. Len(languages)
  PROVE  Holds(LanguageIs(languages[i]), v) <=> languages[i] = v.language
  <1>1. LanguageIs(languages[i]) # Always
    BY DEF LanguageIs, Always
  <1>2. LanguageIs(languages[i]) = LanguageIs(v.language) <=> languages[i] = v.language
    <2>1. LanguageIs(languages[i]).language = languages[i]
      BY DEF LanguageIs
    <2>2. LanguageIs(v.language).language = v.language
      BY DEF LanguageIs
    <2> QED BY <2>1, <2>2
  <1> QED BY <1>1, <1>2, Zenon DEF Holds

LEMMA SlotInside ==
  ASSUME NEW lines, NEW m, m \in Nat, m > 0, NEW languages, Len(languages) \in Nat, Len(languages) > 0
  PROVE  LanguageSlot(lines, m, languages) \in 1 .. Len(languages)
  <1>1. PICK c : c = Count(lines, "LanguageFile", m)
    OBVIOUS
  <1>2. PICK k : k = Len(languages)
    OBVIOUS
  <1>3. c \in Nat /\ k \in Nat /\ k > 0
    BY <1>1, <1>2, CountNext
  <1>4. (c - 1) % k \in 0 .. k - 1
    BY <1>3
  <1>5. LanguageSlot(lines, m, languages) = ((c - 1) % k) + 1
    BY <1>1, <1>2 DEF LanguageSlot
  <1> QED BY <1>2, <1>3, <1>4, <1>5

FirstNamed(languages, i, v) ==
  languages[i] = v.language /\ \A j \in 1 .. i - 1 : languages[j] # v.language

LEMMA LanguageFirstTrue ==
  ASSUME NEW arrays, NEW lines, NEW n, n \in Nat, NEW languages, NEW base, NEW chain, NEW branches,
         Branched(arrays, lines, n, languages, base, chain, branches),
         NEW m \in 1 .. n, lines[m].kind = "LanguageFile",
         Len(languages) \in Nat, Len(languages) > 0,
         NEW v, \A i \in 1 .. Len(languages) : LanguageIs(languages[i]) \notin v.true,
         NEW slot, slot = LanguageSlot(lines, m, languages)
  PROVE  FirstTrue(lines, languages, m, v) <=> FirstNamed(languages, slot, v)
  <1>1. m \in Blocks(lines, n) /\ m # 0
    BY DEF Blocks
  <1>2. PICK i \in Openers(lines, n, languages) : m \in ElementsOf(branches[i])
    BY <1>1 DEF Branched
  <1>3. PICK r : r = branches[i]
    OBVIOUS
  <1>4. PICK x \in 1 .. Len(r) : m = r[x]
    BY <1>2, <1>3 DEF ElementsOf
  <1>5. Len(r) \in Nat /\ \A y \in 1 .. Len(r) : IsBranch(lines, n, languages, branches, i, y, r[y])
    <2>1. BranchesAre(arrays, lines, n, languages, base, chain, branches, i)
      BY BranchedIs
    <2> QED BY <1>3, <2>1 DEF BranchesAre, IsList
  <1>6. \A y \in 1 .. Len(r) : Slotted(lines, languages, i, y, r[y])
    BY <1>5 DEF IsBranch
  <1>7. lines[i].kind = "LanguageFile" /\ slot = x
    BY <1>4, <1>6 DEF Slotted
  <1>8. \A y \in 1 .. Len(r) : /\ lines[r[y]].kind = "LanguageFile"
                               /\ LanguageSlot(lines, r[y], languages) = y
    BY <1>6, <1>7 DEF Slotted
  <1>9. \A y \in 1 .. Len(r) : CondOf(lines, r[y], languages) = LanguageIs(languages[y])
    BY <1>8 DEF CondOf
  <1>10. slot \in 1 .. Len(languages)
    BY SlotInside
  <1>11. \A y \in 1 .. x : y \in 1 .. Len(r) /\ y \in 1 .. Len(languages)
    BY <1>4, <1>5, <1>7, <1>10
  <1>12. \A y \in 1 .. x : Holds(CondOf(lines, r[y], languages), v) <=> languages[y] = v.language
    <2>1. ASSUME NEW y \in 1 .. x
          PROVE  Holds(CondOf(lines, r[y], languages), v) <=> languages[y] = v.language
      <3>1. CondOf(lines, r[y], languages) = LanguageIs(languages[y])
        BY <1>9, <1>11
      <3>2. Holds(LanguageIs(languages[y]), v) <=> languages[y] = v.language
        BY <1>11, LanguageHolds
      <3> QED BY <3>1, <3>2
    <2> QED BY <2>1
  <1>13. Prior(lines, m, languages) = {r[y] : y \in 1 .. x - 1}
    BY <1>3, <1>4, <1>5 DEF IsBranch
  <1>14. x \in 1 .. x /\ \A y \in 1 .. x - 1 : y \in 1 .. x
    BY <1>4, <1>5
  <1>15. FirstTrue(lines, languages, m, v) <=>
           /\ Holds(CondOf(lines, r[x], languages), v)
           /\ \A y \in 1 .. x - 1 : ~ Holds(CondOf(lines, r[y], languages), v)
    BY <1>4, <1>13 DEF FirstTrue
  <1> QED BY <1>7, <1>12, <1>14, <1>15 DEF FirstNamed

-----------------------------------------------------------------------------
(***************************************************************************)
(* Lists that are joined one after another.                                *)
(***************************************************************************)
OneByOne(f, parts, n) ==
  f[0] = << >> /\ \A m \in 1 .. n : f[m] = f[m - 1] \o parts[m]

LEMMA OneByOneFurther ==
  ASSUME NEW parts, NEW n \in Nat, NEW s, \E f : OneByOne(f, parts, n) /\ s = f[n]
  PROVE  \E f : OneByOne(f, parts, n + 1) /\ s \o parts[n + 1] = f[n + 1]
  <1>1. PICK f : OneByOne(f, parts, n) /\ s = f[n]
    OBVIOUS
  <1>2. PICK last : last = s \o parts[n + 1]
    OBVIOUS
  <1>3. PICK h : h = [m \in 0 .. n + 1 |-> IF m = n + 1 THEN last ELSE f[m]]
    OBVIOUS
  <1>4. n + 1 \in 0 .. n + 1 /\ \A m \in 0 .. n : m \in 0 .. n + 1 /\ m # n + 1
    OBVIOUS
  <1>5. h[n + 1] = last /\ \A m \in 0 .. n : h[m] = f[m]
    BY <1>3, <1>4
  <1>6. ASSUME NEW m \in 1 .. n + 1 PROVE h[m] = h[m - 1] \o parts[m]
    <2>1. m - 1 \in 0 .. n
      OBVIOUS
    <2>2. h[m - 1] = f[m - 1]
      BY <1>5, <2>1
    <2>3. CASE m = n + 1
      <3>1. m - 1 = n
        BY <2>3
      <3> QED BY <1>1, <1>2, <1>5, <2>2, <2>3, <3>1
    <2>4. CASE m # n + 1
      <3>1. m \in 0 .. n /\ m \in 1 .. n
        BY <2>4
      <3>2. f[m] = f[m - 1] \o parts[m]
        BY <1>1, <3>1 DEF OneByOne
      <3> QED BY <1>5, <2>2, <3>1, <3>2
    <2> QED BY <2>3, <2>4
  <1>7. h[0] = << >>
    BY <1>1, <1>5 DEF OneByOne
  <1>8. OneByOne(h, parts, n + 1)
    BY <1>6, <1>7 DEF OneByOne
  <1> QED BY <1>2, <1>5, <1>8

LEMMA EmptyConcat ==
  ASSUME NEW s, IsList(s)
  PROVE  s \o << >> = s /\ << >> \o s = s
  <1>1. PICK S : S = ElementsOf(s)
    OBVIOUS
  <1>2. s \in Seq(S)
    BY <1>1, ListIsSeq
  <1> QED BY <1>2, ConcatEmptySeq

(* Joining the parts one after another is what FlattenSeq does. *)
LEMMA OneByOneIsFlat ==
  ASSUME NEW parts, IsList(parts), NEW f, OneByOne(f, parts, Len(parts)),
         \A m \in 1 .. Len(parts) : IsList(parts[m])
  PROVE  f[Len(parts)] = FlattenSeq(parts)
  <1>1. PICK N \in Nat : N = Len(parts)
    BY DEF IsList
  <1>2. CASE N = 0
    <2>1. parts = << >>
      <3>1. Len(parts) = 0 /\ \A i \in 1 .. 0 : parts[i] = << >>[i]
        BY <1>1, <1>2
      <3> QED BY <3>1, EmptyList DEF IsList
    <2>2. FlattenSeq(parts) = parts
      BY <1>1, <1>2 DEF FlattenSeq
    <2> QED BY <1>1, <1>2, <2>1, <2>2 DEF OneByOne
  <1>3. CASE N # 0
    <2> DEFINE flatten[i \in 1 .. Len(parts)] ==
                 IF i = 1 THEN parts[i] ELSE flatten[i - 1] \o parts[i]
    <2>1. FlattenSeq(parts) = flatten[Len(parts)]
      <3>1. Len(parts) # 0
        BY <1>1, <1>3
      <3> QED BY <3>1, Zenon DEF FlattenSeq
    <2>2. flatten = CHOOSE g : g = [i \in 1 .. Len(parts) |->
                      IF i = 1 THEN parts[i] ELSE g[i - 1] \o parts[i]]
      BY Zenon DEF flatten
    <2> HIDE DEF flatten
    <2>3. PICK h : h = [i \in 1 .. N |-> f[i]]
      OBVIOUS
    <2>4. ASSUME NEW i \in 1 .. N
          PROVE  h[i] = IF i = 1 THEN parts[i] ELSE h[i - 1] \o parts[i]
      <3>1. f[i] = f[i - 1] \o parts[i] /\ h[i] = f[i]
        BY <1>1, <2>3 DEF OneByOne
      <3>2. CASE i = 1
        <4>1. f[i - 1] = << >>
          BY <3>2 DEF OneByOne
        <4>2. << >> \o parts[i] = parts[i]
          BY <1>1, EmptyConcat
        <4> QED BY <3>1, <3>2, <4>1, <4>2
      <3>3. CASE i # 1
        <4>1. i - 1 \in 1 .. N
          BY <3>3
        <4>2. h[i - 1] = f[i - 1]
          BY <2>3, <4>1
        <4> QED BY <3>1, <3>3, <4>2
      <3> QED BY <3>2, <3>3
    <2>5. h = [i \in 1 .. N |-> IF i = 1 THEN parts[i] ELSE h[i - 1] \o parts[i]]
      BY <2>3, <2>4
    <2>6. flatten = [i \in 1 .. N |-> IF i = 1 THEN parts[i] ELSE flatten[i - 1] \o parts[i]]
      BY <1>1, <2>2, <2>5, Zenon
    <2>7. PICK T : T = {n \in 0 .. N : n = 0 \/ flatten[n] = h[n]}
      OBVIOUS
    <2>8. 0 \in T
      BY <2>7
    <2>9. ASSUME NEW n \in 0 .. N - 1, n \in T PROVE n + 1 \in T
      <3>1. n + 1 \in 1 .. N /\ (n + 1) - 1 = n /\ n + 1 \in 0 .. N
        OBVIOUS
      <3>2. flatten[n + 1] = IF n + 1 = 1 THEN parts[n + 1] ELSE flatten[n] \o parts[n + 1]
        BY <2>6, <3>1
      <3>3. h[n + 1] = IF n + 1 = 1 THEN parts[n + 1] ELSE h[n] \o parts[n + 1]
        BY <2>4, <3>1
      <3>4. n + 1 = 1 \/ flatten[n] = h[n]
        BY <2>7, <2>9
      <3> QED BY <2>7, <3>1, <3>2, <3>3, <3>4
    <2>10. \A n \in 0 .. N : n \in T
      BY <2>8, <2>9, SetInduction
    <2>11. N \in 0 .. N /\ N \in 1 .. N
      BY <1>3
    <2>12. flatten[N] = h[N] /\ h[N] = f[N]
      BY <1>3, <2>3, <2>7, <2>10, <2>11
    <2> QED BY <1>1, <2>1, <2>12
  <1> QED BY <1>2, <1>3

=============================================================================
