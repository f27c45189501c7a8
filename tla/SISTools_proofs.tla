--------------------------- MODULE SISTools_proofs ---------------------------
(***************************************************************************)
(* Proofs about signsis, for any files, keys and number of runs, and then  *)
(* about makesis and signsis in one directory, for any packages.           *)
(*                                                                         *)
(* The invariant that matters for signsis is that every signature in every *)
(* file covers the elements in front of it.  It is not inductive: between  *)
(* the load and the write a run keeps the controller in an object, edited, *)
(* serialised and compressed again, and -o takes it apart.  SignInv says   *)
(* what holds of the object at each step.  HeldInv adds that it is the     *)
(* controller of the file that was read, which the refinement of           *)
(* PackageStore needs, and ConsistentInv that its checksums are right.     *)
(***************************************************************************)
EXTENDS SISTools, PkgSemantics, SigningRefinement, DataLemmas

-----------------------------------------------------------------------------
(***************************************************************************)
(* What the operations on the element list of a SISCompound                *)
(* (makesis-4/src/sisfield.h) return, for lists of any length.             *)
(***************************************************************************)

(* Every nonempty set of numbers up to n has a largest element. *)
LEMMA LargestExists ==
  ASSUME NEW n \in Nat, NEW T, T \subseteq 1 .. n, T # {}
  PROVE  \E i \in T : \A j \in T : j <= i
  <1> DEFINE U == {n - i : i \in T}
  <1>a. U \subseteq Nat /\ U # {}
    <2>1. \A i \in T : n - i \in Nat
      OBVIOUS
    <2>2. U \subseteq Nat
      BY <2>1
    <2>3. PICK i \in T : TRUE
      OBVIOUS
    <2>4. n - i \in U
      OBVIOUS
    <2> QED BY <2>2, <2>4
  <1>b. \E u \in U : \A v \in U : u <= v
    <2> HIDE DEF U
    <2> QED BY <1>a, SmallestElement
  <1>1. PICK u \in U : \A v \in U : u <= v
    BY <1>b
  <1>2. PICK i \in T : u = n - i
    OBVIOUS
  <1>3. \A j \in T : n - i <= n - j
    BY <1>1, <1>2
  <1>4. \A j \in T : j <= i
    BY <1>3
  <1> QED
    BY <1>4

(* FindElement returns an element of type t with none in front of it. *)
LEMMA FirstPositionIs ==
  ASSUME NEW s, NEW t, IsList(s), HasElement(s, t)
  PROVE  /\ FirstPosition(s, t) \in Positions(s, t)
         /\ \A j \in Positions(s, t) : FirstPosition(s, t) <= j
  <1>a. Positions(s, t) \subseteq Nat /\ Positions(s, t) # {}
    BY DEF Positions, HasElement, IsList
  <1>1. \E i \in Positions(s, t) : \A j \in Positions(s, t) : i <= j
    BY <1>a, SmallestElement
  <1> QED
    BY <1>1 DEF FirstPosition

(* FindRemoveLastElement takes an element of type t with none behind it. *)
LEMMA LastPositionIs ==
  ASSUME NEW s, NEW t, IsList(s), HasElement(s, t)
  PROVE  /\ LastPosition(s, t) \in Positions(s, t)
         /\ \A j \in Positions(s, t) : j <= LastPosition(s, t)
  <1>1. \E i \in Positions(s, t) : \A j \in Positions(s, t) : j <= i
    BY LargestExists DEF Positions, HasElement, IsList
  <1> QED
    BY <1>1 DEF LastPosition

(* AddElementAt makes the list one longer. *)
LEMMA AddElementAtIs ==
  ASSUME NEW s, IsList(s), NEW e, NEW pos \in 0 .. Len(s)
  PROVE  /\ IsList(AddElementAt(s, e, pos))
         /\ Len(AddElementAt(s, e, pos)) = Len(s) + 1
         /\ AddElementAt(s, e, pos)[pos + 1] = e
         /\ \A i \in 1 .. pos : AddElementAt(s, e, pos)[i] = s[i]
         /\ \A i \in pos + 1 .. Len(s) : AddElementAt(s, e, pos)[i + 1] = s[i]
  <1> DEFINE f == AddElementAt(s, e, pos)
  <1>1. Len(s) \in Nat /\ Len(s) + 1 \in Nat
    BY DEF IsList
  <1>2. f = [i \in 1 .. Len(s) + 1 |-> f[i]]
    BY <1>1 DEF AddElementAt
  <1>3. IsList(f) /\ Len(f) = Len(s) + 1
    BY <1>1, <1>2, FunctionIsList
  <1> QED
    BY <1>1, <1>3 DEF AddElementAt

(* Replacing an element changes that one only. *)
LEMMA ReplaceIs ==
  ASSUME NEW s, IsList(s), NEW e, NEW p \in 1 .. Len(s)
  PROVE  /\ IsList([s EXCEPT ![p] = e])
         /\ Len([s EXCEPT ![p] = e]) = Len(s)
         /\ [s EXCEPT ![p] = e][p] = e
         /\ \A i \in 1 .. Len(s) : i # p => [s EXCEPT ![p] = e][i] = s[i]
  <1> DEFINE f == [s EXCEPT ![p] = e]
  <1>1. Len(s) \in Nat /\ DOMAIN s = 1 .. Len(s)
    BY DEF IsList
  <1>2. f = [i \in 1 .. Len(s) |-> f[i]]
    BY <1>1
  <1>3. IsList(f) /\ Len(f) = Len(s)
    BY <1>1, <1>2, FunctionIsList
  <1> QED
    BY <1>1, <1>3

(* Removal closes the gap. *)
LEMMA WithoutIs ==
  ASSUME NEW s, IsList(s), NEW p \in 1 .. Len(s)
  PROVE  /\ IsList(Without(s, p))
         /\ Len(Without(s, p)) = Len(s) - 1
         /\ \A i \in 1 .. p - 1 : Without(s, p)[i] = s[i]
         /\ \A i \in p .. Len(s) - 1 : Without(s, p)[i] = s[i + 1]
  <1> DEFINE f == Without(s, p)
  <1>1. Len(s) \in Nat /\ Len(s) - 1 \in Nat
    BY DEF IsList
  <1>2. f = [i \in 1 .. Len(s) - 1 |-> f[i]]
    BY <1>1 DEF Without
  <1>3. IsList(f) /\ Len(f) = Len(s) - 1
    BY <1>1, <1>2, FunctionIsList
  <1> QED
    BY <1>1, <1>3 DEF Without

(* There is only one first and one last place. *)
LEMMA FirstPositionUnique ==
  ASSUME NEW s, NEW t, IsList(s), NEW p \in Positions(s, t),
         \A j \in Positions(s, t) : p <= j
  PROVE  HasElement(s, t) /\ FirstPosition(s, t) = p
  <1>1. HasElement(s, t)
    BY DEF HasElement
  <1>2. /\ FirstPosition(s, t) \in Positions(s, t)
        /\ \A j \in Positions(s, t) : FirstPosition(s, t) <= j
    BY <1>1, FirstPositionIs
  <1>3. Positions(s, t) \subseteq Nat
    BY DEF Positions, IsList
  <1> QED
    BY <1>1, <1>2, <1>3

(* An element of type t with none behind it is the one that                *)
(* FindRemoveLastElement takes.                                            *)
LEMMA LastPositionUnique ==
  ASSUME NEW s, NEW t, IsList(s), NEW p \in Positions(s, t),
         \A j \in Positions(s, t) : j <= p
  PROVE  HasElement(s, t) /\ LastPosition(s, t) = p
  <1>1. HasElement(s, t)
    BY DEF HasElement
  <1>2. /\ LastPosition(s, t) \in Positions(s, t)
        /\ \A j \in Positions(s, t) : j <= LastPosition(s, t)
    BY <1>1, LastPositionIs
  <1>3. Positions(s, t) \subseteq Nat
    BY DEF Positions, IsList
  <1> QED
    BY <1>1, <1>2, <1>3

(* Inserting an element of another type does not change what FindElement   *)
(* finds.                                                                  *)
LEMMA FindAfterAdd ==
  ASSUME NEW s, NEW t, NEW e, NEW pos \in 0 .. Len(s),
         IsList(s), HasElement(s, t), e.id # t
  PROVE  /\ HasElement(AddElementAt(s, e, pos), t)
         /\ FindElement(AddElementAt(s, e, pos), t) = FindElement(s, t)
  <1> DEFINE f == AddElementAt(s, e, pos)
             q == FirstPosition(s, t)
             r == IF q <= pos THEN q ELSE q + 1
  <1>1. q \in Positions(s, t) /\ \A j \in Positions(s, t) : q <= j
    BY FirstPositionIs
  <1>2. /\ IsList(f)
        /\ Len(f) = Len(s) + 1
        /\ f[pos + 1] = e
        /\ \A i \in 1 .. pos : f[i] = s[i]
        /\ \A i \in pos + 1 .. Len(s) : f[i + 1] = s[i]
    BY AddElementAtIs
  <1>3. Len(s) \in Nat /\ q \in 1 .. Len(s) /\ s[q].id = t
    BY <1>1 DEF IsList, Positions
  <1> HIDE DEF f, q
  <1>4. f[r] = s[q] /\ r \in 1 .. Len(f)
    BY <1>2, <1>3
  <1>5. r \in Positions(f, t)
    BY <1>3, <1>4 DEF Positions
  <1>6. ASSUME NEW j \in Positions(f, t)
        PROVE  r <= j
    <2>1. j \in 1 .. Len(s) + 1 /\ f[j].id = t
      BY <1>2 DEF Positions
    <2>2. CASE j <= pos
      <3>1. j \in Positions(s, t)
        BY <1>2, <1>3, <2>1, <2>2 DEF Positions
      <3> QED BY <1>1, <1>3, <2>1, <2>2, <3>1
    <2>3. CASE j > pos
      <3>1. j # pos + 1
        BY <1>2, <2>1
      <3>2. j - 1 \in pos + 1 .. Len(s)
        BY <1>3, <2>1, <2>3, <3>1
      <3>3. f[j] = s[j - 1]
        <4>1. f[(j - 1) + 1] = s[j - 1]
          BY <1>2, <3>2
        <4> QED BY <4>1, <2>1
      <3>4. j - 1 \in Positions(s, t)
        BY <1>3, <2>1, <3>2, <3>3 DEF Positions
      <3> QED BY <1>1, <1>3, <2>1, <3>2, <3>4
    <2> QED BY <2>1, <2>2, <2>3
  <1>7. HasElement(f, t) /\ FirstPosition(f, t) = r
    <2> HIDE DEF r
    <2> QED BY <1>2, <1>5, <1>6, FirstPositionUnique
  <1> QED
    BY <1>4, <1>7 DEF FindElement, f, q

(* Neither does replacing one element of another type by one. *)
LEMMA FindAfterReplaceOther ==
  ASSUME NEW s, NEW t, NEW e, NEW p \in 1 .. Len(s),
         IsList(s), HasElement(s, t), e.id # t, s[p].id # t
  PROVE  /\ HasElement([s EXCEPT ![p] = e], t)
         /\ FindElement([s EXCEPT ![p] = e], t) = FindElement(s, t)
  <1> DEFINE f == [s EXCEPT ![p] = e]
             q == FirstPosition(s, t)
  <1>1. q \in Positions(s, t) /\ \A j \in Positions(s, t) : q <= j
    BY FirstPositionIs
  <1>2. IsList(f) /\ Len(f) = Len(s)
    BY ReplaceIs
  <1>3. Positions(f, t) = Positions(s, t)
    BY <1>2, ReplaceIs DEF Positions
  <1>4. HasElement(f, t) /\ FirstPosition(f, t) = q
    <2> HIDE DEF f, q
    <2> QED BY <1>1, <1>2, <1>3, FirstPositionUnique
  <1>5. q # p /\ q \in 1 .. Len(s)
    BY <1>1 DEF Positions
  <1>6. f[q] = s[q]
    BY <1>5, ReplaceIs
  <1> QED
    BY <1>4, <1>6 DEF FindElement

(* An element of type t that replaces the first one is found in its place. *)
LEMMA FindAfterReplace ==
  ASSUME NEW s, NEW t, NEW e, IsList(s), HasElement(s, t), e.id = t
  PROVE  /\ IsList([s EXCEPT ![FirstPosition(s, t)] = e])
         /\ HasElement([s EXCEPT ![FirstPosition(s, t)] = e], t)
         /\ FindElement([s EXCEPT ![FirstPosition(s, t)] = e], t) = e
  <1> DEFINE q == FirstPosition(s, t)
             f == [s EXCEPT ![q] = e]
  <1>1. q \in Positions(s, t) /\ \A j \in Positions(s, t) : q <= j
    BY FirstPositionIs
  <1>2. q \in 1 .. Len(s) /\ s[q].id = t
    BY <1>1 DEF Positions
  <1> HIDE DEF q
  <1>3. /\ IsList(f) /\ Len(f) = Len(s) /\ f[q] = e
        /\ \A i \in 1 .. Len(s) : i # q => f[i] = s[i]
    BY <1>2, ReplaceIs, SMTT(30)
  <1> HIDE DEF f
  <1>4. Positions(f, t) = Positions(s, t)
    BY <1>2, <1>3 DEF Positions
  <1>5. HasElement(f, t) /\ FirstPosition(f, t) = q
    BY <1>1, <1>3, <1>4, FirstPositionUnique
  <1> QED
    BY <1>3, <1>5 DEF FindElement, f, q

-----------------------------------------------------------------------------
(***************************************************************************)
(* The edits of a controller's list.                                       *)
(***************************************************************************)

(* A signature is added over everything in front of it, behind the older   *)
(* ones and in front of the data index.                                    *)
LEMMA SignedIs ==
  ASSUME NEW c, NEW k, ControllerSound(c)
  PROVE  /\ IsList(Signed(c, k))
         /\ Len(Signed(c, k)) = Len(c) + 1
         /\ \A i \in 1 .. Len(c) - 1 : Signed(c, k)[i] = c[i]
         /\ Signed(c, k)[Len(c)].id = SigChain
         /\ Signed(c, k)[Len(c)].over = SubSeq(c, 1, Len(c) - 1)
         /\ Signed(c, k)[Len(c) + 1] = c[Len(c)]
  <1> DEFINE n       == Len(c)
             covered == FindRemoveElement(c, "SISDataIndex")
             chain   == SISSignatureCertificateChain(k, covered)
             longer  == AddElement(covered, chain)
  <1>1. IsList(c) /\ Positions(c, "SISDataIndex") = {n}
    BY DEF ControllerSound, DataIndexLast
  <1>2. n \in Nat /\ n \in 1 .. n
    BY <1>1 DEF Positions, IsList
  <1>3. HasElement(c, "SISDataIndex") /\ FirstPosition(c, "SISDataIndex") = n
    BY <1>1, <1>2, FirstPositionUnique
  <1>4. covered = Without(c, n)
    BY <1>3 DEF FindRemoveElement
  <1>5. /\ IsList(covered)
        /\ Len(covered) = n - 1
        /\ \A i \in 1 .. n - 1 : covered[i] = c[i]
    BY <1>1, <1>2, <1>4, WithoutIs
  <1>6. covered = SubSeq(c, 1, n - 1)
    <2>1. covered = [i \in 1 .. n - 1 |-> c[i]]
      BY <1>5 DEF IsList
    <2>2. SubSeq(c, 1, n - 1) = [i \in 1 .. n - 1 |-> c[i]]
      BY <1>2
    <2> QED BY <2>1, <2>2
  <1> HIDE DEF covered
  <1>7. /\ IsList(longer)
        /\ Len(longer) = n
        /\ longer[n] = chain
        /\ \A i \in 1 .. n - 1 : longer[i] = c[i]
    BY <1>2, <1>5, AddElementAtIs DEF AddElement
  <1>8. Signed(c, k) = AddElement(longer, c[n])
    BY <1>3 DEF Signed, FindElement, covered
  <1>9. chain.id = SigChain /\ chain.over = covered
    BY DEF SISSignatureCertificateChain, SigChain
  <1> HIDE DEF longer, chain
  <1>10. /\ IsList(AddElement(longer, c[n]))
         /\ Len(AddElement(longer, c[n])) = n + 1
         /\ AddElement(longer, c[n])[n + 1] = c[n]
         /\ \A i \in 1 .. n : AddElement(longer, c[n])[i] = longer[i]
    BY <1>2, <1>7, AddElementAtIs DEF AddElement
  <1> QED
    BY <1>2, <1>6, <1>7, <1>8, <1>9, <1>10

(* A list is sound when its signatures cover the elements in front of them *)
(* and only its last element is a data index, whatever list its prefixes   *)
(* are taken from.                                                         *)
LEMMA SoundByPrefixes ==
  ASSUME NEW c, NEW d, IsList(c), IsList(d), ControllerSound(c),
         NEW m \in 0 .. Len(c), m < Len(d),
         \A i \in 1 .. m : d[i] = c[i],
         \A i \in m + 1 .. Len(d) :
           d[i].id = SigChain => d[i].over = SubSeq(d, 1, i - 1),
         Positions(d, "SISDataIndex") = {Len(d)}
  PROVE  ControllerSound(d)
  <1>1. Len(c) \in Nat /\ Len(d) \in Nat
    BY DEF IsList
  <1>2. ASSUME NEW i \in Positions(d, SigChain)
        PROVE  d[i].over = SubSeq(d, 1, i - 1)
    <2>1. i \in 1 .. Len(d) /\ d[i].id = SigChain
      BY DEF Positions
    <2>2. CASE i <= m
      <3>1. i \in Positions(c, SigChain) /\ d[i] = c[i]
        BY <1>1, <2>1, <2>2 DEF Positions
      <3>2. d[i].over = SubSeq(c, 1, i - 1)
        BY <3>1 DEF ControllerSound, SignaturesCoverPrefix
      <3>3. SubSeq(c, 1, i - 1) = [j \in 1 .. i - 1 |-> c[j]]
        BY <1>1, <2>1
      <3>4. SubSeq(d, 1, i - 1) = [j \in 1 .. i - 1 |-> d[j]]
        BY <1>1, <2>1
      <3>5. \A j \in 1 .. i - 1 : c[j] = d[j]
        BY <1>1, <2>1, <2>2
      <3> QED BY <3>2, <3>3, <3>4, <3>5
    <2>3. CASE i > m
      BY <1>1, <2>1, <2>3
    <2> QED BY <1>1, <2>1, <2>2, <2>3
  <1> QED
    BY <1>2 DEF ControllerSound, SignaturesCoverPrefix, DataIndexLast

(* Signing keeps a controller sound. *)
LEMMA SignedSound ==
  ASSUME NEW c, NEW k, ControllerSound(c)
  PROVE  ControllerSound(Signed(c, k))
  <1> DEFINE d == Signed(c, k)
             n == Len(c)
  <1>1. IsList(c) /\ Positions(c, "SISDataIndex") = {n}
    BY DEF ControllerSound, DataIndexLast
  <1>2. n \in Nat /\ n \in 1 .. n /\ c[n].id = "SISDataIndex"
    BY <1>1 DEF Positions, IsList
  <1>3. /\ IsList(d)
        /\ Len(d) = n + 1
        /\ \A i \in 1 .. n - 1 : d[i] = c[i]
        /\ d[n].id = SigChain
        /\ d[n].over = SubSeq(c, 1, n - 1)
        /\ d[n + 1] = c[n]
    BY SignedIs
  <1> HIDE DEF d
  <1>4. SubSeq(d, 1, n - 1) = SubSeq(c, 1, n - 1)
    <2>1. SubSeq(d, 1, n - 1) = [j \in 1 .. n - 1 |-> d[j]]
      BY <1>2
    <2>2. SubSeq(c, 1, n - 1) = [j \in 1 .. n - 1 |-> c[j]]
      BY <1>2
    <2> QED BY <1>3, <2>1, <2>2
  <1>5. \A i \in n .. Len(d) : d[i].id = SigChain => d[i].over = SubSeq(d, 1, i - 1)
    <2>1. d[n + 1].id # SigChain
      BY <1>2, <1>3 DEF SigChain
    <2> QED BY <1>2, <1>3, <1>4, <2>1
  <1>6. Positions(d, "SISDataIndex") = {Len(d)}
    <2>1. ASSUME NEW i \in 1 .. n - 1 PROVE d[i].id # "SISDataIndex"
      <3>1. i \notin Positions(c, "SISDataIndex") /\ i \in 1 .. Len(c)
        BY <1>1, <1>2
      <3> QED BY <3>1, <1>3 DEF Positions
    <2>2. d[n].id # "SISDataIndex" /\ d[n + 1].id = "SISDataIndex"
      BY <1>2, <1>3 DEF SigChain
    <2>3. \A i \in 1 .. n + 1 : i \in 1 .. n - 1 \/ i = n \/ i = n + 1
      BY <1>2
    <2> QED BY <1>2, <1>3, <2>1, <2>2, <2>3 DEF Positions
  <1> DEFINE m == n - 1
  <1>7. /\ m \in 0 .. Len(c) /\ m < Len(d)
        /\ \A i \in 1 .. m : d[i] = c[i]
        /\ \A i \in m + 1 .. Len(d) :
             d[i].id = SigChain => d[i].over = SubSeq(d, 1, i - 1)
    BY <1>2, <1>3, <1>5
  <1>8. ControllerSound(d)
    <2> HIDE DEF m, n
    <2> QED BY <1>1, <1>3, <1>6, <1>7, SoundByPrefixes
  <1> QED
    BY <1>8 DEF d

(* Removing the last signature keeps a controller sound: the signatures    *)
(* that stay are in front of it.                                           *)
LEMMA RemoveLastSound ==
  ASSUME NEW c, ControllerSound(c)
  PROVE  ControllerSound(FindRemoveLastElement(c, SigChain))
  <1> DEFINE d == FindRemoveLastElement(c, SigChain)
             n == Len(c)
             p == LastPosition(c, SigChain)
  <1>1. IsList(c) /\ Positions(c, "SISDataIndex") = {n}
    BY DEF ControllerSound, DataIndexLast
  <1>2. n \in Nat /\ n \in 1 .. n /\ c[n].id = "SISDataIndex"
    BY <1>1 DEF Positions, IsList
  <1>3. CASE ~ HasElement(c, SigChain)
    BY <1>3 DEF FindRemoveLastElement
  <1>4. CASE HasElement(c, SigChain)
    <2>1. p \in Positions(c, SigChain) /\ \A j \in Positions(c, SigChain) : j <= p
      BY <1>1, <1>4, LastPositionIs
    <2>2. p \in 1 .. n /\ c[p].id = SigChain
      BY <2>1 DEF Positions
    <2>3. p < n
      BY <1>2, <2>2 DEF SigChain
    <2>4. d = Without(c, p)
      BY <1>4 DEF FindRemoveLastElement
    <2> HIDE DEF p
    <2>5. /\ IsList(d)
          /\ Len(d) = n - 1
          /\ \A i \in 1 .. p - 1 : d[i] = c[i]
          /\ \A i \in p .. n - 1 : d[i] = c[i + 1]
      BY <1>1, <2>2, <2>4, WithoutIs
    <2> HIDE DEF d
    <2>6. ASSUME NEW i \in p .. Len(d) PROVE d[i].id # SigChain
      <3>1. i + 1 \in 1 .. n /\ i + 1 > p /\ d[i] = c[i + 1]
        BY <1>2, <2>2, <2>5
      <3>2. i + 1 \notin Positions(c, SigChain)
        BY <1>2, <2>1, <2>2, <3>1
      <3> QED BY <3>1, <3>2 DEF Positions
    <2>7. Positions(d, "SISDataIndex") = {Len(d)}
      <3>1. \A i \in 1 .. n : c[i].id = "SISDataIndex" <=> i = n
        BY <1>1, <1>2 DEF Positions
      <3>2. \A i \in 1 .. n - 1 : d[i].id = "SISDataIndex" <=> i = n - 1
        <4> TAKE i \in 1 .. n - 1
        <4>1. CASE i < p
          BY <1>2, <2>2, <2>3, <2>5, <3>1, <4>1
        <4>2. CASE i >= p
          <5>1. d[i] = c[i + 1] /\ i + 1 \in 1 .. n
            BY <1>2, <2>2, <2>5, <4>2
          <5> QED BY <1>2, <3>1, <5>1
        <4> QED BY <1>2, <2>2, <4>1, <4>2
      <3>3. n - 1 \in 1 .. n - 1
        BY <1>2, <2>2, <2>3
      <3> QED BY <2>5, <3>2, <3>3 DEF Positions
    <2> DEFINE m == p - 1
    <2>8. /\ m \in 0 .. Len(c) /\ m < Len(d)
          /\ \A i \in 1 .. m : d[i] = c[i]
          /\ \A i \in m + 1 .. Len(d) :
               d[i].id = SigChain => d[i].over = SubSeq(d, 1, i - 1)
      BY <1>2, <2>2, <2>3, <2>5, <2>6
    <2>9. ControllerSound(d)
      <3> HIDE DEF m, n
      <3> QED BY <1>1, <2>5, <2>7, <2>8, SoundByPrefixes
    <2> QED
      BY <2>9 DEF d
  <1> QED
    BY <1>3, <1>4

(* The signature that was added is the last one, and without it the list   *)
(* is what it was.                                                         *)
LEMMA RemoveLastOfSigned ==
  ASSUME NEW c, NEW k, ControllerSound(c)
  PROVE  FindRemoveLastElement(Signed(c, k), SigChain) = c
  <1> DEFINE d == Signed(c, k)
             n == Len(c)
  <1>1. IsList(c) /\ Positions(c, "SISDataIndex") = {n}
    BY DEF ControllerSound, DataIndexLast
  <1>2. n \in Nat /\ n \in 1 .. n /\ c[n].id = "SISDataIndex"
    BY <1>1 DEF Positions, IsList
  <1>3. /\ IsList(d)
        /\ Len(d) = n + 1
        /\ \A i \in 1 .. n - 1 : d[i] = c[i]
        /\ d[n].id = SigChain
        /\ d[n + 1] = c[n]
    BY SignedIs
  <1> HIDE DEF d
  <1>4. n \in Positions(d, SigChain)
    BY <1>2, <1>3 DEF Positions
  <1>5. \A j \in Positions(d, SigChain) : j <= n
    <2>1. n + 1 \notin Positions(d, SigChain)
      BY <1>2, <1>3 DEF Positions, SigChain
    <2> QED BY <1>2, <1>3, <2>1 DEF Positions
  <1>6. FindRemoveLastElement(d, SigChain) = Without(d, n)
    <2>1. HasElement(d, SigChain) /\ LastPosition(d, SigChain) = n
      BY <1>3, <1>4, <1>5, LastPositionUnique
    <2> QED BY <2>1 DEF FindRemoveLastElement
  <1>7. /\ IsList(Without(d, n))
        /\ Len(Without(d, n)) = n
        /\ \A i \in 1 .. n - 1 : Without(d, n)[i] = d[i]
        /\ Without(d, n)[n] = d[n + 1]
    <2>1. n \in 1 .. Len(d) /\ n \in n .. Len(d) - 1 /\ Len(d) - 1 = n
      BY <1>2, <1>3
    <2> QED BY <1>3, <2>1, WithoutIs
  <1>8. Without(d, n) = c
    <2>1. \A i \in 1 .. n : Without(d, n)[i] = c[i]
      <3>1. Without(d, n)[n] = c[n]
        BY <1>3, <1>7
      <3>2. \A i \in 1 .. n - 1 : Without(d, n)[i] = c[i]
        BY <1>3, <1>7
      <3>3. \A i \in 1 .. n : i = n \/ i \in 1 .. n - 1
        BY <1>2
      <3> QED BY <3>1, <3>2, <3>3
    <2> QED BY <1>1, <1>7, <2>1, ListsEqual
  <1> QED
    BY <1>6, <1>8 DEF d

-----------------------------------------------------------------------------
(***************************************************************************)
(* The compressed field of the controller.                                 *)
(***************************************************************************)

(* What is loaded from a readable field is the field that was stored. *)
LEMMA LoadedIs ==
  ASSUME NEW f, Readable(f)
  PROVE  /\ IsObject(LoadChild(Uncompress(Load(f))))
         /\ LoadChild(Uncompress(Load(f))).iField = Plain(f)
         /\ Load(f).iAlgorithm \in {ECompressNone, ECompressDeflate}
  <1> DEFINE o == Load(f)
             u == Uncompress(o)
             l == LoadChild(u)
  <1> USE DEF ECompressNone, ECompressDeflate
  <1>1. /\ IsObject(o)
        /\ o.iAlgorithm = f.alg
        /\ f.alg = ECompressNone => /\ o.iUncompressedBuffer = f.buffer
                                    /\ o.iCompressedBuffer = NULL
        /\ f.alg = ECompressDeflate => o.iCompressedBuffer = f.buffer
    BY DEF Load, IsObject, Members
  <1>2. f.alg = ECompressDeflate => f.buffer # NULL
    BY DEF Readable, NULL
  <1>3. f.alg \in {ECompressNone, ECompressDeflate}
    BY DEF Readable
  <1> HIDE DEF o
  <1>4. /\ IsObject(u)
        /\ f.alg = ECompressNone => u.iUncompressedBuffer = f.buffer
        /\ f.alg = ECompressDeflate => u.iUncompressedBuffer = Inflated(f.buffer)
    BY <1>1, <1>2, <1>3 DEF Uncompress, IsObject, Members
  <1> HIDE DEF u
  <1>5. IsObject(l) /\ l.iField = LoadOneField(u.iUncompressedBuffer)
    BY <1>4 DEF LoadChild, IsObject, Members
  <1> HIDE DEF l
  <1>6. l.iField = Plain(f)
    BY <1>3, <1>4, <1>5 DEF Plain
  <1> QED
    BY <1>1, <1>3, <1>5, <1>6 DEF l, u, o

(* Serialising an object and compressing it with either algorithm gives a  *)
(* readable field that holds the object's child.                           *)
LEMMA RebuiltIs ==
  ASSUME NEW o, IsObject(o), NEW alg \in {ECompressNone, ECompressDeflate},
         NEW r, r = Compress(LoadUncompressed(o), alg),
         NEW f, f = CopyFieldData(r)
  PROVE  /\ IsObject(r)
         /\ r.iField = o.iField
         /\ f.id = "SISCompressed"
         /\ Readable(f)
         /\ Plain(f) = o.iField
         /\ f.alg = alg
  <1> DEFINE u   == LoadUncompressed(o)
             raw == Serialised(o.iField)
  <1> USE DEF ECompressNone, ECompressDeflate
  <1>1. /\ IsObject(u)
        /\ u.iField = o.iField
        /\ u.iUncompressedBuffer = raw
        /\ u.iUncompressedSize = SizeOf(raw)
        /\ u.iCompressedBuffer = NULL
    BY DEF LoadUncompressed, IsObject, Members
  <1>2. raw # NULL /\ Deflated(raw) # NULL
    BY DEF Serialised, Deflated, NULL
  <1>3. /\ raw.encoding = "raw" /\ LoadOneField(raw) = o.iField
        /\ Deflated(raw).encoding = "zlib" /\ Inflated(Deflated(raw)) = raw
    BY DEF Serialised, Deflated, Inflated, LoadOneField
  <1>4. r = Compress(u, alg)
    OBVIOUS
  <1> HIDE DEF u, raw
  <1>5. CASE alg = ECompressNone
    <2>1. r = [u EXCEPT !.iCompressedBuffer = NULL, !.iAlgorithm = ECompressNone]
      BY <1>1, <1>2, <1>4, <1>5 DEF Compress
    <2>2. /\ IsObject(r)
          /\ r.iField = u.iField
          /\ r.iCompressedBuffer = NULL
          /\ r.iAlgorithm = ECompressNone
          /\ r.iUncompressedBuffer = raw
          /\ r.iUncompressedSize = SizeOf(raw)
      BY <1>1, <2>1 DEF IsObject, Members
    <2>3. /\ f.id = "SISCompressed" /\ f.alg = ECompressNone
          /\ f.buffer = raw /\ f.size = SizeOf(raw)
      BY <2>2 DEF CopyFieldData
    <2> QED
      BY <1>1, <1>3, <1>5, <2>2, <2>3 DEF Readable, Plain
  <1>6. CASE alg = ECompressDeflate
    <2>1. r = CompressSmaller(u, alg)
      BY <1>1, <1>2, <1>4, <1>6 DEF Compress
    <2>2. /\ IsObject(r)
          /\ r.iField = u.iField
          /\ r.iCompressedBuffer = Deflated(raw)
          /\ r.iAlgorithm = ECompressDeflate
          /\ r.iUncompressedSize = SizeOf(raw)
      BY <1>1, <1>6, <2>1 DEF IsObject, Members, CompressSmaller
    <2>3. /\ f.id = "SISCompressed" /\ f.alg = ECompressDeflate
          /\ f.buffer = Deflated(raw) /\ f.size = SizeOf(raw)
      BY <1>2, <2>2 DEF CopyFieldData
    <2> QED
      BY <1>1, <1>3, <1>6, <2>2, <2>3 DEF Readable, Plain
  <1> QED
    BY <1>5, <1>6

(* The checksum of the controller is that of the controller put in, and    *)
(* bringing it up to date leaves the first element of any other type.      *)
LEMMA ControllerChecksumIs ==
  ASSUME NEW s, NEW f, NEW type, IsList(s), HasElement(s, type),
         type # "SISControllerChecksum"
  PROVE  LET u == WithControllerChecksum(s, f)
         IN  /\ IsList(u)
             /\ HasElement(u, type)
             /\ FindElement(u, type) = FindElement(s, type)
             /\ FindElement(u, "SISControllerChecksum").iValue = crcSlow(f)
  <1> DEFINE csum   == SISControllerChecksum(crcSlow(f))
             filled == IF HasElement(s, "SISControllerChecksum") THEN s
                       ELSE AddElementAt(s, csum, 0)
             p      == FirstPosition(filled, "SISControllerChecksum")
             u      == [filled EXCEPT ![p] = csum]
  <1>1. csum.id = "SISControllerChecksum" /\ csum.iValue = crcSlow(f)
    BY DEF SISControllerChecksum
  <1>2. WithControllerChecksum(s, f) = u
    BY DEF WithControllerChecksum
  <1> HIDE DEF csum
  <1>3. 0 \in 0 .. Len(s)
    BY DEF IsList
  <1>4. /\ IsList(filled)
        /\ HasElement(filled, type)
        /\ FindElement(filled, type) = FindElement(s, type)
    BY <1>1, <1>3, AddElementAtIs, FindAfterAdd
  <1>5. HasElement(filled, "SISControllerChecksum")
    <2>1. CASE HasElement(s, "SISControllerChecksum")
      BY <2>1
    <2>2. CASE ~ HasElement(s, "SISControllerChecksum")
      <3>1. /\ Len(AddElementAt(s, csum, 0)) = Len(s) + 1
            /\ AddElementAt(s, csum, 0)[1] = csum
        BY <1>3, AddElementAtIs
      <3>2. 1 \in Positions(filled, "SISControllerChecksum")
        BY <1>1, <1>3, <2>2, <3>1 DEF Positions, IsList
      <3> QED BY <3>2 DEF HasElement
    <2> QED BY <2>1, <2>2
  <1> HIDE DEF filled
  <1>6. p \in 1 .. Len(filled) /\ filled[p].id = "SISControllerChecksum"
    BY <1>4, <1>5, FirstPositionIs DEF Positions
  <1>7. IsList(u) /\ FindElement(u, "SISControllerChecksum") = csum
    BY <1>1, <1>4, <1>5, FindAfterReplace
  <1> HIDE DEF p
  <1>8. /\ HasElement(u, type)
        /\ FindElement(u, type) = FindElement(s, type)
    <2>1. csum.id # type /\ filled[p].id # type
      BY <1>1, <1>6
    <2>2. /\ HasElement(u, type)
          /\ FindElement(u, type) = FindElement(filled, type)
      BY <1>4, <1>6, <2>1, FindAfterReplaceOther
    <2> QED BY <1>4, <2>2
  <1> QED
    BY <1>1, <1>2, <1>7, <1>8

(* Refreshing or adding checksums leaves the controller, and the data, the *)
(* first of their kind.                                                    *)
LEMMA ChecksumsKeep ==
  ASSUME NEW s, NEW f, NEW type, IsList(s), HasElement(s, type),
         type \notin {"SISControllerChecksum", "SISDataChecksum"}
  PROVE  LET t == WithDataChecksum(WithControllerChecksum(s, f))
         IN  /\ IsList(t)
             /\ HasElement(t, type)
             /\ FindElement(t, type) = FindElement(s, type)
  <1>1. PICK u : u = WithControllerChecksum(s, f)
    OBVIOUS
  <1>2. IsList(u) /\ HasElement(u, type) /\ FindElement(u, type) = FindElement(s, type)
    BY <1>1, ControllerChecksumIs
  <1>3. PICK dcsum : dcsum = SISDataChecksum(crcFast(FALSE, FindElement(u, "SISData")))
    OBVIOUS
  <1>4. dcsum.id = "SISDataChecksum"
    BY <1>3 DEF SISDataChecksum
  <1>5. 1 \in 0 .. Len(u)
    BY <1>2 DEF HasElement, Positions, IsList
  <1>6. CASE HasElement(u, "SISDataChecksum") \/ ~ HasElement(u, "SISData")
    BY <1>1, <1>2, <1>6 DEF WithDataChecksum
  <1>7. CASE ~ (HasElement(u, "SISDataChecksum") \/ ~ HasElement(u, "SISData"))
    <2>1. WithDataChecksum(u) = AddElementAt(u, dcsum, 1)
      BY <1>3, <1>7 DEF WithDataChecksum
    <2> QED
      BY <1>1, <1>2, <1>4, <1>5, <2>1, AddElementAtIs, FindAfterAdd
  <1> QED
    BY <1>6, <1>7

-----------------------------------------------------------------------------
(***************************************************************************)
(* The inductive invariant.                                                *)
(***************************************************************************)
FilesSound == \A f \in File : IsSis(disk[f]) => FileSound(disk[f])

(* A controller that may be written is sound while it is edited. *)
EditSound ==
  spc \in {"sign", "remove", "rebuild"} => ControllerSound(sController.iField)

(* The contents have a place for the controller all along. *)
ContentsHaveController ==
  spc # "idle" => HasElement(sContents, "SISCompressed")

(* What is about to be written is sound. *)
OutputSound ==
  spc \in {"open", "write"} => FileSound(SisFile(sUid, sContents))

SignInv ==
  SignTypeOK /\ FilesSound /\ EditSound /\ ContentsHaveController /\ OutputSound

signAllVars == <<diskVars, signVars>>

(* The inductive invariant holds before the first run of signsis. *)
LEMMA SignInitInv == DiskInit /\ SignInit => SignInv
  <1> SUFFICES ASSUME DiskInit, SignInit PROVE SignInv
    OBVIOUS
  <1>1. disk = [f \in File |-> disk[f]] /\ \A f \in File : disk[f] \in Foreign \cup {NoFile}
    BY DEF DiskInit
  <1>2. \A f \in Foreign : f.kind = "sis" /\ FileSound(f)
    BY ForeignAssumption DEF IsSis
  <1>3. \A f \in File : disk[f].kind \in {"none", "sis"}
    BY <1>1, <1>2 DEF NoFile
  <1>4. FilesSound
    BY <1>1, <1>2 DEF FilesSound, NoFile, IsSis
  <1>5. spc = "idle" /\ sArgs = NoArgs
    BY DEF SignInit
  <1>6. SignTypeOK
    BY <1>1, <1>3, <1>5 DEF SignTypeOK
  <1> QED
    BY <1>4, <1>5, <1>6 DEF SignInv, EditSound, ContentsHaveController, OutputSound

(* A step that leaves the disk alone, or makes one file incomplete, or     *)
(* writes a sound one, leaves every file sound.                            *)
LEMMA DiskStepSound ==
  ASSUME SignTypeOK, FilesSound, NEW f \in File, NEW v,
         disk' = disk \/ disk' = [disk EXCEPT ![f] = v],
         v.kind \in {"none", "partial", "stub", "sis"}, IsSis(v) => FileSound(v)
  PROVE  /\ disk' = [g \in File |-> disk'[g]]
         /\ \A g \in File : disk'[g].kind \in {"none", "partial", "stub", "sis"}
         /\ FilesSound'
  <1>1. disk = [g \in File |-> disk[g]]
    BY DEF SignTypeOK
  <1>2. disk' = [g \in File |-> disk'[g]]
    BY <1>1
  <1>3. \A g \in File : disk'[g] = disk[g] \/ disk'[g] = v
    BY <1>1
  <1>4. \A g \in File : disk'[g].kind \in {"none", "partial", "stub", "sis"}
    BY <1>3 DEF SignTypeOK
  <1>5. FilesSound'
    BY <1>3 DEF FilesSound
  <1> QED
    BY <1>2, <1>4, <1>5

(* Every stretch of signsis's main keeps the inductive invariant. *)
LEMMA SignInvNext == SignInv /\ [SignNext]_signAllVars => SignInv'
  <1> SUFFICES ASSUME SignInv, [SignNext]_signAllVars PROVE SignInv'
    OBVIOUS
  <1> USE DEF Modes
  <1>a. SignTypeOK /\ FilesSound /\ EditSound /\ ContentsHaveController /\ OutputSound
    BY DEF SignInv
  <1>1. ASSUME NEW in \in File, NEW out \in File, NEW mode \in Modes,
               SignLoad(in, out, mode)
        PROVE  SignInv'
    <2> DEFINE f == FindElement(disk[in].contents, "SISCompressed")
               o == LoadChild(Uncompress(Load(f)))
    <2>1. /\ IsList(disk[in].contents)
          /\ HasElement(disk[in].contents, "SISCompressed")
          /\ Readable(f)
          /\ ControllerSound(Plain(f))
      BY <1>a, <1>1 DEF SignLoad, FilesSound, FileSound, ControllerOf
    <2>2. /\ sController' = o
          /\ sAlgorithm' = Load(f).iAlgorithm
          /\ sContents' = disk[in].contents
          /\ sArgs' = [input |-> in, output |-> out, mode |-> mode]
          /\ spc' = mode
          /\ disk' = disk
      BY <1>1 DEF SignLoad
    <2> HIDE DEF f, o
    <2>3. /\ IsObject(sController')
          /\ sController'.iField = Plain(f)
          /\ sAlgorithm' \in {ECompressNone, ECompressDeflate}
      BY <2>1, <2>2, LoadedIs DEF o
    <2>4. SignTypeOK'
      BY <1>a, <2>1, <2>2, <2>3 DEF SignTypeOK
    <2>5. FilesSound'
      BY <1>a, <2>2 DEF FilesSound
    <2>6. EditSound' /\ ContentsHaveController' /\ OutputSound'
      BY <2>1, <2>2, <2>3 DEF EditSound, ContentsHaveController, OutputSound
    <2> QED BY <2>4, <2>5, <2>6 DEF SignInv
  <1>2. ASSUME NEW in \in File, SignLoadFails(in)
        PROVE  SignInv'
    BY <1>a, <1>2 DEF SignLoadFails, diskVars, signVars, SignInv, SignTypeOK, FilesSound,
                      EditSound, ContentsHaveController, OutputSound
  <1>3. CASE SignRemove
    <2>1. /\ spc = "remove" /\ spc' = "rebuild" /\ disk' = disk
          /\ sArgs' = sArgs /\ sContents' = sContents /\ sAlgorithm' = sAlgorithm
          /\ sController' = [sController EXCEPT
                               !.iField = FindRemoveLastElement(@, SigChain)]
      BY <1>3 DEF SignRemove, diskVars
    <2>2. IsObject(sController) /\ ControllerSound(sController.iField)
      BY <1>a, <2>1 DEF SignTypeOK, EditSound
    <2>3. /\ IsObject(sController')
          /\ sController'.iField = FindRemoveLastElement(sController.iField, SigChain)
      BY <2>1, <2>2 DEF IsObject, Members
    <2>4. SignTypeOK'
      BY <1>a, <2>1, <2>3 DEF SignTypeOK
    <2>5. EditSound'
      BY <2>2, <2>3, RemoveLastSound DEF EditSound
    <2>6. FilesSound' /\ ContentsHaveController' /\ OutputSound'
      BY <1>a, <2>1 DEF FilesSound, ContentsHaveController, OutputSound
    <2> QED BY <2>4, <2>5, <2>6 DEF SignInv
  <1>4. CASE SignDisplay
    <2>1. /\ spc = "display" /\ spc' = spc /\ disk' = disk
          /\ sArgs' = sArgs /\ sContents' = sContents /\ sAlgorithm' = sAlgorithm
          /\ sController' = [sController EXCEPT
                               !.iField = FindRemoveElement(@, SigChain)]
      BY <1>4 DEF SignDisplay, diskVars
    <2>2. IsObject(sController)
      BY <1>a, <2>1 DEF SignTypeOK
    <2>3. IsObject(sController')
      BY <2>1, <2>2 DEF IsObject, Members
    <2>4. SignTypeOK'
      BY <1>a, <2>1, <2>3 DEF SignTypeOK
    <2>5. FilesSound' /\ EditSound' /\ ContentsHaveController' /\ OutputSound'
      BY <1>a, <2>1 DEF FilesSound, EditSound, ContentsHaveController, OutputSound
    <2> QED BY <2>4, <2>5 DEF SignInv
  <1>5. CASE SignDisplayDone \/ SignAddFails
    <2>1. spc' = "idle" /\ sArgs' = NoArgs /\ disk' = disk
      BY <1>5 DEF SignDisplayDone, SignAddFails, NoRun, diskVars
    <2> QED
      BY <1>a, <2>1 DEF SignInv, SignTypeOK, FilesSound, EditSound,
                        ContentsHaveController, OutputSound
  <1>6. ASSUME NEW k \in Key, SignAdd(k)
        PROVE  SignInv'
    <2>1. /\ spc = "sign" /\ spc' = "rebuild" /\ disk' = disk
          /\ sArgs' = sArgs /\ sContents' = sContents /\ sAlgorithm' = sAlgorithm
          /\ sController' = [sController EXCEPT !.iField = Signed(@, k)]
      BY <1>6 DEF SignAdd, diskVars
    <2>2. IsObject(sController) /\ ControllerSound(sController.iField)
      BY <1>a, <2>1 DEF SignTypeOK, EditSound
    <2>3. /\ IsObject(sController')
          /\ sController'.iField = Signed(sController.iField, k)
      BY <2>1, <2>2 DEF IsObject, Members
    <2>4. SignTypeOK'
      BY <1>a, <2>1, <2>3 DEF SignTypeOK
    <2>5. EditSound'
      BY <2>2, <2>3, SignedSound DEF EditSound
    <2>6. FilesSound' /\ ContentsHaveController' /\ OutputSound'
      BY <1>a, <2>1 DEF FilesSound, ContentsHaveController, OutputSound
    <2> QED BY <2>4, <2>5, <2>6 DEF SignInv
  <1>7. CASE SignRebuild
    <2> DEFINE f == CopyFieldData(sController')
               p == FirstPosition(sContents, "SISCompressed")
               s == [sContents EXCEPT ![p] = f]
    <2>1. /\ spc = "rebuild" /\ spc' = "open" /\ disk' = disk
          /\ sArgs' = sArgs /\ sUid' = sUid /\ sAlgorithm' = sAlgorithm
          /\ sController' = Compress(LoadUncompressed(sController), sAlgorithm)
          /\ sContents' = WithDataChecksum(WithControllerChecksum(s, f))
      BY <1>7 DEF SignRebuild, Recompressed, diskVars
    <2>2. /\ IsObject(sController) /\ ControllerSound(sController.iField)
          /\ sAlgorithm \in {ECompressNone, ECompressDeflate}
          /\ IsList(sContents) /\ HasElement(sContents, "SISCompressed")
      BY <1>a, <2>1 DEF SignTypeOK, EditSound, ContentsHaveController
    <2>3. /\ IsObject(sController')
          /\ f.id = "SISCompressed" /\ Readable(f) /\ Plain(f) = sController.iField
      BY <2>1, <2>2, RebuiltIs
    <2> HIDE DEF f
    <2>4. IsList(s) /\ HasElement(s, "SISCompressed") /\ FindElement(s, "SISCompressed") = f
      BY <2>2, <2>3, FindAfterReplace
    <2> HIDE DEF s
    <2>5. /\ IsList(sContents')
          /\ HasElement(sContents', "SISCompressed")
          /\ FindElement(sContents', "SISCompressed") = f
      BY <2>1, <2>4, ChecksumsKeep
    <2>6. SignTypeOK'
      BY <1>a, <2>1, <2>3, <2>5 DEF SignTypeOK
    <2>7. OutputSound'
      BY <2>2, <2>3, <2>5 DEF OutputSound, FileSound, SisFile, ControllerOf
    <2>8. FilesSound' /\ EditSound' /\ ContentsHaveController'
      BY <1>a, <2>1, <2>5 DEF FilesSound, EditSound, ContentsHaveController
    <2> QED BY <2>6, <2>7, <2>8 DEF SignInv
  <1>8. CASE SignOpenOutput
    <2>1. /\ spc = "open" /\ spc' = "write" /\ sArgs' = sArgs /\ sUid' = sUid
          /\ sContents' = sContents /\ sController' = sController
          /\ sAlgorithm' = sAlgorithm
          /\ disk' = [disk EXCEPT ![sArgs.output] = PartialFile]
      BY <1>8 DEF SignOpenOutput, Truncate
    <2>2. sArgs.output \in File
      BY <1>a, <2>1 DEF SignTypeOK
    <2>3. PartialFile.kind = "partial" /\ ~ IsSis(PartialFile)
      BY DEF PartialFile, IsSis
    <2>4. /\ disk' = [g \in File |-> disk'[g]]
          /\ \A g \in File : disk'[g].kind \in {"none", "partial", "stub", "sis"}
          /\ FilesSound'
      BY <1>a, <2>1, <2>2, <2>3, DiskStepSound
    <2>5. SignTypeOK'
      BY <1>a, <2>1, <2>4 DEF SignTypeOK
    <2>6. EditSound' /\ ContentsHaveController' /\ OutputSound'
      BY <1>a, <2>1 DEF EditSound, ContentsHaveController, OutputSound
    <2> QED BY <2>4, <2>5, <2>6 DEF SignInv
  <1>9. CASE SignWrite
    <2> DEFINE v == SisFile(sUid, sContents)
    <2>1. /\ spc = "write" /\ spc' = "idle" /\ sArgs' = NoArgs
          /\ disk' = [disk EXCEPT ![sArgs.output] = v]
      BY <1>9 DEF SignWrite, WriteSis, NoRun
    <2>2. sArgs.output \in File /\ FileSound(v)
      BY <1>a, <2>1 DEF SignTypeOK, OutputSound
    <2>3. v.kind = "sis"
      BY DEF SisFile
    <2> HIDE DEF v
    <2>4. /\ disk' = [g \in File |-> disk'[g]]
          /\ \A g \in File : disk'[g].kind \in {"none", "partial", "stub", "sis"}
          /\ FilesSound'
      BY <1>a, <2>1, <2>2, <2>3, DiskStepSound
    <2>5. SignTypeOK'
      BY <2>1, <2>4 DEF SignTypeOK
    <2>6. EditSound' /\ ContentsHaveController' /\ OutputSound'
      BY <2>1 DEF EditSound, ContentsHaveController, OutputSound
    <2> QED BY <2>4, <2>5, <2>6 DEF SignInv
  <1>10. CASE UNCHANGED signAllVars
    BY <1>a, <1>10 DEF signAllVars, diskVars, signVars, SignInv, SignTypeOK, FilesSound,
                       EditSound, ContentsHaveController, OutputSound
  <1> QED
    BY <1>1, <1>2, <1>3, <1>4, <1>5, <1>6, <1>7, <1>8, <1>9, <1>10
       DEF SignNext, SignStep

(* The inductive invariant: every complete file is sound, and so is what a *)
(* run of signsis has loaded, edited, or is about to write.                *)
THEOREM SignInvariant == SignSpec => []SignInv
  BY SignInitInv, SignInvNext, PTL DEF SignSpec, SignAloneInit, signAllVars

(* Type correctness of signsis. *)
THEOREM SignTypeCorrect == SignSpec => []SignTypeOK
  <1>1. SignInv => SignTypeOK
    BY DEF SignInv
  <1> QED
    BY <1>1, SignInvariant, PTL

(* However often packages are signed, signed again and unsigned, in place  *)
(* or into other files, every signature in every file covers exactly the   *)
(* elements in front of it and the data index is last.                     *)
THEOREM SignaturesStayIntact == SignSpec => []SignaturesIntact
  <1>1. SignInv => SignaturesIntact
    BY DEF SignInv, FilesSound, FileSound, ControllerSound, SignaturesIntact, SisFiles
  <1> QED
    BY <1>1, SignInvariant, PTL

(* -u removes the signature that the run before it added, whatever else    *)
(* the controller holds.                                                   *)
THEOREM RemoveUndoesSigning == SignSpec => RemoveUndoesSign
  <1>1. SignInv /\ [SignNext]_signAllVars =>
          (spc = "sign" /\ spc' = "rebuild" =>
             FindRemoveLastElement(sController'.iField, SigChain) = sController.iField)
    <2> SUFFICES ASSUME SignInv, [SignNext]_signAllVars, spc = "sign", spc' = "rebuild"
                 PROVE  FindRemoveLastElement(sController'.iField, SigChain)
                          = sController.iField
      OBVIOUS
    <2>1. PICK k \in Key : SignAdd(k)
      BY DEF SignNext, SignStep, SignLoad, SignLoadFails, SignRemove, SignDisplay,
             SignDisplayDone, SignAddFails, SignRebuild, SignOpenOutput, SignWrite,
             signAllVars, diskVars, signVars
    <2>2. sController' = [sController EXCEPT !.iField = Signed(@, k)]
      BY <2>1 DEF SignAdd
    <2>3. IsObject(sController) /\ ControllerSound(sController.iField)
      BY DEF SignInv, SignTypeOK, EditSound
    <2>4. sController'.iField = Signed(sController.iField, k)
      BY <2>2, <2>3 DEF IsObject, Members
    <2> QED
      BY <2>3, <2>4, RemoveLastOfSigned
  <1> QED
    BY <1>1, SignInvariant, PTL DEF SignSpec, SignAloneInit, RemoveUndoesSign, signAllVars

(* A file is incomplete only while the run that truncated it is about to   *)
(* complete it: no error path of signsis lies behind the fopen.            *)
THEOREM NeverLeavesTruncated == SignSpec => []NoTruncatedLeftover
  <1>1. DiskInit /\ SignInit => NoTruncatedLeftover
    <2> SUFFICES ASSUME DiskInit, NEW f \in File PROVE disk[f].kind # "partial"
      BY DEF NoTruncatedLeftover
    <2>1. disk[f] \in Foreign \cup {NoFile}
      BY DEF DiskInit
    <2> QED BY <2>1, ForeignAssumption DEF IsSis, NoFile
  <1>2. SignInv /\ NoTruncatedLeftover /\ [SignNext]_signAllVars => NoTruncatedLeftover'
    <2> SUFFICES ASSUME SignInv, NoTruncatedLeftover, [SignNext]_signAllVars
                 PROVE  NoTruncatedLeftover'
      OBVIOUS
    <2>1. disk = [g \in File |-> disk[g]]
      BY DEF SignInv, SignTypeOK
    <2>2. CASE SignOpenOutput
      <3>1. /\ disk' = [disk EXCEPT ![sArgs.output] = PartialFile]
            /\ spc = "open" /\ spc' = "write" /\ sArgs' = sArgs
        BY <2>2 DEF SignOpenOutput, Truncate
      <3> QED BY <2>1, <3>1 DEF NoTruncatedLeftover
    <2>3. CASE SignWrite
      <3> DEFINE v == SisFile(sUid, sContents)
      <3>1. disk' = [disk EXCEPT ![sArgs.output] = v]
        BY <2>3 DEF SignWrite, WriteSis
      <3>2. v.kind # "partial"
        BY DEF SisFile
      <3> HIDE DEF v
      <3> QED BY <2>1, <3>1, <3>2 DEF NoTruncatedLeftover
    <2>4. CASE disk' = disk /\ spc # "write"
      BY <2>4 DEF NoTruncatedLeftover
    <2>5. CASE UNCHANGED signAllVars
      BY <2>5 DEF NoTruncatedLeftover, signAllVars, diskVars, signVars
    <2>6. CASE \E in \in File : SignLoadFails(in)
      BY <2>6 DEF NoTruncatedLeftover, SignLoadFails, diskVars, signVars
    <2>7. \/ SignOpenOutput \/ SignWrite \/ UNCHANGED signAllVars
          \/ \E in \in File : SignLoadFails(in)
          \/ disk' = disk /\ spc # "write"
      BY DEF SignNext, SignStep, SignLoad, SignRemove, SignDisplay, SignDisplayDone,
             SignAdd, SignAddFails, SignRebuild, diskVars
    <2> QED
      BY <2>2, <2>3, <2>4, <2>5, <2>6, <2>7
  <1> QED
    BY <1>1, <1>2, SignInvariant, PTL DEF SignSpec, SignAloneInit, signAllVars

(* Whatever deflating would save, the controller is written with the       *)
(* algorithm it was read with.                                             *)
THEOREM KeepsCompression == SignSpec => []CompressionKept
  <1>1. DiskInit /\ SignInit => CompressionKept
    BY DEF SignInit, CompressionKept
  <1>2. SignInv /\ CompressionKept /\ [SignNext]_signAllVars => CompressionKept'
    <2> SUFFICES ASSUME SignInv, CompressionKept, [SignNext]_signAllVars,
                        spc' \in {"open", "write"}
                 PROVE  FindElement(sContents', "SISCompressed").alg = sAlgorithm'
      BY DEF CompressionKept
    <2>1. CASE SignRebuild
      <3> DEFINE f == CopyFieldData(sController')
                 p == FirstPosition(sContents, "SISCompressed")
                 s == [sContents EXCEPT ![p] = f]
      <3>1. /\ spc = "rebuild" /\ sAlgorithm' = sAlgorithm
            /\ sController' = Compress(LoadUncompressed(sController), sAlgorithm)
            /\ sContents' = WithDataChecksum(WithControllerChecksum(s, f))
        BY <2>1 DEF SignRebuild, Recompressed
      <3>2. /\ IsObject(sController)
            /\ sAlgorithm \in {ECompressNone, ECompressDeflate}
            /\ IsList(sContents) /\ HasElement(sContents, "SISCompressed")
        BY <3>1 DEF SignInv, SignTypeOK, ContentsHaveController
      <3>3. f.id = "SISCompressed" /\ f.alg = sAlgorithm
        BY <3>1, <3>2, RebuiltIs
      <3> HIDE DEF f
      <3>4. /\ IsList(s) /\ HasElement(s, "SISCompressed")
            /\ FindElement(s, "SISCompressed") = f
        BY <3>2, <3>3, FindAfterReplace
      <3> HIDE DEF s
      <3> QED BY <3>1, <3>3, <3>4, ChecksumsKeep
    <2>2. CASE SignOpenOutput
      BY <2>2 DEF SignOpenOutput, CompressionKept
    <2>3. CASE UNCHANGED signAllVars \/ \E in \in File : SignLoadFails(in)
      BY <2>3 DEF SignLoadFails, CompressionKept, signAllVars, diskVars, signVars
    <2>4. CASE \E in, out \in File, mode \in Modes : SignLoad(in, out, mode)
      BY <2>4 DEF SignLoad, Modes
    <2>5. CASE SignRemove \/ SignDisplay \/ SignDisplayDone
      BY <2>5 DEF SignRemove, SignDisplay, SignDisplayDone
    <2>6. CASE (\E k \in Key : SignAdd(k)) \/ SignAddFails
      BY <2>6 DEF SignAdd, SignAddFails
    <2>7. CASE SignWrite
      BY <2>7 DEF SignWrite
    <2> QED
      BY <2>1, <2>2, <2>3, <2>4, <2>5, <2>6, <2>7 DEF SignNext, SignStep
  <1> QED
    BY <1>1, <1>2, SignInvariant, PTL DEF SignSpec, SignAloneInit, signAllVars

-----------------------------------------------------------------------------
(***************************************************************************)
(* What is kept of a list: the recursion of Kept, step by step.            *)
(***************************************************************************)
Elements(c) == {c[i] : i \in 1 .. Len(c)}

Keeps(a, c, chosen) ==
  /\ a[0] = << >>
  /\ \A n \in 1 .. Len(c) : a[n] = IF chosen[n] THEN Append(a[n - 1], c[n]) ELSE a[n - 1]
  /\ Kept(c, chosen) = a[Len(c)]

LEMMA KeptSteps ==
  ASSUME NEW c, IsList(c), NEW chosen
  PROVE  \E a \in [0 .. Len(c) -> Seq(Elements(c))] : Keeps(a, c, chosen)
  <1> DEFINE upTo[n \in 0 .. Len(c)] ==
               IF n = 0 THEN << >>
               ELSE IF chosen[n] THEN Append(upTo[n - 1], c[n]) ELSE upTo[n - 1]
  <1>1. Kept(c, chosen) = upTo[Len(c)]
    BY Zenon DEF Kept
  <1>2. upTo = CHOOSE f : f = [n \in 0 .. Len(c) |->
                 IF n = 0 THEN << >>
                 ELSE IF chosen[n] THEN Append(f[n - 1], c[n]) ELSE f[n - 1]]
    BY Zenon DEF upTo
  <1> HIDE DEF upTo
  <1>3. PICK N \in Nat : N = Len(c)
    BY DEF IsList
  <1>4. PICK S : S = Seq(Elements(c))
    OBVIOUS
  <1>5. << >> \in S /\ \A s \in S, n \in 1 .. N : Append(s, c[n]) \in S
    <2>1. << >> \in S
      BY <1>4
    <2>2. ASSUME NEW s \in S, NEW n \in 1 .. N
          PROVE  Append(s, c[n]) \in S
      <3>1. c[n] \in Elements(c)
        BY <1>3 DEF Elements
      <3> QED BY <1>4, <3>1
    <2> QED BY <2>1, <2>2
  <1>6. PICK g : g = [p \in (1 .. N) \X S |->
                        IF chosen[p[1]] THEN Append(p[2], c[p[1]]) ELSE p[2]]
    OBVIOUS
  <1>7. g \in [(1 .. N) \X S -> S]
    <2>1. ASSUME NEW p \in (1 .. N) \X S
          PROVE  (IF chosen[p[1]] THEN Append(p[2], c[p[1]]) ELSE p[2]) \in S
      <3>1. p[1] \in 1 .. N /\ p[2] \in S
        OBVIOUS
      <3>2. Append(p[2], c[p[1]]) \in S
        BY <1>5, <3>1
      <3> QED BY <3>1, <3>2
    <2> QED BY <1>6, <2>1
  <1>8. PICK f \in [0 .. N -> S] : Follows(f, N, << >>, g)
    BY <1>5, <1>7, RecursionExists
  <1>9. /\ f[0] = << >>
        /\ \A n \in 1 .. N : f[n] = IF chosen[n] THEN Append(f[n - 1], c[n]) ELSE f[n - 1]
    <2>1. ASSUME NEW n \in 1 .. N
          PROVE  f[n] = IF chosen[n] THEN Append(f[n - 1], c[n]) ELSE f[n - 1]
      <3>1. f[n] = g[<<n, f[n - 1]>>]
        BY <1>8 DEF Follows
      <3>2. n - 1 \in 0 .. N
        BY <1>3
      <3>3. <<n, f[n - 1]>> \in (1 .. N) \X S
        BY <3>2
      <3> QED BY <1>6, <3>1, <3>3
    <2> QED BY <1>8, <2>1 DEF Follows
  <1>10. f = [n \in 0 .. N |-> IF n = 0 THEN << >>
                               ELSE IF chosen[n] THEN Append(f[n - 1], c[n]) ELSE f[n - 1]]
    <2>1. \A n \in 0 .. N : n = 0 \/ n \in 1 .. N
      OBVIOUS
    <2>2. \A n \in 1 .. N : n # 0
      OBVIOUS
    <2>3. \A n \in 0 .. N :
            f[n] = IF n = 0 THEN << >>
                   ELSE IF chosen[n] THEN Append(f[n - 1], c[n]) ELSE f[n - 1]
      BY <1>9, <2>1, <2>2, Zenon
    <2> QED BY <2>3
  <1>11. upTo = [n \in 0 .. N |-> IF n = 0 THEN << >>
                 ELSE IF chosen[n] THEN Append(upTo[n - 1], c[n]) ELSE upTo[n - 1]]
    BY <1>2, <1>3, <1>10, Zenon
  <1>12. /\ upTo[0] = << >>
         /\ \A n \in 1 .. N : upTo[n] = IF chosen[n] THEN Append(upTo[n - 1], c[n])
                                                     ELSE upTo[n - 1]
    <2>1. 0 \in 0 .. N /\ \A n \in 1 .. N : n \in 0 .. N /\ n # 0
      OBVIOUS
    <2> QED BY <1>11, <2>1, Zenon
  <1>13. PICK T : T = {n \in 0 .. N : upTo[n] \in S}
    OBVIOUS
  <1>14. 0 \in T
    BY <1>5, <1>12, <1>13
  <1>15. ASSUME NEW n \in 0 .. N - 1, n \in T
         PROVE  n + 1 \in T
    <2>1. n + 1 \in 1 .. N /\ (n + 1) - 1 = n /\ n + 1 \in 0 .. N
      OBVIOUS
    <2>2. upTo[n] \in S
      BY <1>13, <1>15
    <2>3. Append(upTo[n], c[n + 1]) \in S
      BY <1>5, <2>1, <2>2
    <2>4. upTo[n + 1] = IF chosen[n + 1] THEN Append(upTo[n], c[n + 1]) ELSE upTo[n]
      BY <1>12, <2>1
    <2>5. upTo[n + 1] \in S
      BY <2>2, <2>3, <2>4
    <2> QED BY <1>13, <2>1, <2>5
  <1>16. \A n \in 0 .. N : n \in T
    BY <1>14, <1>15, SetInduction
  <1>17. upTo \in [0 .. N -> S]
    <2>1. \A n \in 0 .. N : upTo[n] \in S
      BY <1>13, <1>16
    <2>2. PICK h : h = [n \in 0 .. N |-> IF n = 0 THEN << >>
                 ELSE IF chosen[n] THEN Append(upTo[n - 1], c[n]) ELSE upTo[n - 1]]
      OBVIOUS
    <2>3. upTo = h
      BY <1>11, <2>2
    <2>4. DOMAIN h = 0 .. N /\ h = [n \in 0 .. N |-> h[n]]
      BY <2>2
    <2> QED BY <2>1, <2>3, <2>4
  <1> QED
    BY <1>1, <1>3, <1>4, <1>12, <1>17 DEF Keeps

(* The first m elements are the same, and so is which are chosen. *)
Agree(c, chosen, d, other, m) ==
  /\ m <= Len(c) /\ m <= Len(d)
  /\ \A i \in 1 .. m : c[i] = d[i] /\ (chosen[i] <=> other[i])

(* What is kept of the first m elements depends on these only. *)
LEMMA KeptOfPrefix ==
  ASSUME NEW c, NEW d, IsList(c), IsList(d), NEW chosen, NEW other,
         NEW m \in Nat, Agree(c, chosen, d, other, m),
         NEW a, NEW b, Keeps(a, c, chosen), Keeps(b, d, other)
  PROVE  \A n \in 0 .. m : a[n] = b[n]
  <1>1. Len(c) \in Nat /\ Len(d) \in Nat /\ m <= Len(c) /\ m <= Len(d)
    BY DEF IsList, Agree
  <1>2. PICK T : T = {n \in 0 .. m : a[n] = b[n]}
    OBVIOUS
  <1>3. 0 \in T
    BY <1>1, <1>2 DEF Keeps
  <1>4. ASSUME NEW n \in 0 .. m - 1, n \in T
        PROVE  n + 1 \in T
    <2>1. /\ n + 1 \in 1 .. m /\ (n + 1) - 1 = n /\ n + 1 \in 0 .. m
          /\ n + 1 \in 1 .. Len(c) /\ n + 1 \in 1 .. Len(d)
      BY <1>1
    <2>2. a[n] = b[n]
      BY <1>2, <1>4
    <2>3. a[n + 1] = IF chosen[n + 1] THEN Append(a[n], c[n + 1]) ELSE a[n]
      BY <2>1 DEF Keeps
    <2>4. b[n + 1] = IF other[n + 1] THEN Append(b[n], d[n + 1]) ELSE b[n]
      BY <2>1 DEF Keeps
    <2>5. c[n + 1] = d[n + 1] /\ (chosen[n + 1] <=> other[n + 1])
      BY <2>1 DEF Agree
    <2>6. a[n + 1] = b[n + 1]
      BY <2>2, <2>3, <2>4, <2>5, Zenon
    <2> QED BY <1>2, <2>1, <2>6
  <1> QED
    BY <1>1, <1>2, <1>3, <1>4, SetInduction

(* Elements at the end that are not chosen do not matter. *)
LEMMA KeptWithoutTail ==
  ASSUME NEW c, IsList(c), NEW chosen, NEW m \in 0 .. Len(c),
         \A i \in m + 1 .. Len(c) : ~ chosen[i],
         NEW a, Keeps(a, c, chosen)
  PROVE  Kept(c, chosen) = a[m]
  <1>1. Len(c) \in Nat /\ m \in Nat
    BY DEF IsList
  <1>2. PICK L \in Nat : L = Len(c) - m
    BY <1>1
  <1>3. PICK T : T = {n \in 0 .. L : a[m + n] = a[m]}
    OBVIOUS
  <1>4. 0 \in T
    BY <1>1, <1>2, <1>3
  <1>5. ASSUME NEW n \in 0 .. L - 1, n \in T
        PROVE  n + 1 \in T
    <2>1. /\ m + (n + 1) \in 1 .. Len(c) /\ (m + (n + 1)) - 1 = m + n
          /\ m + (n + 1) \in m + 1 .. Len(c) /\ n + 1 \in 0 .. L
      BY <1>1, <1>2
    <2>2. a[m + n] = a[m]
      BY <1>3, <1>5
    <2>3. ~ chosen[m + (n + 1)]
      BY <2>1
    <2>4. a[m + (n + 1)] = IF chosen[m + (n + 1)]
                           THEN Append(a[m + n], c[m + (n + 1)]) ELSE a[m + n]
      BY <2>1 DEF Keeps
    <2>5. a[m + (n + 1)] = a[m]
      BY <2>2, <2>3, <2>4, Zenon
    <2> QED BY <1>3, <2>1, <2>5
  <1>6. \A n \in 0 .. L : n \in T
    BY <1>4, <1>5, SetInduction
  <1>7. L \in T /\ m + L = Len(c)
    BY <1>1, <1>2, <1>6
  <1>8. a[Len(c)] = a[m]
    BY <1>3, <1>7
  <1> QED
    BY <1>8 DEF Keeps

(* Nor does one that is not chosen and taken out. *)
LEMMA KeptWithout ==
  ASSUME NEW c, IsList(c), NEW p \in 1 .. Len(c), NEW chosen, ~ chosen[p], NEW other,
         \A i \in 1 .. p - 1 : other[i] <=> chosen[i],
         \A i \in p .. Len(c) - 1 : other[i] <=> chosen[i + 1]
  PROVE  Kept(Without(c, p), other) = Kept(c, chosen)
  <1>1. Len(c) \in Nat /\ p \in Nat
    BY DEF IsList
  <1>2. PICK d : d = Without(c, p)
    OBVIOUS
  <1>3. /\ IsList(d)
        /\ Len(d) = Len(c) - 1
        /\ \A i \in 1 .. p - 1 : d[i] = c[i]
        /\ \A i \in p .. Len(c) - 1 : d[i] = c[i + 1]
    BY <1>2, WithoutIs
  <1>4. PICK a : Keeps(a, c, chosen)
    BY KeptSteps
  <1>5. PICK b : Keeps(b, d, other)
    BY <1>3, KeptSteps
  <1>6. PICK q : q = p - 1
    OBVIOUS
  <1>7. q \in 0 .. Len(c) /\ q \in 0 .. Len(d) /\ q <= Len(d) /\ q + 1 = p
    BY <1>1, <1>3, <1>6
  <1>8. a[q] = b[q]
    <2>1. Agree(c, chosen, d, other, q)
      <3>1. \A i \in 1 .. q : c[i] = d[i] /\ (chosen[i] <=> other[i])
        BY <1>3, <1>6
      <3>2. q <= Len(c) /\ q <= Len(d)
        BY <1>1, <1>7
      <3> QED BY <3>1, <3>2 DEF Agree
    <2>2. \A n \in 0 .. q : a[n] = b[n]
      <3>1. q \in Nat
        BY <1>1, <1>6
      <3> QED BY <1>3, <1>4, <1>5, <2>1, <3>1, KeptOfPrefix
    <2> QED BY <1>1, <1>7, <2>2
  <1>9. a[p] = a[q]
    <2>1. a[p] = IF chosen[p] THEN Append(a[q], c[p]) ELSE a[q]
      BY <1>4, <1>6 DEF Keeps
    <2> QED BY <2>1, Zenon
  <1>10. PICK L \in Nat : L = Len(d) - q
    <2>1. Len(d) - q \in Nat
      BY <1>1, <1>3, <1>6
    <2> QED BY <2>1
  <1>11. PICK T : T = {n \in 0 .. L : b[q + n] = a[p + n]}
    OBVIOUS
  <1>12. 0 \in T
    BY <1>1, <1>6, <1>8, <1>9, <1>10, <1>11
  <1>13. ASSUME NEW n \in 0 .. L - 1, n \in T
         PROVE  n + 1 \in T
    <2>1. PICK i : i = q + (n + 1)
      OBVIOUS
    <2>2. /\ i \in 1 .. Len(d) /\ i - 1 = q + n /\ i \in p .. Len(c) - 1
          /\ i + 1 \in 1 .. Len(c) /\ (i + 1) - 1 = p + n /\ i + 1 = p + (n + 1)
          /\ n + 1 \in 0 .. L
      BY <1>1, <1>3, <1>7, <1>10, <2>1
    <2>3. b[i - 1] = a[(i + 1) - 1]
      BY <1>11, <1>13, <2>2
    <2>4. b[i] = IF other[i] THEN Append(b[i - 1], d[i]) ELSE b[i - 1]
      BY <1>5, <2>2 DEF Keeps
    <2>5. a[i + 1] = IF chosen[i + 1] THEN Append(a[(i + 1) - 1], c[i + 1])
                                      ELSE a[(i + 1) - 1]
      BY <1>4, <2>2 DEF Keeps
    <2>6. d[i] = c[i + 1] /\ (other[i] <=> chosen[i + 1])
      BY <1>3, <2>2
    <2>7. b[i] = a[i + 1]
      BY <2>3, <2>4, <2>5, <2>6, Zenon
    <2> QED BY <1>11, <2>1, <2>2, <2>7
  <1>14. \A n \in 0 .. L : n \in T
    BY <1>12, <1>13, SetInduction
  <1>15. L \in T /\ q + L = Len(d) /\ p + L = Len(c)
    BY <1>1, <1>3, <1>6, <1>10, <1>14
  <1>16. b[Len(d)] = a[Len(c)]
    BY <1>11, <1>15
  <1> QED
    BY <1>2, <1>4, <1>5, <1>16 DEF Keeps


-----------------------------------------------------------------------------
(***************************************************************************)
(* signsis implements PackageStore: what the edits do to body and signers. *)
(***************************************************************************)

(* In a sound controller every signature verifies. *)
LEMMA SoundVerifies ==
  ASSUME NEW c, ControllerSound(c), NEW i \in 1 .. Len(c)
  PROVE  Verifies(c)[i] <=> c[i].id = SigChain
  <1>1. c[i].id = SigChain => c[i].over = SubSeq(c, 1, i - 1)
    BY DEF ControllerSound, SignaturesCoverPrefix, Positions
  <1>2. Verifies(c)[i] <=> (c[i].id = SigChain /\ c[i].over = SubSeq(c, 1, i - 1))
    BY DEF Verifies
  <1> QED
    BY <1>1, <1>2

(* Where there is no signature, there is no signer. *)
LEMMA NoSigners ==
  ASSUME NEW c, ControllerSound(c), ~ HasElement(c, SigChain)
  PROVE  Signers(c) = << >>
  <1>1. IsList(c) /\ Len(c) \in Nat
    BY DEF ControllerSound, IsList
  <1>2. \A i \in 1 .. Len(c) : ~ Verifies(c)[i]
    BY SoundVerifies DEF HasElement, Positions
  <1>3. PICK a : Keeps(a, c, Verifies(c))
    BY <1>1, KeptSteps
  <1>4. Kept(c, Verifies(c)) = a[0]
    BY <1>1, <1>2, <1>3, KeptWithoutTail
  <1>5. Kept(c, Verifies(c)) = << >>
    BY <1>3, <1>4 DEF Keeps
  <1> QED
    BY <1>5 DEF Signers

(* Without its last signature a controller has the body it had. *)
LEMMA RemoveKeepsBody ==
  ASSUME NEW c, ControllerSound(c)
  PROVE  Unsigned(FindRemoveLastElement(c, SigChain)) = Unsigned(c)
  <1>1. IsList(c) /\ Len(c) \in Nat
    BY DEF ControllerSound, IsList
  <1>2. CASE ~ HasElement(c, SigChain)
    BY <1>2 DEF FindRemoveLastElement
  <1>3. CASE HasElement(c, SigChain)
    <2>1. PICK p : p = LastPosition(c, SigChain)
      OBVIOUS
    <2>2. p \in 1 .. Len(c) /\ c[p].id = SigChain
      BY <1>1, <1>3, <2>1, LastPositionIs DEF Positions
    <2>3. PICK d : d = Without(c, p)
      OBVIOUS
    <2>4. FindRemoveLastElement(c, SigChain) = d
      BY <1>3, <2>1, <2>3 DEF FindRemoveLastElement
    <2>5. /\ Len(d) = Len(c) - 1
          /\ \A i \in 1 .. p - 1 : d[i] = c[i]
          /\ \A i \in p .. Len(c) - 1 : d[i] = c[i + 1]
      BY <1>1, <2>2, <2>3, WithoutIs
    <2>6. PICK chosen : chosen = [i \in 1 .. Len(c) |-> c[i].id # SigChain]
      OBVIOUS
    <2>7. PICK other : other = [i \in 1 .. Len(d) |-> d[i].id # SigChain]
      OBVIOUS
    <2>8. ~ chosen[p]
      BY <2>2, <2>6
    <2>9. \A i \in 1 .. p - 1 : other[i] <=> chosen[i]
      <3>1. \A i \in 1 .. p - 1 : i \in 1 .. Len(c) /\ i \in 1 .. Len(d)
        BY <1>1, <2>2, <2>5
      <3> QED BY <2>5, <2>6, <2>7, <3>1
    <2>10. \A i \in p .. Len(c) - 1 : other[i] <=> chosen[i + 1]
      <3>1. \A i \in p .. Len(c) - 1 : i + 1 \in 1 .. Len(c) /\ i \in 1 .. Len(d)
        BY <1>1, <2>2, <2>5
      <3> QED BY <2>5, <2>6, <2>7, <3>1
    <2>11. Kept(Without(c, p), other) = Kept(c, chosen)
      BY <1>1, <2>2, <2>8, <2>9, <2>10, KeptWithout
    <2> QED
      BY <2>3, <2>4, <2>6, <2>7, <2>11 DEF Unsigned
  <1> QED
    BY <1>2, <1>3

LEMMA KeyOfLast ==
  ASSUME NEW S, NEW v \in Seq(S), NEW e \in S
  PROVE  [i \in 1 .. Len(Append(v, e)) |-> Append(v, e)[i].key]
           = Append([i \in 1 .. Len(v) |-> v[i].key], e.key)
  <1>1. PICK u : u = Append(v, e)
    OBVIOUS
  <1>2. PICK L \in Nat : L = Len(v)
    OBVIOUS
  <1>3. u \in Seq(S) /\ Len(u) = L + 1 /\ u[L + 1] = e /\ \A i \in 1 .. L : u[i] = v[i]
    BY <1>1, <1>2
  <1>4. PICK K : K = {s.key : s \in S}
    OBVIOUS
  <1>5. PICK k : k = [i \in 1 .. L |-> v[i].key]
    OBVIOUS
  <1>6. k \in Seq(K) /\ Len(k) = L
    <2>1. \A i \in 1 .. L : v[i] \in S
      BY <1>2
    <2>2. \A i \in 1 .. L : v[i].key \in K
      BY <1>4, <2>1
    <2>3. k \in [1 .. L -> K]
      BY <1>5, <2>2
    <2> QED BY <2>3, SeqDef
  <1>7. e.key \in K
    BY <1>4
  <1>8. PICK w : w = Append(k, e.key)
    OBVIOUS
  <1>9. w \in Seq(K) /\ Len(w) = L + 1 /\ w[L + 1] = e.key /\ \A i \in 1 .. L : w[i] = k[i]
    BY <1>6, <1>7, <1>8
  <1>10. PICK z : z = [i \in 1 .. L + 1 |-> u[i].key]
    OBVIOUS
  <1>11. \A i \in 1 .. L + 1 : i \in 1 .. L \/ i = L + 1
    OBVIOUS
  <1>12. \A i \in 1 .. L + 1 : w[i] = z[i]
    BY <1>3, <1>5, <1>9, <1>10, <1>11
  <1>13. w = [i \in 1 .. L + 1 |-> w[i]]
    BY <1>9
  <1>14. w = z
    BY <1>10, <1>12, <1>13
  <1> QED
    BY <1>1, <1>2, <1>3, <1>5, <1>8, <1>10, <1>14

(* The last signature is that of the last signer. *)
LEMMA LastSigner ==
  ASSUME NEW c, ControllerSound(c), HasElement(c, SigChain)
  PROVE  Signers(c) = Append(Signers(FindRemoveLastElement(c, SigChain)),
                             c[LastPosition(c, SigChain)].key)
  <1>1. IsList(c) /\ Len(c) \in Nat
    BY DEF ControllerSound, IsList
  <1>2. PICK p : p = LastPosition(c, SigChain)
    OBVIOUS
  <1>3. /\ p \in 1 .. Len(c) /\ c[p].id = SigChain
        /\ \A j \in 1 .. Len(c) : c[j].id = SigChain => j <= p
    BY <1>1, <1>2, LastPositionIs DEF Positions
  <1>4. PICK d : d = FindRemoveLastElement(c, SigChain)
    OBVIOUS
  <1>5. d = Without(c, p)
    BY <1>2, <1>4 DEF FindRemoveLastElement
  <1>6. /\ IsList(d) /\ Len(d) = Len(c) - 1
        /\ \A i \in 1 .. p - 1 : d[i] = c[i]
        /\ \A i \in p .. Len(c) - 1 : d[i] = c[i + 1]
    BY <1>1, <1>3, <1>5, WithoutIs
  <1>7. ControllerSound(d)
    BY <1>4, RemoveLastSound
  <1>8. PICK a \in [0 .. Len(c) -> Seq(Elements(c))] : Keeps(a, c, Verifies(c))
    BY <1>1, KeptSteps
  <1>9. PICK b : Keeps(b, d, Verifies(d))
    BY <1>6, KeptSteps
  <1>10. PICK q : q = p - 1
    OBVIOUS
  <1>11. q \in Nat /\ q \in 0 .. Len(c) /\ q \in 0 .. Len(d) /\ q + 1 = p
    BY <1>1, <1>3, <1>6, <1>10
  <1>12. a[q] = b[q]
    <2>1. \A i \in 1 .. q : i \in 1 .. Len(c) /\ i \in 1 .. Len(d) /\ d[i] = c[i]
      BY <1>1, <1>3, <1>6, <1>10
    <2>2. \A i \in 1 .. q : c[i] = d[i] /\ (Verifies(c)[i] <=> Verifies(d)[i])
      BY <1>7, <2>1, SoundVerifies
    <2>3. Agree(c, Verifies(c), d, Verifies(d), q)
      BY <1>1, <1>3, <1>6, <1>10, <2>2 DEF Agree
    <2>4. \A n \in 0 .. q : a[n] = b[n]
      BY <1>1, <1>6, <1>8, <1>9, <1>11, <2>3, KeptOfPrefix
    <2> QED BY <1>11, <2>4
  <1>13. Kept(d, Verifies(d)) = b[q]
    <2>1. \A i \in q + 1 .. Len(d) : ~ Verifies(d)[i]
      <3> SUFFICES ASSUME NEW i \in q + 1 .. Len(d) PROVE ~ Verifies(d)[i]
        OBVIOUS
      <3>1. i \in p .. Len(c) - 1 /\ i \in 1 .. Len(d) /\ i + 1 \in 1 .. Len(c) /\ ~ (i + 1 <= p)
        BY <1>1, <1>3, <1>6, <1>11
      <3>2. d[i].id # SigChain
        BY <1>3, <1>6, <3>1
      <3>3. Verifies(d)[i] <=> d[i].id = SigChain
        BY <1>7, <3>1, SoundVerifies
      <3> QED BY <3>2, <3>3
    <2>2. IsList(d) /\ q \in 0 .. Len(d)
      BY <1>6, <1>11
    <2> QED BY <1>9, <2>1, <2>2, KeptWithoutTail, Zenon
  <1>14. Kept(c, Verifies(c)) = a[p]
    <2>1. \A i \in p + 1 .. Len(c) : ~ Verifies(c)[i]
      <3> SUFFICES ASSUME NEW i \in p + 1 .. Len(c) PROVE ~ Verifies(c)[i]
        OBVIOUS
      <3>1. i \in 1 .. Len(c) /\ ~ (i <= p)
        BY <1>1, <1>3
      <3> QED BY <1>3, <3>1, SoundVerifies
    <2>2. p \in 0 .. Len(c)
      BY <1>1, <1>3
    <2> QED BY <1>1, <1>8, <2>1, <2>2, KeptWithoutTail
  <1>15. a[p] = Append(a[q], c[p])
    <2>1. Verifies(c)[p]
      BY <1>3, SoundVerifies
    <2>2. a[p] = IF Verifies(c)[p] THEN Append(a[q], c[p]) ELSE a[q]
      BY <1>3, <1>8, <1>10 DEF Keeps
    <2> QED BY <2>1, <2>2, Zenon
  <1>16. PICK v : v = Kept(d, Verifies(d))
    OBVIOUS
  <1>17. v \in Seq(Elements(c)) /\ c[p] \in Elements(c)
    <2>1. a[q] \in Seq(Elements(c))
      BY <1>8, <1>11
    <2> QED BY <1>3, <1>12, <1>13, <1>16, <2>1 DEF Elements
  <1>18. Kept(c, Verifies(c)) = Append(v, c[p])
    BY <1>12, <1>13, <1>14, <1>15, <1>16
  <1>19. Signers(c) = [i \in 1 .. Len(Append(v, c[p])) |-> Append(v, c[p])[i].key]
    BY <1>18 DEF Signers
  <1>20. Signers(d) = [i \in 1 .. Len(v) |-> v[i].key]
    BY <1>16 DEF Signers
  <1>21. Signers(c) = Append(Signers(d), c[p].key)
    BY <1>17, <1>19, <1>20, KeyOfLast
  <1> QED
    BY <1>2, <1>4, <1>21

(* The signature that is added is by the key that was given. *)
LEMMA SignedKey ==
  ASSUME NEW c, NEW k, ControllerSound(c)
  PROVE  Signed(c, k)[Len(c)].key = k
  <1>1. PICK n : n = Len(c)
    OBVIOUS
  <1>2. IsList(c) /\ Positions(c, "SISDataIndex") = {n} /\ n \in Nat /\ n \in 1 .. n
    BY <1>1 DEF ControllerSound, DataIndexLast, Positions, IsList
  <1>3. HasElement(c, "SISDataIndex") /\ FirstPosition(c, "SISDataIndex") = n
    BY <1>2, FirstPositionUnique
  <1>4. PICK covered : covered = FindRemoveElement(c, "SISDataIndex")
    OBVIOUS
  <1>5. IsList(covered) /\ Len(covered) = n - 1
    BY <1>1, <1>2, <1>3, <1>4, WithoutIs DEF FindRemoveElement
  <1>6. PICK chain : chain = SISSignatureCertificateChain(k, covered)
    OBVIOUS
  <1>7. chain.key = k
    BY <1>6 DEF SISSignatureCertificateChain
  <1>8. PICK longer : longer = AddElement(covered, chain)
    OBVIOUS
  <1>9. IsList(longer) /\ Len(longer) = n /\ longer[n] = chain
    BY <1>2, <1>5, <1>8, AddElementAtIs DEF AddElement
  <1>10. Signed(c, k) = AddElement(longer, FindElement(c, "SISDataIndex"))
    BY <1>4, <1>6, <1>8 DEF Signed
  <1>11. Signed(c, k)[n] = chain
    BY <1>2, <1>9, <1>10, AddElementAtIs DEF AddElement
  <1> QED
    BY <1>1, <1>7, <1>11

(* The signers are a sequence. *)
LEMMA SignersSeq ==
  ASSUME NEW c, ControllerSound(c)
  PROVE  \E S : Signers(c) \in Seq(S)
  <1>1. IsList(c) /\ Len(c) \in Nat
    BY DEF ControllerSound, IsList
  <1>2. PICK a \in [0 .. Len(c) -> Seq(Elements(c))] : Keeps(a, c, Verifies(c))
    BY <1>1, KeptSteps
  <1>3. PICK v : v = Kept(c, Verifies(c))
    OBVIOUS
  <1>4. v \in Seq(Elements(c))
    BY <1>1, <1>2, <1>3 DEF Keeps
  <1>5. Signers(c) = [i \in 1 .. Len(v) |-> v[i].key]
    BY <1>3 DEF Signers
  <1>6. PICK L \in Nat : L = Len(v)
    BY <1>4
  <1>7. PICK K : K = {e.key : e \in Elements(c)}
    OBVIOUS
  <1>8. PICK s : s = [i \in 1 .. L |-> v[i].key]
    OBVIOUS
  <1>9. \A i \in 1 .. L : v[i].key \in K
    BY <1>4, <1>6, <1>7
  <1>10. s \in [1 .. L -> K]
    BY <1>8, <1>9
  <1>11. s \in Seq(K)
    BY <1>10, SeqDef
  <1> QED
    BY <1>5, <1>6, <1>8, <1>11

(* Signing adds a signer behind those there are, and leaves the body. *)
LEMMA SignedSigners ==
  ASSUME NEW c, NEW k, ControllerSound(c)
  PROVE  /\ Signers(Signed(c, k)) = Append(Signers(c), k)
         /\ Unsigned(Signed(c, k)) = Unsigned(c)
  <1>1. PICK d : d = Signed(c, k)
    OBVIOUS
  <1>2. PICK n : n = Len(c)
    OBVIOUS
  <1>3. n \in Nat /\ n \in 1 .. n
    BY <1>2 DEF ControllerSound, DataIndexLast, Positions, IsList
  <1>4. /\ IsList(d) /\ Len(d) = n + 1
        /\ d[n].id = SigChain /\ d[n + 1] = c[n] /\ c[n].id # SigChain
    <2>1. c[n].id = "SISDataIndex"
      BY <1>2 DEF ControllerSound, DataIndexLast, Positions
    <2> QED BY <1>1, <1>2, <2>1, SignedIs DEF SigChain
  <1>5. ControllerSound(d)
    BY <1>1, SignedSound
  <1>6. HasElement(d, SigChain) /\ LastPosition(d, SigChain) = n
    <2>1. n \in Positions(d, SigChain)
      BY <1>3, <1>4 DEF Positions
    <2>2. \A j \in Positions(d, SigChain) : j <= n
      BY <1>3, <1>4 DEF Positions
    <2> QED BY <1>4, <2>1, <2>2, LastPositionUnique
  <1>7. FindRemoveLastElement(d, SigChain) = c
    BY <1>1, RemoveLastOfSigned
  <1>8. d[n].key = k
    BY <1>1, <1>2, SignedKey
  <1>9. Signers(d) = Append(Signers(c), k)
    BY <1>5, <1>6, <1>7, <1>8, LastSigner
  <1>10. Unsigned(d) = Unsigned(c)
    BY <1>5, <1>7, RemoveKeepsBody
  <1> QED
    BY <1>1, <1>9, <1>10

(* Removing takes the last signer away, when there is one. *)
LEMMA RemovedSigners ==
  ASSUME NEW c, ControllerSound(c)
  PROVE  Signers(FindRemoveLastElement(c, SigChain)) =
           IF Signers(c) = << >> THEN << >>
           ELSE SubSeq(Signers(c), 1, Len(Signers(c)) - 1)
  <1>1. PICK d : d = FindRemoveLastElement(c, SigChain)
    OBVIOUS
  <1>2. CASE ~ HasElement(c, SigChain)
    <2>1. d = c
      BY <1>1, <1>2 DEF FindRemoveLastElement
    <2>2. Signers(c) = << >>
      BY <1>2, NoSigners
    <2> QED BY <1>1, <2>1, <2>2
  <1>3. CASE HasElement(c, SigChain)
    <2>1. PICK e : e = c[LastPosition(c, SigChain)].key
      OBVIOUS
    <2>2. Signers(c) = Append(Signers(d), e)
      BY <1>1, <1>3, <2>1, LastSigner
    <2>3. ControllerSound(d)
      BY <1>1, RemoveLastSound
    <2>4. PICK S : Signers(d) \in Seq(S)
      BY <2>3, SignersSeq
    <2>5. PICK s : s = Signers(d)
      OBVIOUS
    <2>6. s \in Seq(S \cup {e}) /\ e \in S \cup {e}
      <3>1. S \subseteq S \cup {e} /\ s \in Seq(S)
        BY <2>4, <2>5
      <3> QED BY <3>1
    <2>7. Append(s, e) # << >> /\ SubSeq(Append(s, e), 1, Len(Append(s, e)) - 1) = s
      BY <2>6
    <2> QED BY <1>1, <2>2, <2>5, <2>7
  <1> QED
    BY <1>2, <1>3

(* So the package is the one that PackageStore decides on. *)
LEMMA PackageSigned ==
  ASSUME NEW uid, NEW c, NEW units, NEW k, ControllerSound(c)
  PROVE  PackageOf(uid, Signed(c, k), units) = P!WithSigner(PackageOf(uid, c, units), k)
  <1>1. PICK u : u = Unsigned(c)
    OBVIOUS
  <1>2. PICK v : v = Signers(c)
    OBVIOUS
  <1>3. Unsigned(Signed(c, k)) = u /\ Signers(Signed(c, k)) = Append(v, k)
    BY <1>1, <1>2, SignedSigners
  <1>4. PICK b : b = [uid |-> uid, fields |-> u, units |-> units]
    OBVIOUS
  <1>5. PICK w : w = Append(v, k)
    OBVIOUS
  <1>6. PICK p : p = [is |-> "package", body |-> b, signers |-> v]
    OBVIOUS
  <1>7. PackageOf(uid, c, units) = p
    BY <1>1, <1>2, <1>4, <1>6 DEF PackageOf
  <1>8. PackageOf(uid, Signed(c, k), units)
          = [is |-> "package", body |-> b, signers |-> w]
    BY <1>3, <1>4, <1>5 DEF PackageOf
  <1>9. P!WithSigner(p, k) = [p EXCEPT !.signers = w]
    BY <1>5, <1>6 DEF P!WithSigner
  <1> QED
    BY <1>6, <1>7, <1>8, <1>9

LEMMA PackageUnsigned ==
  ASSUME NEW uid, NEW c, NEW units, ControllerSound(c)
  PROVE  PackageOf(uid, FindRemoveLastElement(c, SigChain), units)
           = P!WithoutLast(PackageOf(uid, c, units))
  <1>1. PICK u : u = Unsigned(c)
    OBVIOUS
  <1>2. PICK v : v = Signers(c)
    OBVIOUS
  <1>3. PICK d : d = FindRemoveLastElement(c, SigChain)
    OBVIOUS
  <1>4. Unsigned(d) = u
    BY <1>1, <1>3, RemoveKeepsBody
  <1>5. Signers(d) = IF v = << >> THEN << >> ELSE SubSeq(v, 1, Len(v) - 1)
    BY <1>2, <1>3, RemovedSigners
  <1>6. PICK w : w = SubSeq(v, 1, Len(v) - 1)
    OBVIOUS
  <1> QED
    BY <1>1, <1>2, <1>3, <1>4, <1>5, <1>6 DEF PackageOf, P!WithoutLast

(* What a name stands for, file by file. *)
LEMMA MeaningIs ==
  ASSUME NEW f
  PROVE  /\ IsSis(f) => Meaning(f) = PackageOf(f.uid, ControllerOf(f), UnitsOf(f))
         /\ IsSis(f) => P!IsPackage(Meaning(f))
         /\ f = PartialFile => Meaning(f) = P!Torn
         /\ f = NoFile => Meaning(f) = P!Missing
  <1>1. IsSis(f) => Meaning(f) = PackageOf(f.uid, ControllerOf(f), UnitsOf(f))
    BY DEF Meaning, IsSis
  <1>2. IsSis(f) => P!IsPackage(Meaning(f))
    BY <1>1 DEF P!IsPackage, PackageOf
  <1>3. f = PartialFile => Meaning(f) = P!Torn
    BY DEF Meaning, PartialFile, IsSis, P!Torn
  <1>4. f = NoFile => Meaning(f) = P!Missing
    BY DEF Meaning, NoFile, IsSis, P!Missing
  <1> QED
    BY <1>1, <1>2, <1>3, <1>4

-----------------------------------------------------------------------------
(***************************************************************************)
(* What a run holds is the file it read, and then what it will write.      *)
(***************************************************************************)
LoadedIsInput ==
  spc \in {"sign", "remove"} =>
    /\ IsSis(disk[sArgs.input])
    /\ disk[sArgs.input].uid = sUid
    /\ disk[sArgs.input].contents = sContents
    /\ sController.iField = Plain(FindElement(sContents, "SISCompressed"))

ReadyIsResult ==
  spc \in {"open", "write"} =>
    Plain(FindElement(sContents, "SISCompressed")) = sController.iField

DataPresent ==
  /\ \A f \in File : IsSis(disk[f]) => HasElement(disk[f].contents, "SISData")
  /\ spc # "idle" => HasElement(sContents, "SISData")

StoredInv == SignInv /\ DataPresent

HeldInv == StoredInv /\ LoadedIsInput /\ ReadyIsResult

LEMMA HeldInit == DiskInit /\ SignInit => HeldInv
  <1> SUFFICES ASSUME DiskInit, SignInit PROVE HeldInv
    OBVIOUS
  <1>1. \A f \in File : disk[f] \in Foreign \cup {NoFile}
    BY DEF DiskInit
  <1>2. \A f \in Foreign : HasElement(f.contents, "SISData")
    BY ForeignAssumption
  <1>3. ~ IsSis(NoFile)
    BY DEF NoFile, IsSis
  <1>4. spc = "idle"
    BY DEF SignInit
  <1>5. DataPresent
    BY <1>1, <1>2, <1>3, <1>4 DEF DataPresent
  <1> QED
    BY <1>4, <1>5, SignInitInv DEF HeldInv, StoredInv, LoadedIsInput, ReadyIsResult

(* Rebuilding puts the edited controller in, and leaves the data. *)
LEMMA RebuiltContents ==
  ASSUME SignInv, SignRebuild, HasElement(sContents, "SISData")
  PROVE  /\ sController'.iField = sController.iField
         /\ HasElement(sContents', "SISCompressed")
         /\ HasElement(sContents', "SISData")
         /\ FindElement(sContents', "SISData") = FindElement(sContents, "SISData")
         /\ Plain(FindElement(sContents', "SISCompressed")) = sController.iField
  <1>1. PICK f : f = CopyFieldData(sController')
    OBVIOUS
  <1>2. PICK p : p = FirstPosition(sContents, "SISCompressed")
    OBVIOUS
  <1>3. PICK s : s = [sContents EXCEPT ![p] = f]
    OBVIOUS
  <1>4. /\ sController' = Compress(LoadUncompressed(sController), sAlgorithm)
        /\ sContents' = WithDataChecksum(WithControllerChecksum(s, f))
        /\ spc = "rebuild"
    BY <1>1, <1>2, <1>3 DEF SignRebuild, Recompressed
  <1>5. /\ IsObject(sController)
        /\ sAlgorithm \in {ECompressNone, ECompressDeflate}
        /\ IsList(sContents) /\ HasElement(sContents, "SISCompressed")
    BY <1>4 DEF SignInv, SignTypeOK, ContentsHaveController
  <1>6. /\ sController'.iField = sController.iField
        /\ f.id = "SISCompressed" /\ Plain(f) = sController.iField
    BY <1>1, <1>4, <1>5, RebuiltIs
  <1>7. /\ IsList(s) /\ HasElement(s, "SISCompressed")
        /\ FindElement(s, "SISCompressed") = f
    <2>1. PICK t : t = sContents
      OBVIOUS
    <2>2. IsList(t) /\ HasElement(t, "SISCompressed") /\ f.id = "SISCompressed"
      BY <1>5, <1>6, <2>1
    <2> DEFINE r == [t EXCEPT ![FirstPosition(t, "SISCompressed")] = f]
    <2>3. IsList(r) /\ HasElement(r, "SISCompressed") /\ FindElement(r, "SISCompressed") = f
      BY <2>2, FindAfterReplace
    <2>4. s = r
      BY <1>2, <1>3, <2>1
    <2> HIDE DEF r
    <2> QED BY <2>3, <2>4
  <1>8. HasElement(s, "SISData") /\ FindElement(s, "SISData") = FindElement(sContents, "SISData")
    <2>1. p \in 1 .. Len(sContents) /\ sContents[p].id = "SISCompressed"
      BY <1>2, <1>5, FirstPositionIs DEF Positions
    <2> QED BY <1>3, <1>5, <1>6, <2>1, FindAfterReplaceOther
  <1>9. /\ HasElement(sContents', "SISCompressed")
        /\ FindElement(sContents', "SISCompressed") = f
    BY <1>4, <1>7, ChecksumsKeep
  <1>10. /\ HasElement(sContents', "SISData")
         /\ FindElement(sContents', "SISData") = FindElement(s, "SISData")
    BY <1>4, <1>7, <1>8, ChecksumsKeep
  <1> QED
    BY <1>6, <1>8, <1>9, <1>10

(* Data are never lost. *)
LEMMA StoredNext == StoredInv /\ [SignNext]_signAllVars => StoredInv'
  <1> SUFFICES ASSUME StoredInv, [SignNext]_signAllVars PROVE StoredInv'
    OBVIOUS
  <1>a. SignInv /\ DataPresent
    BY DEF StoredInv
  <1> SUFFICES DataPresent'
    BY <1>a, SignInvNext DEF StoredInv
  <1>b. disk = [g \in File |-> disk[g]]
    BY <1>a DEF SignInv, SignTypeOK
  <1> USE DEF DataPresent
  <1>1. CASE \E in, out \in File, mode \in Modes : SignLoad(in, out, mode)
    <2>1. PICK in \in File : /\ IsSis(disk[in]) /\ disk' = disk
                             /\ sContents' = disk[in].contents
      BY <1>1 DEF SignLoad
    <2> QED BY <1>a, <2>1
  <1>2. CASE SignRebuild
    <2>1. spc = "rebuild" /\ disk' = disk
      BY <1>2 DEF SignRebuild, diskVars
    <2>2. HasElement(sContents', "SISData")
      BY <1>2, <1>a, <2>1, RebuiltContents
    <2> QED BY <1>a, <2>1, <2>2
  <1>3. CASE SignOpenOutput
    <2>1. /\ spc = "open" /\ sContents' = sContents
          /\ disk' = [disk EXCEPT ![sArgs.output] = PartialFile]
      BY <1>3 DEF SignOpenOutput, Truncate
    <2>2. ~ IsSis(PartialFile)
      BY DEF PartialFile, IsSis
    <2>3. \A g \in File : disk'[g] = disk[g] \/ disk'[g] = PartialFile
      BY <1>b, <2>1
    <2> QED BY <1>a, <2>1, <2>2, <2>3
  <1>4. CASE SignWrite
    <2>1. PICK v : v = SisFile(sUid, sContents)
      OBVIOUS
    <2>2. /\ spc = "write" /\ spc' = "idle"
          /\ disk' = [disk EXCEPT ![sArgs.output] = v]
      BY <1>4, <2>1 DEF SignWrite, WriteSis
    <2>3. v.contents = sContents
      BY <2>1 DEF SisFile
    <2>4. \A g \in File : disk'[g] = disk[g] \/ disk'[g] = v
      BY <1>b, <2>2
    <2> QED BY <1>a, <2>2, <2>3, <2>4
  <1>5. CASE SignRemove \/ SignDisplay \/ \E k \in Key : SignAdd(k)
    <2>1. spc # "idle" /\ disk' = disk /\ sContents' = sContents
      BY <1>5 DEF SignRemove, SignDisplay, SignAdd, diskVars
    <2> QED BY <1>a, <2>1
  <1>6. CASE SignDisplayDone \/ SignAddFails
    <2>1. spc' = "idle" /\ disk' = disk
      BY <1>6 DEF SignDisplayDone, SignAddFails, diskVars
    <2> QED BY <1>a, <2>1
  <1>7. CASE UNCHANGED signAllVars \/ \E in \in File : SignLoadFails(in)
    <2>1. UNCHANGED <<spc, disk, sContents>>
      BY <1>7 DEF SignLoadFails, signAllVars, diskVars, signVars
    <2> QED BY <1>a, <2>1
  <1> QED
    BY <1>1, <1>2, <1>3, <1>4, <1>5, <1>6, <1>7 DEF SignNext, SignStep

LEMMA HeldNext == HeldInv /\ [SignNext]_signAllVars => HeldInv'
  <1> SUFFICES ASSUME HeldInv, [SignNext]_signAllVars PROVE HeldInv'
    OBVIOUS
  <1>a. StoredInv /\ SignInv /\ LoadedIsInput /\ ReadyIsResult /\ DataPresent
    BY DEF HeldInv, StoredInv
  <1> SUFFICES LoadedIsInput' /\ ReadyIsResult'
    BY <1>a, StoredNext DEF HeldInv
  <1> USE DEF LoadedIsInput, ReadyIsResult
  <1>1. ASSUME NEW in \in File, NEW out \in File, NEW mode \in Modes,
               SignLoad(in, out, mode)
        PROVE  LoadedIsInput' /\ ReadyIsResult'
    <2>1. PICK f : f = FindElement(disk[in].contents, "SISCompressed")
      OBVIOUS
    <2>2. PICK o : o = LoadChild(Uncompress(Load(f)))
      OBVIOUS
    <2>3. /\ IsSis(disk[in])
          /\ sController' = o
          /\ sUid' = disk[in].uid
          /\ sContents' = disk[in].contents
          /\ sArgs'.input = in
          /\ spc' = mode /\ disk' = disk
      BY <1>1, <2>1, <2>2 DEF SignLoad
    <2>4. Readable(f)
      BY <1>a, <2>1, <2>3 DEF SignInv, FilesSound, FileSound
    <2>5. o.iField = Plain(f)
      BY <2>2, <2>4, LoadedIs
    <2> QED BY <2>1, <2>3, <2>5 DEF Modes
  <1>2. CASE SignRebuild
    <2>1. spc = "rebuild" /\ spc' = "open"
      BY <1>2 DEF SignRebuild
    <2>2. HasElement(sContents, "SISData")
      BY <1>a, <2>1 DEF DataPresent
    <2> QED BY <1>2, <1>a, <2>1, <2>2, RebuiltContents
  <1>3. CASE SignOpenOutput
    <2>1. /\ spc = "open" /\ spc' = "write" /\ sContents' = sContents
          /\ sController' = sController
      BY <1>3 DEF SignOpenOutput
    <2> QED BY <1>a, <2>1
  <1>4. CASE SignWrite \/ SignDisplayDone \/ SignAddFails
    <2>1. spc' = "idle"
      BY <1>4 DEF SignWrite, SignDisplayDone, SignAddFails
    <2> QED BY <2>1
  <1>5. CASE SignRemove \/ SignDisplay \/ \E k \in Key : SignAdd(k)
    <2>1. spc' \in {"rebuild", "display"}
      BY <1>5 DEF SignRemove, SignDisplay, SignAdd
    <2> QED BY <2>1
  <1>6. CASE UNCHANGED signAllVars \/ \E in \in File : SignLoadFails(in)
    <2>1. UNCHANGED <<spc, disk, sArgs, sUid, sContents, sController>>
      BY <1>6 DEF SignLoadFails, signAllVars, diskVars, signVars
    <2> QED BY <1>a, <2>1
  <1> QED
    BY <1>1, <1>2, <1>3, <1>4, <1>5, <1>6 DEF SignNext, SignStep

-----------------------------------------------------------------------------
(***************************************************************************)
(* Each step of signsis is a step of PackageStore, or changes nothing in   *)
(* it.                                                                     *)
(***************************************************************************)

(* Before its controller is edited, and outside of a change, nothing has   *)
(* been decided.                                                           *)
LEMMA JobIs ==
  /\ spc \notin {"rebuild", "open", "write"} => JobNow = P!NoJob
  /\ spc \in {"rebuild", "open", "write"} =>
       JobNow = [state  |-> IF spc = "write" THEN "torn" ELSE "decided",
                 to     |-> sArgs.output,
                 result |-> PackageOf(sUid, sController.iField,
                                      FindElement(sContents, "SISData").units)]
  BY DEF JobNow, P!NoJob

(* What was read is the package that is in the input. *)
LEMMA InputIs ==
  ASSUME HeldInv, spc \in {"sign", "remove"}
  PROVE  /\ sArgs.input \in File /\ sArgs.output \in File
         /\ ControllerSound(sController.iField) /\ IsObject(sController)
         /\ P!IsPackage(StoreNow[sArgs.input])
         /\ StoreNow[sArgs.input] =
              PackageOf(sUid, sController.iField,
                        FindElement(sContents, "SISData").units)
  <1>1. sArgs.input \in File /\ sArgs.output \in File
    BY DEF HeldInv, StoredInv, SignInv, SignTypeOK
  <1>2. ControllerSound(sController.iField) /\ IsObject(sController)
    BY DEF HeldInv, StoredInv, SignInv, EditSound, SignTypeOK
  <1>3. PICK f : f = disk[sArgs.input]
    OBVIOUS
  <1>4. /\ IsSis(f) /\ f.uid = sUid /\ f.contents = sContents
        /\ sController.iField = Plain(FindElement(sContents, "SISCompressed"))
    BY <1>3 DEF HeldInv, LoadedIsInput
  <1>5. StoreNow[sArgs.input] = Meaning(f)
    BY <1>1, <1>3 DEF StoreNow
  <1>6. /\ ControllerOf(f) = sController.iField
        /\ UnitsOf(f) = FindElement(sContents, "SISData").units
    BY <1>4 DEF ControllerOf, UnitsOf
  <1> QED
    BY <1>1, <1>2, <1>4, <1>5, <1>6, MeaningIs

LEMMA AddDecides ==
  ASSUME HeldInv, NEW k \in Key, SignAdd(k)
  PROVE  P!DecideSign(sArgs.input, sArgs.output, k)
  <1>1. PICK c : c = sController.iField
    OBVIOUS
  <1>2. PICK u : u = FindElement(sContents, "SISData").units
    OBVIOUS
  <1>3. /\ spc = "sign" /\ spc' = "rebuild" /\ disk' = disk
        /\ sArgs' = sArgs /\ sUid' = sUid /\ sContents' = sContents
        /\ sController' = [sController EXCEPT !.iField = Signed(@, k)]
    BY DEF SignAdd, diskVars
  <1>4. /\ ControllerSound(c) /\ IsObject(sController)
        /\ P!IsPackage(StoreNow[sArgs.input])
        /\ StoreNow[sArgs.input] = PackageOf(sUid, c, u)
    BY <1>1, <1>2, <1>3, InputIs
  <1>5. sController'.iField = Signed(c, k)
    BY <1>1, <1>3, <1>4 DEF IsObject, Members
  <1>6. JobNow = P!NoJob
    BY <1>3, JobIs
  <1>7. JobNow' = [state |-> "decided", to |-> sArgs.output,
                   result |-> PackageOf(sUid, Signed(c, k), u)]
    BY <1>2, <1>3, <1>5 DEF JobNow
  <1>8. StoreNow' = StoreNow
    BY <1>3 DEF StoreNow
  <1>9. PackageOf(sUid, Signed(c, k), u) = P!WithSigner(StoreNow[sArgs.input], k)
    BY <1>4, PackageSigned
  <1> QED
    BY <1>4, <1>6, <1>7, <1>8, <1>9 DEF P!DecideSign, P!Decide

LEMMA RemoveDecides ==
  ASSUME HeldInv, SignRemove
  PROVE  P!DecideUnsign(sArgs.input, sArgs.output)
  <1>1. PICK c : c = sController.iField
    OBVIOUS
  <1>2. PICK u : u = FindElement(sContents, "SISData").units
    OBVIOUS
  <1>3. /\ spc = "remove" /\ spc' = "rebuild" /\ disk' = disk
        /\ sArgs' = sArgs /\ sUid' = sUid /\ sContents' = sContents
        /\ sController' =
             [sController EXCEPT !.iField = FindRemoveLastElement(@, SigChain)]
    BY DEF SignRemove, diskVars
  <1>4. /\ ControllerSound(c) /\ IsObject(sController)
        /\ P!IsPackage(StoreNow[sArgs.input])
        /\ StoreNow[sArgs.input] = PackageOf(sUid, c, u)
    BY <1>1, <1>2, <1>3, InputIs
  <1>5. sController'.iField = FindRemoveLastElement(c, SigChain)
    BY <1>1, <1>3, <1>4 DEF IsObject, Members
  <1>6. JobNow = P!NoJob
    BY <1>3, JobIs
  <1>7. JobNow' = [state |-> "decided", to |-> sArgs.output,
                   result |-> PackageOf(sUid, FindRemoveLastElement(c, SigChain), u)]
    BY <1>2, <1>3, <1>5 DEF JobNow
  <1>8. StoreNow' = StoreNow
    BY <1>3 DEF StoreNow
  <1>9. PackageOf(sUid, FindRemoveLastElement(c, SigChain), u)
          = P!WithoutLast(StoreNow[sArgs.input])
    BY <1>4, PackageUnsigned
  <1> QED
    BY <1>4, <1>6, <1>7, <1>8, <1>9 DEF P!DecideUnsign, P!Decide

(* Compressing the controller again and refreshing checksums leave what    *)
(* was decided as it is.                                                   *)
LEMMA RebuildStutters ==
  ASSUME HeldInv, SignRebuild
  PROVE  UNCHANGED P!storeVars
  <1>1. /\ spc = "rebuild" /\ spc' = "open" /\ disk' = disk
        /\ sArgs' = sArgs /\ sUid' = sUid
    BY DEF SignRebuild, diskVars
  <1>2. /\ sController'.iField = sController.iField
        /\ FindElement(sContents', "SISData") = FindElement(sContents, "SISData")
    BY <1>1, RebuiltContents DEF HeldInv, StoredInv, DataPresent
  <1>3. JobNow' = JobNow
    BY <1>1, <1>2 DEF JobNow
  <1>4. StoreNow' = StoreNow
    BY <1>1 DEF StoreNow
  <1> QED
    BY <1>3, <1>4 DEF P!storeVars

LEMMA OpenTears ==
  ASSUME HeldInv, SignOpenOutput
  PROVE  P!Tear
  <1>1. PICK r : r = PackageOf(sUid, sController.iField,
                               FindElement(sContents, "SISData").units)
    OBVIOUS
  <1>2. PICK out : out = sArgs.output
    OBVIOUS
  <1>3. /\ spc = "open" /\ spc' = "write" /\ sArgs' = sArgs /\ sUid' = sUid
        /\ sContents' = sContents /\ sController' = sController
        /\ disk' = [disk EXCEPT ![out] = PartialFile]
    BY <1>2 DEF SignOpenOutput, Truncate
  <1>4. out \in File /\ disk = [g \in File |-> disk[g]]
    BY <1>2, <1>3 DEF HeldInv, StoredInv, SignInv, SignTypeOK
  <1>5. JobNow = [state |-> "decided", to |-> out, result |-> r]
    BY <1>1, <1>2, <1>3 DEF JobNow
  <1>6. JobNow' = [state |-> "torn", to |-> out, result |-> r]
    BY <1>1, <1>2, <1>3 DEF JobNow
  <1>7. StoreNow' = [StoreNow EXCEPT ![out] = P!Torn]
    <2>1. \A g \in File : disk'[g] = IF g = out THEN PartialFile ELSE disk[g]
      BY <1>3, <1>4
    <2>2. Meaning(PartialFile) = P!Torn
      BY MeaningIs
    <2>3. \A g \in File : Meaning(disk'[g]) = IF g = out THEN P!Torn ELSE Meaning(disk[g])
      BY <2>1, <2>2
    <2> QED BY <2>3 DEF StoreNow
  <1> QED
    BY <1>5, <1>6, <1>7 DEF P!Tear

LEMMA WriteCompletes ==
  ASSUME HeldInv, SignWrite
  PROVE  P!Complete
  <1>1. PICK r : r = PackageOf(sUid, sController.iField,
                               FindElement(sContents, "SISData").units)
    OBVIOUS
  <1>2. PICK out : out = sArgs.output
    OBVIOUS
  <1>3. PICK v : v = SisFile(sUid, sContents)
    OBVIOUS
  <1>4. /\ spc = "write" /\ spc' = "idle"
        /\ disk' = [disk EXCEPT ![out] = v]
    BY <1>2, <1>3 DEF SignWrite, WriteSis
  <1>5. out \in File /\ disk = [g \in File |-> disk[g]]
    BY <1>2, <1>4 DEF HeldInv, StoredInv, SignInv, SignTypeOK
  <1>6. JobNow = [state |-> "torn", to |-> out, result |-> r]
    BY <1>1, <1>2, <1>4 DEF JobNow
  <1>7. JobNow' = P!NoJob
    BY <1>4 DEF JobNow, P!NoJob
  <1>8. Meaning(v) = r
    <2>1. IsSis(v) /\ v.uid = sUid /\ v.contents = sContents
      BY <1>3 DEF SisFile, IsSis
    <2>2. /\ ControllerOf(v) = sController.iField
          /\ UnitsOf(v) = FindElement(sContents, "SISData").units
      BY <1>4, <2>1 DEF ControllerOf, UnitsOf, HeldInv, ReadyIsResult
    <2> QED BY <1>1, <2>1, <2>2, MeaningIs
  <1>9. StoreNow' = [StoreNow EXCEPT ![out] = r]
    <2>1. \A g \in File : disk'[g] = IF g = out THEN v ELSE disk[g]
      BY <1>4, <1>5
    <2>2. \A g \in File : Meaning(disk'[g]) = IF g = out THEN r ELSE Meaning(disk[g])
      BY <1>8, <2>1
    <2> QED BY <2>2 DEF StoreNow
  <1> QED
    BY <1>6, <1>7, <1>9 DEF P!Complete

LEMMA StepImplementsStore ==
  HeldInv /\ [SignNext]_signAllVars => [P!StoreNext]_(P!storeVars)
  <1> SUFFICES ASSUME HeldInv, [SignNext]_signAllVars
               PROVE  P!StoreNext \/ UNCHANGED P!storeVars
    OBVIOUS
  <1>1. CASE \E in, out \in File, mode \in Modes : SignLoad(in, out, mode)
    <2>1. /\ spc = "idle" /\ spc' \in Modes /\ disk' = disk
      BY <1>1 DEF SignLoad
    <2>2. JobNow' = JobNow /\ StoreNow' = StoreNow
      BY <2>1 DEF JobNow, StoreNow, Modes
    <2> QED BY <2>2 DEF P!storeVars
  <1>2. CASE SignDisplay \/ SignDisplayDone \/ SignAddFails
    <2>1. /\ spc \in Modes /\ spc' \in Modes \cup {"idle"} /\ disk' = disk
      BY <1>2 DEF SignDisplay, SignDisplayDone, SignAddFails, diskVars, Modes
    <2>2. JobNow' = JobNow /\ StoreNow' = StoreNow
      BY <2>1 DEF JobNow, StoreNow, Modes
    <2> QED BY <2>2 DEF P!storeVars
  <1>3. CASE UNCHANGED signAllVars \/ \E in \in File : SignLoadFails(in)
    <2>1. UNCHANGED <<spc, disk, sArgs, sUid, sContents, sController>>
      BY <1>3 DEF SignLoadFails, signAllVars, diskVars, signVars
    <2>2. JobNow' = JobNow /\ StoreNow' = StoreNow
      BY <2>1 DEF JobNow, StoreNow
    <2> QED BY <2>2 DEF P!storeVars
  <1>4. ASSUME NEW k \in Key, SignAdd(k)
        PROVE  P!StoreNext
    <2>1. P!DecideSign(sArgs.input, sArgs.output, k)
      BY <1>4, AddDecides
    <2>2. sArgs.input \in File /\ sArgs.output \in File
      BY <1>4, InputIs DEF SignAdd
    <2> QED BY <2>1, <2>2 DEF P!StoreNext
  <1>5. CASE SignRemove
    <2>1. P!DecideUnsign(sArgs.input, sArgs.output)
      BY <1>5, RemoveDecides
    <2>2. sArgs.input \in File /\ sArgs.output \in File
      BY <1>5, InputIs DEF SignRemove
    <2> QED BY <2>1, <2>2 DEF P!StoreNext
  <1>6. CASE SignRebuild
    BY <1>6, RebuildStutters
  <1>7. CASE SignOpenOutput
    BY <1>7, OpenTears DEF P!StoreNext
  <1>8. CASE SignWrite
    BY <1>8, WriteCompletes DEF P!StoreNext
  <1> QED
    BY <1>1, <1>2, <1>3, <1>4, <1>5, <1>6, <1>7, <1>8 DEF SignNext, SignStep

(* signsis implements the safety part of PackageStore: whatever it is      *)
(* asked to do, a package on disk changes as a whole, from one version of  *)
(* the input, by one signer more or the last one less, with the body as it *)
(* was; and what was torn for that is completed before anything else.      *)
THEOREM SigningKeepsPromise == SignSpec => P!StoreSafety
  <1>1. DiskInit /\ SignInit => P!StoreInit
    <2> SUFFICES ASSUME DiskInit, SignInit PROVE P!StoreInit
      OBVIOUS
    <2>1. ASSUME NEW f \in File
          PROVE  StoreNow[f] = P!Missing \/ P!IsPackage(StoreNow[f])
      <3>1. disk[f] \in Foreign \cup {NoFile}
        BY DEF DiskInit
      <3>2. IsSis(disk[f]) \/ disk[f] = NoFile
        BY <3>1, ForeignAssumption
      <3>3. StoreNow[f] = Meaning(disk[f])
        BY DEF StoreNow
      <3> QED BY <3>2, <3>3, MeaningIs
    <2>2. JobNow = P!NoJob
      BY JobIs DEF SignInit
    <2> QED BY <2>1, <2>2 DEF P!StoreInit
  <1> QED
    BY <1>1, HeldInit, HeldNext, StepImplementsStore, PTL
       DEF SignSpec, SignAloneInit, signAllVars, P!StoreSafety

-----------------------------------------------------------------------------
(***************************************************************************)
(* Checksums and compressed fields.  signsis fills in a data checksum that *)
(* is missing with a table of zeros, so this is about files that came with *)
(* one; the controller checksum may be missing or there.                   *)
(***************************************************************************)
HasDataChecksum(f) == HasElement(f.contents, "SISDataChecksum")

ForeignConsistent == \A f \in Foreign : FileConsistent(f) /\ HasDataChecksum(f)

(* Every unit can be inflated, and the checksum of the data is right. *)
DataConsistent(f) ==
  /\ \A u \in 1 .. Len(UnitsOf(f)) :
       \A k \in 1 .. Len(UnitsOf(f)[u]) : Readable(UnitsOf(f)[u][k])
  /\ DataChecksumRight(f)
  /\ HasDataChecksum(f)

Held == SisFile(sUid, sContents)

ConsistentInv ==
  /\ StoredInv
  /\ \A f \in File : IsSis(disk[f]) => FileConsistent(disk[f]) /\ HasDataChecksum(disk[f])
  /\ spc # "idle" => DataConsistent(Held)
  /\ spc \in {"open", "write"} => FileConsistent(Held)

(* Only the contents count. *)
LEMMA SameContents ==
  ASSUME NEW f, NEW g, f.contents = g.contents
  PROVE  /\ FileConsistent(f) => FileConsistent(g)
         /\ DataConsistent(f) => DataConsistent(g)
         /\ HasDataChecksum(f) => HasDataChecksum(g)
  BY DEF FileConsistent, DataConsistent, HasDataChecksum, UnitsOf,
         ControllerChecksumRight, DataChecksumRight

(* What signsis rebuilds has its checksums right. *)
LEMMA RebuiltConsistent ==
  ASSUME ConsistentInv, SignRebuild
  PROVE  DataConsistent(Held') /\ FileConsistent(Held')
  <1>1. PICK f : f = CopyFieldData(sController')
    OBVIOUS
  <1>2. PICK p : p = FirstPosition(sContents, "SISCompressed")
    OBVIOUS
  <1>3. spc = "rebuild" /\ StoredInv /\ DataConsistent(Held)
    BY DEF SignRebuild, ConsistentInv
  <1>4. /\ IsObject(sController)
        /\ sAlgorithm \in {ECompressNone, ECompressDeflate}
        /\ IsList(sContents) /\ HasElement(sContents, "SISCompressed")
        /\ HasElement(sContents, "SISData")
    BY <1>3 DEF StoredInv, SignInv, SignTypeOK, ContentsHaveController, DataPresent
  <1>5. HasElement(sContents, "SISDataChecksum")
    BY <1>3 DEF DataConsistent, HasDataChecksum, Held, SisFile
  <1>6. f.id = "SISCompressed" /\ Readable(f)
    <2>1. sController' = Compress(LoadUncompressed(sController), sAlgorithm)
      BY DEF SignRebuild, Recompressed
    <2> QED BY <1>1, <1>4, <2>1, RebuiltIs
  <1>7. p \in 1 .. Len(sContents) /\ sContents[p].id = "SISCompressed"
    BY <1>2, <1>4, FirstPositionIs DEF Positions
  <1> DEFINE s == [sContents EXCEPT ![p] = f]
             t == WithControllerChecksum(s, f)
  <1>8. /\ IsList(s) /\ HasElement(s, "SISCompressed")
        /\ FindElement(s, "SISCompressed") = f
    BY <1>2, <1>4, <1>6, FindAfterReplace
  <1>9. ASSUME NEW type \in {"SISData", "SISDataChecksum"}
        PROVE  HasElement(s, type) /\ FindElement(s, type) = FindElement(sContents, type)
    <2>1. HasElement(sContents, type) /\ type # "SISCompressed"
      BY <1>4, <1>5
    <2> QED BY <1>4, <1>6, <1>7, <2>1, FindAfterReplaceOther
  <1>10. sContents' = WithDataChecksum(t)
    BY <1>1, <1>2 DEF SignRebuild
  <1> HIDE DEF s
  <1>11. /\ HasElement(t, "SISCompressed") /\ FindElement(t, "SISCompressed") = f
         /\ FindElement(t, "SISControllerChecksum").iValue = crcSlow(f)
    BY <1>8, ControllerChecksumIs
  <1>12. ASSUME NEW type \in {"SISData", "SISDataChecksum"}
         PROVE  HasElement(t, type) /\ FindElement(t, type) = FindElement(sContents, type)
    <2>1. HasElement(s, type) /\ type # "SISControllerChecksum"
      BY <1>9
    <2> QED BY <1>8, <1>9, <2>1, ControllerChecksumIs
  <1> HIDE DEF t
  <1>13. sContents' = t
    BY <1>10, <1>12 DEF WithDataChecksum
  <1>14. Held'.contents = t /\ Held.contents = sContents
    BY <1>13 DEF Held, SisFile
  <1>15. DataConsistent(Held')
    <2>1. FindElement(t, "SISData") = FindElement(sContents, "SISData")
      BY <1>12
    <2>2. /\ FindElement(t, "SISDataChecksum") = FindElement(sContents, "SISDataChecksum")
          /\ HasElement(t, "SISDataChecksum")
      BY <1>12
    <2>3. PICK h : h = Held'
      OBVIOUS
    <2>4. UnitsOf(h) = UnitsOf(Held)
      BY <1>14, <2>1, <2>3 DEF UnitsOf
    <2>5. DataChecksumRight(h) /\ HasDataChecksum(h)
      BY <1>3, <1>5, <1>14, <2>1, <2>2, <2>3
         DEF DataConsistent, DataChecksumRight, HasDataChecksum
    <2> QED BY <1>3, <2>3, <2>4, <2>5 DEF DataConsistent
  <1>16. FileConsistent(Held')
    <2>1. PICK h : h = Held'
      OBVIOUS
    <2>2. Readable(FindElement(h.contents, "SISCompressed")) /\ ControllerChecksumRight(h)
      BY <1>6, <1>11, <1>14, <2>1 DEF ControllerChecksumRight
    <2> QED BY <1>15, <2>1, <2>2 DEF DataConsistent, FileConsistent
  <1> QED
    BY <1>15, <1>16

LEMMA ConsistentNext == ConsistentInv /\ [SignNext]_signAllVars => ConsistentInv'
  <1> SUFFICES ASSUME ConsistentInv, [SignNext]_signAllVars PROVE ConsistentInv'
    OBVIOUS
  <1>a. StoredInv'
    BY StoredNext DEF ConsistentInv
  <1>b. disk = [g \in File |-> disk[g]]
    BY DEF ConsistentInv, StoredInv, SignInv, SignTypeOK
  <1>c. Held.contents = sContents /\ Held'.contents = sContents'
    BY DEF Held, SisFile
  <1>1. CASE \E in, out \in File, mode \in Modes : SignLoad(in, out, mode)
    <2>1. PICK in \in File : /\ IsSis(disk[in]) /\ sContents' = disk[in].contents
                             /\ spc' \in Modes /\ disk' = disk
      BY <1>1 DEF SignLoad
    <2>2. FileConsistent(disk[in]) /\ HasDataChecksum(disk[in])
      BY <2>1 DEF ConsistentInv
    <2>3. DataConsistent(disk[in])
      BY <2>2 DEF FileConsistent, DataConsistent
    <2>4. DataConsistent(Held')
      BY <1>c, <2>1, <2>3, SameContents
    <2> QED BY <1>a, <2>1, <2>4 DEF ConsistentInv, Modes
  <1>2. CASE SignRebuild
    <2>1. disk' = disk
      BY <1>2 DEF SignRebuild, diskVars
    <2> QED BY <1>2, <1>a, <2>1, RebuiltConsistent DEF ConsistentInv
  <1>3. CASE SignOpenOutput
    <2>1. /\ spc = "open" /\ spc' = "write" /\ sContents' = sContents
          /\ disk' = [disk EXCEPT ![sArgs.output] = PartialFile]
      BY <1>3 DEF SignOpenOutput, Truncate
    <2>2. ~ IsSis(PartialFile)
      BY DEF PartialFile, IsSis
    <2>3. \A g \in File : disk'[g] = disk[g] \/ disk'[g] = PartialFile
      BY <1>b, <2>1
    <2>4. \A g \in File : IsSis(disk'[g]) => FileConsistent(disk'[g]) /\ HasDataChecksum(disk'[g])
      BY <2>2, <2>3 DEF ConsistentInv
    <2>5. DataConsistent(Held') /\ FileConsistent(Held')
      BY <1>c, <2>1, SameContents DEF ConsistentInv
    <2> QED BY <1>a, <2>4, <2>5 DEF ConsistentInv
  <1>4. CASE SignWrite
    <2>1. spc = "write" /\ spc' = "idle" /\ disk' = [disk EXCEPT ![sArgs.output] = Held]
      BY <1>4 DEF SignWrite, WriteSis, Held
    <2>2. FileConsistent(Held) /\ HasDataChecksum(Held)
      BY <2>1 DEF ConsistentInv, DataConsistent
    <2>3. \A g \in File : disk'[g] = disk[g] \/ disk'[g] = Held
      BY <1>b, <2>1
    <2>4. \A g \in File : IsSis(disk'[g]) => FileConsistent(disk'[g]) /\ HasDataChecksum(disk'[g])
      BY <2>2, <2>3 DEF ConsistentInv
    <2> QED BY <1>a, <2>1, <2>4 DEF ConsistentInv
  <1>5. CASE SignRemove \/ SignDisplay \/ \E k \in Key : SignAdd(k)
    <2>1. /\ spc # "idle" /\ spc' \notin {"open", "write"} /\ disk' = disk
          /\ sContents' = sContents
      BY <1>5 DEF SignRemove, SignDisplay, SignAdd, diskVars
    <2>2. DataConsistent(Held')
      BY <1>c, <2>1, SameContents DEF ConsistentInv
    <2> QED BY <1>a, <2>1, <2>2 DEF ConsistentInv
  <1>6. CASE SignDisplayDone \/ SignAddFails
    <2>1. spc' = "idle" /\ disk' = disk
      BY <1>6 DEF SignDisplayDone, SignAddFails, diskVars
    <2> QED BY <1>a, <2>1 DEF ConsistentInv
  <1>7. CASE UNCHANGED signAllVars \/ \E in \in File : SignLoadFails(in)
    <2>1. spc' = spc /\ disk' = disk /\ sContents' = sContents
      BY <1>7 DEF SignLoadFails, signAllVars, diskVars, signVars
    <2>2. /\ DataConsistent(Held) => DataConsistent(Held')
          /\ FileConsistent(Held) => FileConsistent(Held')
      BY <1>c, <2>1, SameContents
    <2> QED BY <1>a, <2>1, <2>2 DEF ConsistentInv
  <1> QED
    BY <1>1, <1>2, <1>3, <1>4, <1>5, <1>6, <1>7 DEF SignNext, SignStep

(* In a directory of consistent packages that have a data checksum, what   *)
(* signsis writes stays consistent however often it is edited: the size    *)
(* and algorithm of the controller are those of its bytes, and both        *)
(* checksums are of what is in the file (signsis.cpp updateChecksum).      *)
THEOREM SigningStaysConsistent ==
  ForeignConsistent /\ SignSpec => []FilesConsistent
  <1>1. ForeignConsistent /\ DiskInit /\ SignInit => ConsistentInv
    <2> SUFFICES ASSUME ForeignConsistent, DiskInit, SignInit PROVE ConsistentInv
      OBVIOUS
    <2>1. \A f \in File : disk[f] \in Foreign \cup {NoFile}
      BY DEF DiskInit
    <2>2. ~ IsSis(NoFile) /\ spc = "idle"
      BY DEF NoFile, IsSis, SignInit
    <2> QED BY <2>1, <2>2, HeldInit DEF ConsistentInv, ForeignConsistent, HeldInv
  <1>2. ConsistentInv => FilesConsistent
    BY DEF ConsistentInv, FilesConsistent, SisFiles
  <1> QED
    BY <1>1, <1>2, ConsistentNext, PTL DEF SignSpec, SignAloneInit, signAllVars

-----------------------------------------------------------------------------
(***************************************************************************)
(* Compressed fields that makesis makes.                                   *)
(***************************************************************************)

(* A new SISCompressed is stored so that it can be read back, and its      *)
(* CompressedSize is the size of what is stored.                           *)
LEMMA NewCompressedIs ==
  ASSUME NEW field, NEW alg \in {ECompressAuto, ECompressNone},
         NEW r, r = NewCompressed(field, alg), NEW f, f = CopyFieldData(r)
  PROVE  /\ f.id = "SISCompressed"
         /\ Readable(f)
         /\ Plain(f) = field
         /\ CompressedSize(r) = SizeOf(f.buffer)
  <1> DEFINE o   == [iAlgorithm          |-> ECompressAuto,
                     iField              |-> field,
                     iUncompressedBuffer |-> NULL,
                     iCompressedBuffer   |-> NULL,
                     iUncompressedSize   |-> NULL,
                     iCompressedSize     |-> NULL]
             u   == LoadUncompressed(o)
             raw == Serialised(field)
  <1> USE DEF ECompressNone, ECompressDeflate, ECompressAuto
  <1>1. /\ IsObject(u)
        /\ u.iUncompressedBuffer = raw
        /\ u.iUncompressedSize = SizeOf(raw)
        /\ u.iCompressedBuffer = NULL
    BY DEF LoadUncompressed, IsObject, Members
  <1>2. raw # NULL /\ Deflated(raw) # NULL
    BY DEF Serialised, Deflated, NULL
  <1>3. /\ raw.encoding = "raw" /\ LoadOneField(raw) = field
        /\ Deflated(raw).encoding = "zlib" /\ Inflated(Deflated(raw)) = raw
    BY DEF Serialised, Deflated, Inflated, LoadOneField
  <1>4. r = Compress(u, alg)
    BY DEF NewCompressed
  <1> HIDE DEF u, raw, o
  <1>5. CASE alg = ECompressNone
    <2>1. r = [u EXCEPT !.iCompressedBuffer = NULL, !.iAlgorithm = ECompressNone]
      BY <1>1, <1>2, <1>4, <1>5 DEF Compress
    <2>2. /\ r.iCompressedBuffer = NULL
          /\ r.iAlgorithm = ECompressNone
          /\ r.iUncompressedBuffer = raw
          /\ r.iUncompressedSize = SizeOf(raw)
      BY <1>1, <2>1 DEF IsObject, Members
    <2>3. /\ f.id = "SISCompressed" /\ f.alg = ECompressNone
          /\ f.buffer = raw /\ f.size = SizeOf(raw)
      BY <2>2 DEF CopyFieldData
    <2>4. CompressedSize(r) = SizeOf(f.buffer)
      BY <2>2, <2>3 DEF CompressedSize
    <2> QED
      BY <1>3, <2>3, <2>4 DEF Readable, Plain
  <1>6. CASE alg = ECompressAuto
    <2>1. r = CompressSmaller(u, alg)
      BY <1>1, <1>2, <1>4, <1>6 DEF Compress
    <2>2. CASE Shrinks(raw)
      <3>1. /\ r.iCompressedBuffer = Deflated(raw)
            /\ r.iAlgorithm = ECompressDeflate
            /\ r.iUncompressedSize = SizeOf(raw)
            /\ r.iCompressedSize = SizeOf(Deflated(raw))
        BY <1>1, <2>1, <2>2 DEF IsObject, Members, CompressSmaller
      <3>2. /\ f.id = "SISCompressed" /\ f.alg = ECompressDeflate
            /\ f.buffer = Deflated(raw) /\ f.size = SizeOf(raw)
        BY <1>2, <3>1 DEF CopyFieldData
      <3>3. CompressedSize(r) = SizeOf(f.buffer)
        BY <1>2, <3>1, <3>2 DEF CompressedSize
      <3> QED
        BY <1>3, <3>2, <3>3 DEF Readable, Plain
    <2>3. CASE ~ Shrinks(raw)
      <3>1. /\ r.iCompressedBuffer = NULL
            /\ r.iAlgorithm = ECompressNone
            /\ r.iUncompressedBuffer = raw
            /\ r.iUncompressedSize = SizeOf(raw)
        BY <1>1, <1>6, <2>1, <2>3 DEF IsObject, Members, CompressSmaller
      <3>2. /\ f.id = "SISCompressed" /\ f.alg = ECompressNone
            /\ f.buffer = raw /\ f.size = SizeOf(raw)
        BY <3>1 DEF CopyFieldData
      <3>3. CompressedSize(r) = SizeOf(f.buffer)
        BY <3>1, <3>2 DEF CompressedSize
      <3> QED
        BY <1>3, <3>2, <3>3 DEF Readable, Plain
    <2> QED BY <2>2, <2>3
  <1> QED
    BY <1>5, <1>6

(* Inflating a field of an embedded package leaves what it holds.          *)
LEMMA RecompressIs ==
  ASSUME NEW pkg, NEW st, Readable(st), NEW f, f = Recompress(pkg, st)
  PROVE  Readable(f) /\ Plain(f) = Plain(st)
  <1> USE DEF ECompressNone, ECompressDeflate
  <1>1. CASE ~ pkg.noCompress
    BY <1>1 DEF Recompress
  <1>2. CASE pkg.noCompress
    <2> DEFINE o == Load(st)
               r == Compress(o, ECompressNone)
    <2>1. f = CopyFieldData(r)
      BY <1>2 DEF Recompress
    <2>2. /\ IsObject(o)
          /\ o.iUncompressedSize = st.size
          /\ st.alg = ECompressNone => /\ o.iUncompressedBuffer = st.buffer
                                       /\ o.iCompressedBuffer = NULL
          /\ st.alg = ECompressDeflate => /\ o.iCompressedBuffer = st.buffer
                                          /\ o.iUncompressedBuffer = NULL
      BY DEF Load, IsObject, Members
    <2>3. st.buffer # NULL /\ st.alg \in {ECompressNone, ECompressDeflate}
      BY DEF Readable, NULL
    <2> HIDE DEF o
    <2>4. CASE st.alg = ECompressNone
      <3>1. r = [o EXCEPT !.iCompressedBuffer = NULL, !.iAlgorithm = ECompressNone]
        BY <2>2, <2>3, <2>4 DEF Compress
      <3>2. /\ r.iCompressedBuffer = NULL
            /\ r.iAlgorithm = ECompressNone
            /\ r.iUncompressedBuffer = st.buffer
            /\ r.iUncompressedSize = st.size
        BY <2>2, <2>4, <3>1 DEF IsObject, Members
      <3>3. f.alg = ECompressNone /\ f.buffer = st.buffer /\ f.size = st.size
        BY <2>1, <3>2 DEF CopyFieldData
      <3> QED BY <2>4, <3>3 DEF Readable, Plain
    <2>5. CASE st.alg = ECompressDeflate
      <3>1. PICK raw : raw = Inflated(st.buffer)
        OBVIOUS
      <3>2. PICK u : u = Uncompress(o)
        OBVIOUS
      <3>3. /\ IsObject(u)
            /\ u.iUncompressedBuffer = raw
            /\ u.iUncompressedSize = SizeOf(raw)
        BY <2>2, <2>3, <2>5, <3>1, <3>2 DEF Uncompress, IsObject, Members
      <3>4. r = [u EXCEPT !.iCompressedBuffer = NULL, !.iAlgorithm = ECompressNone]
        BY <2>2, <2>3, <2>5, <3>2 DEF Compress
      <3>5. /\ r.iCompressedBuffer = NULL
            /\ r.iAlgorithm = ECompressNone
            /\ r.iUncompressedBuffer = raw
            /\ r.iUncompressedSize = SizeOf(raw)
        BY <3>3, <3>4 DEF IsObject, Members
      <3>6. f.alg = ECompressNone /\ f.buffer = raw /\ f.size = SizeOf(raw)
        BY <2>1, <3>5 DEF CopyFieldData
      <3>7. raw.encoding = "raw" /\ Plain(st) = LoadOneField(raw)
        BY <2>5, <3>1 DEF Readable, Plain
      <3> QED BY <3>6, <3>7 DEF Readable, Plain
    <2> QED BY <2>3, <2>4, <2>5
  <1> QED
    BY <1>1, <1>2

-----------------------------------------------------------------------------
LEMMA ReverseIs ==
  ASSUME NEW s, IsList(s)
  PROVE  /\ IsList(Reverse(s))
         /\ Len(Reverse(s)) = Len(s)
         /\ \A i \in 1 .. Len(s) : Reverse(s)[i] = s[(Len(s) - i) + 1]
  <1>1. Reverse(s) = [i \in 1 .. Len(s) |-> s[(Len(s) - i) + 1]]
    BY DEF Reverse
  <1>2. Len(s) \in Nat
    BY DEF IsList
  <1>3. PICK r : r = Reverse(s)
    OBVIOUS
  <1>4. r = [i \in 1 .. Len(s) |-> r[i]]
    BY <1>1, <1>3
  <1>5. IsList(r) /\ Len(r) = Len(s)
    BY <1>2, <1>4, FunctionIsList
  <1> QED BY <1>1, <1>3, <1>5

-----------------------------------------------------------------------------
(***************************************************************************)
(* What makesis writes.                                                    *)
(***************************************************************************)
(* No element of a list is a signature or a data index. *)
PlainList(b) ==
  IsList(b) /\ \A i \in 1 .. Len(b) : b[i].id \notin {SigChain, "SISDataIndex"}

(* A controller that is not signed yet, and then signed or not: with its   *)
(* data index behind it, it is sound.                                      *)
LEMMA IndexedSound ==
  ASSUME NEW b, PlainList(b), NEW k, NEW s, NEW c,
         s = b \/ s = AddElement(b, SISSignatureCertificateChain(k, b)),
         c = AddElement(s, SISDataIndex(0))
  PROVE  ControllerSound(c)
  <1>1. IsList(b) /\ Len(b) \in Nat /\ Len(b) \in 0 .. Len(b)
    BY DEF PlainList, IsList
  <1>2. /\ IsList(s) /\ Len(s) \in Nat
        /\ Len(s) \in {Len(b), Len(b) + 1}
        /\ \A i \in 1 .. Len(b) : s[i] = b[i]
        /\ Len(s) = Len(b) + 1 => /\ s[Len(b) + 1].id = SigChain
                                  /\ s[Len(b) + 1].over = b
    <2>1. CASE s = b
      BY <1>1, <2>1
    <2>2. CASE s = AddElement(b, SISSignatureCertificateChain(k, b))
      <3>1. PICK e : e = SISSignatureCertificateChain(k, b)
        OBVIOUS
      <3>2. e.id = SigChain /\ e.over = b
        BY <3>1 DEF SISSignatureCertificateChain, SigChain
      <3>3. s = AddElementAt(b, e, Len(b))
        BY <2>2, <3>1 DEF AddElement
      <3>4. /\ IsList(s) /\ Len(s) = Len(b) + 1 /\ s[Len(b) + 1] = e
            /\ \A i \in 1 .. Len(b) : s[i] = b[i]
        BY <1>1, <3>3, AddElementAtIs
      <3> QED BY <1>1, <3>2, <3>4
    <2> QED BY <2>1, <2>2
  <1>3. PICK x : x = SISDataIndex(0)
    OBVIOUS
  <1>4. x.id = "SISDataIndex" /\ SigChain # "SISDataIndex"
    BY <1>3 DEF SISDataIndex, SigChain
  <1>5. c = AddElementAt(s, x, Len(s)) /\ Len(s) \in 0 .. Len(s)
    BY <1>2, <1>3 DEF AddElement
  <1>6. /\ IsList(c) /\ Len(c) = Len(s) + 1 /\ c[Len(s) + 1] = x
        /\ \A i \in 1 .. Len(s) : c[i] = s[i]
    BY <1>2, <1>5, AddElementAtIs
  <1>7. \A i \in 1 .. Len(b) : c[i].id \notin {SigChain, "SISDataIndex"}
    BY <1>1, <1>2, <1>6 DEF PlainList
  <1>8. Positions(c, "SISDataIndex") = {Len(c)}
    <2>1. ASSUME NEW i \in 1 .. Len(c), c[i].id = "SISDataIndex" PROVE i = Len(c)
      <3>1. i \notin 1 .. Len(b)
        BY <1>7, <2>1
      <3>2. i <= Len(s) => i = Len(b) + 1 /\ Len(s) = Len(b) + 1 /\ c[i].id = SigChain
        BY <1>1, <1>2, <1>6, <3>1
      <3> QED BY <1>2, <1>4, <1>6, <2>1, <3>2
    <2>2. Len(c) \in 1 .. Len(c) /\ c[Len(c)].id = "SISDataIndex"
      BY <1>2, <1>4, <1>6
    <2> QED BY <2>1, <2>2 DEF Positions
  <1>9. ASSUME NEW i \in Positions(c, SigChain)
        PROVE  c[i].over = SubSeq(c, 1, i - 1)
    <2>1. i \in 1 .. Len(c) /\ c[i].id = SigChain
      BY DEF Positions
    <2>2. i \notin 1 .. Len(b) /\ i # Len(s) + 1
      BY <1>4, <1>6, <1>7, <2>1
    <2>3. i = Len(b) + 1 /\ Len(s) = Len(b) + 1 /\ i \in 1 .. Len(s)
      BY <1>1, <1>2, <1>6, <2>1, <2>2
    <2>4. c[i].over = b
      BY <1>2, <1>6, <2>3
    <2>5. i - 1 = Len(b)
      BY <1>1, <2>3
    <2>6. PICK p : p = SubSeq(c, 1, Len(b))
      OBVIOUS
    <2>7. p = [j \in 1 .. Len(b) |-> c[j]]
      BY <1>1, <2>6
    <2>8. p = [j \in 1 .. Len(b) |-> p[j]] /\ \A j \in 1 .. Len(b) : p[j] = c[j]
      BY <2>7
    <2>9. IsList(p) /\ Len(p) = Len(b)
      BY <1>1, <2>8, FunctionIsList
    <2>10. \A j \in 1 .. Len(b) : p[j] = b[j]
      BY <1>1, <1>2, <1>6, <2>8
    <2>11. p = b
      BY <1>1, <2>9, <2>10, ListsEqual
    <2> QED BY <2>4, <2>5, <2>6, <2>11
  <1> QED
    BY <1>6, <1>8, <1>9 DEF ControllerSound, SignaturesCoverPrefix, DataIndexLast

(* Nothing but the logo comes between the elements that are always there.  *)
LogoOK ==
  \/ gLogo = << >>
  \/ \E d : gLogo = <<[id |-> "SISLogo", desc |-> d]>>

LEMMA BodyIs ==
  ASSUME LogoOK
  PROVE  PlainList(ControllerBody)
  <1> DEFINE front == << SISInfo(gArgs.pkg.uid),
                         [id |-> "SISSupportedOptions", options |-> gOptions],
                         [id |-> "SISSupportedLanguages", languages |-> Languages],
                         [id |-> "SISPrerequisites"],
                         [id |-> "SISProperties"] >>
             block == [id |-> "SISInstallBlock", arrays |-> gArrays,
                       root |-> [files |-> gCur.files, embedded |-> gCur.embedded,
                                 ifs |-> gCur.ifs]]
  <1>1. ControllerBody = front \o gLogo \o <<block>>
    BY DEF ControllerBody
  <1>2. PlainList(front)
    <2>1. IsList(front) /\ Len(front) = 5
      BY DEF IsList
    <2>2. /\ front[1].id = "SISInfo" /\ front[2].id = "SISSupportedOptions"
          /\ front[3].id = "SISSupportedLanguages" /\ front[4].id = "SISPrerequisites"
          /\ front[5].id = "SISProperties"
      BY DEF SISInfo
    <2> HIDE DEF front
    <2>3. \A i \in 1 .. 5 : i \in {1, 2, 3, 4, 5}
      OBVIOUS
    <2> QED BY <2>1, <2>2, <2>3 DEF PlainList, SigChain
  <1>3. PlainList(<<block>>)
    <2>1. block.id = "SISInstallBlock"
      OBVIOUS
    <2> HIDE DEF block
    <2> QED BY <2>1, OneIs DEF PlainList, SigChain
  <1>4. PlainList(gLogo)
    <2>1. CASE gLogo = << >>
      BY <2>1, EmptyList DEF PlainList
    <2>2. CASE \E d : gLogo = <<[id |-> "SISLogo", desc |-> d]>>
      <3>1. PICK d : gLogo = <<[id |-> "SISLogo", desc |-> d]>>
        BY <2>2
      <3>2. PICK e : e = [id |-> "SISLogo", desc |-> d]
        OBVIOUS
      <3>3. e.id = "SISLogo" /\ gLogo = <<e>>
        BY <3>1, <3>2
      <3> QED BY <3>3, OneIs DEF PlainList, SigChain
    <2> QED BY <2>1, <2>2 DEF LogoOK
  <1>5. ASSUME NEW s, NEW t, PlainList(s), PlainList(t)
        PROVE  PlainList(s \o t)
    <2>1. IsList(s) /\ IsList(t) /\ Len(s) \in Nat /\ Len(t) \in Nat
      BY <1>5 DEF PlainList, IsList
    <2>2. /\ IsList(s \o t) /\ Len(s \o t) = Len(s) + Len(t)
          /\ \A i \in 1 .. Len(s) : (s \o t)[i] = s[i]
          /\ \A i \in 1 .. Len(t) : (s \o t)[Len(s) + i] = t[i]
      BY <2>1, ConcatIs
    <2>3. \A i \in 1 .. Len(s) + Len(t) :
            i \in 1 .. Len(s) \/ (i - Len(s) \in 1 .. Len(t) /\ Len(s) + (i - Len(s)) = i)
      BY <2>1
    <2> QED BY <1>5, <2>1, <2>2, <2>3 DEF PlainList
  <1> HIDE DEF front, block
  <1>6. PlainList(front \o gLogo)
    BY <1>2, <1>4, <1>5
  <1> QED
    BY <1>1, <1>3, <1>5, <1>6

LEMMA ControllerIsSound ==
  ASSUME LogoOK
  PROVE  ControllerSound(Controller)
  <1>1. PICK b : b = ControllerBody
    OBVIOUS
  <1>2. PICK s : s = IF gArgs.pkg.selfsign
                     THEN AddElement(b, SISSignatureCertificateChain(SelfsignedKey, b))
                     ELSE b
    OBVIOUS
  <1>3. Controller = AddElement(s, SISDataIndex(0))
    BY <1>1, <1>2 DEF Controller
  <1>4. s = b \/ s = AddElement(b, SISSignatureCertificateChain(SelfsignedKey, b))
    BY <1>2
  <1> QED
    BY <1>1, <1>3, <1>4, BodyIs, IndexedSound

(* The contents of the file: the controller can be read back, and both     *)
(* checksums are of what is there.                                         *)
LEMMA ContentsIs ==
  ASSUME NEW c, c = Contents
  PROVE  /\ IsList(c)
         /\ HasElement(c, "SISCompressed") /\ HasElement(c, "SISData")
         /\ HasElement(c, "SISDataChecksum")
         /\ Readable(FindElement(c, "SISCompressed"))
         /\ Plain(FindElement(c, "SISCompressed")) = Controller
         /\ FindElement(c, "SISData").units = <<gFileData>> \o gUnits
         /\ FindElement(c, "SISDataChecksum").iValue = crcSlow(FindElement(c, "SISData"))
         /\ FindElement(c, "SISControllerChecksum").iValue =
              crcSlow(FindElement(c, "SISCompressed"))
  <1>1. PICK f : f = CopyFieldData(NewCompressed(Controller, Algorithm(gArgs.pkg)))
    OBVIOUS
  <1>2. PICK d : d = SISData(<<gFileData>> \o gUnits)
    OBVIOUS
  <1>3. PICK x : x = SISControllerChecksum(crcFast(TRUE, f))
    OBVIOUS
  <1>4. PICK y : y = SISDataChecksum(crcFast(TRUE, d))
    OBVIOUS
  <1>5. c = <<x, y, f, d>>
    BY <1>1, <1>2, <1>3, <1>4 DEF Contents
  <1>6. Algorithm(gArgs.pkg) \in {ECompressAuto, ECompressNone}
    BY DEF Algorithm
  <1>7. f.id = "SISCompressed" /\ Readable(f) /\ Plain(f) = Controller
    BY <1>1, <1>6, NewCompressedIs
  <1>8. d.id = "SISData" /\ d.units = <<gFileData>> \o gUnits
    BY <1>2 DEF SISData
  <1>9. x.id = "SISControllerChecksum" /\ x.iValue = crcSlow(f)
    BY <1>3 DEF SISControllerChecksum, crcFast
  <1>10. y.id = "SISDataChecksum" /\ y.iValue = crcSlow(d)
    BY <1>4 DEF SISDataChecksum, crcFast
  <1>11. IsList(c) /\ Len(c) = 4 /\ c[1] = x /\ c[2] = y /\ c[3] = f /\ c[4] = d
    BY <1>5 DEF IsList
  <1>12. \A i \in 1 .. 4 : i \in {1, 2, 3, 4}
    OBVIOUS
  <1>13. ASSUME NEW i \in 1 .. 4, \A j \in 1 .. 4 : j # i => c[j].id # c[i].id
         PROVE  HasElement(c, c[i].id) /\ FindElement(c, c[i].id) = c[i]
    <2>1. i \in Positions(c, c[i].id) /\ \A j \in Positions(c, c[i].id) : i <= j
      BY <1>11, <1>13 DEF Positions
    <2> QED BY <1>11, <2>1, FirstPositionUnique DEF FindElement
  <1>14. \A i, j \in 1 .. 4 : j # i => c[j].id # c[i].id
    BY <1>7, <1>8, <1>9, <1>10, <1>11, <1>12
  <1>15. \A i \in 1 .. 4 : HasElement(c, c[i].id) /\ FindElement(c, c[i].id) = c[i]
    BY <1>13, <1>14
  <1>16. /\ HasElement(c, "SISCompressed") /\ FindElement(c, "SISCompressed") = f
         /\ HasElement(c, "SISData") /\ FindElement(c, "SISData") = d
         /\ HasElement(c, "SISDataChecksum") /\ FindElement(c, "SISDataChecksum") = y
         /\ FindElement(c, "SISControllerChecksum") = x
    BY <1>7, <1>8, <1>9, <1>10, <1>11, <1>15
  <1> QED
    BY <1>7, <1>8, <1>9, <1>10, <1>11, <1>16

-----------------------------------------------------------------------------
(***************************************************************************)
(* Both programs: the signatures, and what is in the files.                *)
(***************************************************************************)
(* Where makesis is, what it was started on, and the shape of what it has  *)
(* collected.                                                              *)
GenShape ==
  /\ gpc \in {"idle", "info", "lines", "language"}
  /\ gpc # "idle" => gArgs.pkg \in Packages /\ gArgs.target \in File
  /\ LogoOK

LEMMA NoGenRunShape ==
  ASSUME NoGenRun, gpc' = "idle"
  PROVE  GenShape'
  BY DEF NoGenRun, GenShape, LogoOK

LEMMA GenShapeNext ==
  ASSUME GenShape, GenNext
  PROVE  GenShape'
  <1>1. ASSUME NEW pkg \in Packages, NEW target \in File, GenOpen(pkg, target)
        PROVE  GenShape'
    <2>1. /\ gArgs' = [pkg |-> pkg, target |-> target]
          /\ gpc' = "info" /\ gLogo' = gLogo
      BY <1>1 DEF GenOpen
    <2> QED BY <2>1 DEF GenShape, LogoOK
  <1>2. CASE GenCannotOpen
    BY <1>2 DEF GenCannotOpen, genVars, GenShape, LogoOK
  <1>3. CASE GenInfo
    <2>1. PICK d : d = FileDescription(gArgs.pkg,
                         Reverse(gArgs.pkg.logos)[Len(Reverse(gArgs.pkg.logos))],
                         Len(Reverse(gArgs.pkg.logos)) - 1)
      OBVIOUS
    <2>2. /\ gpc = "info" /\ gpc' = "lines" /\ gArgs' = gArgs
          /\ gLogo' = << >> \/ gLogo' = <<[id |-> "SISLogo", desc |-> d]>>
      BY <1>3, <2>1 DEF GenInfo
    <2> QED BY <2>2 DEF GenShape, LogoOK
  <1>4. CASE GenFile \/ GenComponent \/ GenIf \/ GenElse \/ GenEndIf \/ GenOption
    <2>1. gpc' = gpc /\ gArgs' = gArgs /\ gLogo' = gLogo
      BY <1>4 DEF GenFile, GenComponent, GenIf, GenElse, GenEndIf, GenOption
    <2> QED BY <2>1 DEF GenShape, LogoOK
  <1>5. CASE GenLanguageFile
    <2>1. /\ gpc \in {"lines", "language"} /\ gpc' \in {"lines", "language"}
          /\ gArgs' = gArgs /\ gLogo' = gLogo
      BY <1>5 DEF GenLanguageFile, AtLine
    <2> QED BY <2>1 DEF GenShape, LogoOK
  <1>6. CASE GenInfoFails \/ GenFileFails \/ GenOptionDies \/ GenSignFails \/ GenWrite
    <2>1. gpc' = "idle" /\ NoGenRun
      BY <1>6 DEF GenInfoFails, GenFileFails, GenOptionDies, GenSignFails, GenWrite, GenFail
    <2> QED BY <2>1, NoGenRunShape
  <1> QED
    BY <1>1, <1>2, <1>3, <1>4, <1>5, <1>6 DEF GenNext, GenStep

(* A step of makesis leaves the files alone, or makes one incomplete, or   *)
(* completes one; a package that is complete is published.                 *)
GenWrites(v) ==
  \/ v = PartialFile /\ published' = published
  \/ v = StubFile(Controller) /\ published' = published
  \/ /\ gpc = "lines" /\ ~ gArgs.pkg.stub
     /\ v = SisFile(gArgs.pkg.uid, Contents)
     /\ published' = published \cup {Package(ControllerOf(v), UnitsOf(v))}

LEMMA GenDiskStep ==
  ASSUME GenShape, GenNext, disk = [g \in File |-> disk[g]]
  PROVE  \/ disk' = disk /\ published' = published
         \/ \E f \in File : \E v : /\ disk' = [disk EXCEPT ![f] = v]
                                   /\ GenWrites(v)
  <1>1. ASSUME NEW pkg \in Packages, NEW target \in File, GenOpen(pkg, target)
        PROVE  disk' = [disk EXCEPT ![target] = PartialFile] /\ published' = published
    BY <1>1 DEF GenOpen, Truncate
  <1>2. CASE GenWrite
    <2>1. gpc = "lines" /\ gArgs.target \in File
      BY <1>2 DEF GenWrite, GenShape
    <2>2. CASE gArgs.pkg.stub
      <3>1. /\ disk' = [disk EXCEPT ![gArgs.target] = StubFile(Controller)]
            /\ published' = published
        BY <1>2, <2>2 DEF GenWrite, WriteStub
      <3> QED BY <2>1, <3>1 DEF GenWrites
    <2>3. CASE ~ gArgs.pkg.stub
      <3>1. PICK v : v = SisFile(gArgs.pkg.uid, Contents)
        OBVIOUS
      <3>2. PICK t \in File : t = gArgs.target
        BY <2>1
      <3>3. /\ disk' = [disk EXCEPT ![t] = v]
            /\ published' = published \cup
                 {Package(ControllerOf(disk'[t]), UnitsOf(disk'[t]))}
        BY <1>2, <2>3, <3>1, <3>2 DEF GenWrite, WriteSis
      <3>4. disk'[t] = v
        BY <3>3
      <3> QED BY <2>1, <2>3, <3>1, <3>3, <3>4 DEF GenWrites
    <2> QED BY <2>2, <2>3
  <1>3. CASE GenCannotOpen \/ (GenStep /\ ~ GenWrite)
    BY <1>3 DEF GenCannotOpen, GenStep, diskVars, GenInfoFails, GenInfo, GenFileFails,
                GenFile, GenComponent, GenLanguageFile, GenIf, GenElse, GenEndIf, GenOption,
                GenOptionDies, GenSignFails, GenFail
  <1> QED
    BY <1>1, <1>2, <1>3 DEF GenNext, GenWrites

(* What it writes is sound and has data. *)
LEMMA GenWritesSound ==
  ASSUME LogoOK, NEW v, GenWrites(v)
  PROVE  /\ v.kind \in {"none", "partial", "stub", "sis"}
         /\ IsSis(v) => /\ v.contents = Contents
                        /\ FileSound(v) /\ HasElement(v.contents, "SISData")
                        /\ ControllerOf(v) = Controller
                        /\ UnitsOf(v) = <<gFileData>> \o gUnits
  <1>1. v = PartialFile \/ v = StubFile(Controller) => v.kind \in {"partial", "stub"}
    BY DEF PartialFile, StubFile
  <1>2. CASE v = SisFile(gArgs.pkg.uid, Contents)
    <2>1. v.kind = "sis" /\ v.contents = Contents
      BY <1>2 DEF SisFile
    <2>2. PICK c : c = Contents
      OBVIOUS
    <2>3. /\ IsList(c) /\ HasElement(c, "SISCompressed") /\ HasElement(c, "SISData")
          /\ Readable(FindElement(c, "SISCompressed"))
          /\ Plain(FindElement(c, "SISCompressed")) = Controller
          /\ FindElement(c, "SISData").units = <<gFileData>> \o gUnits
      BY <2>2, ContentsIs
    <2>4. ControllerOf(v) = Controller /\ UnitsOf(v) = <<gFileData>> \o gUnits
      BY <2>1, <2>2, <2>3 DEF ControllerOf, UnitsOf
    <2> QED BY <2>1, <2>2, <2>3, <2>4, ControllerIsSound DEF FileSound
  <1> QED
    BY <1>1, <1>2 DEF GenWrites, IsSis

LEMMA GenKeepsStored ==
  ASSUME StoredInv, GenShape, GenNext, UNCHANGED signVars
  PROVE  StoredInv'
  <1>1. /\ SignTypeOK /\ FilesSound /\ EditSound /\ ContentsHaveController /\ OutputSound
        /\ DataPresent
    BY DEF StoredInv, SignInv
  <1>2. disk = [g \in File |-> disk[g]]
    BY <1>1 DEF SignTypeOK
  <1>3. /\ spc' = spc /\ sArgs' = sArgs /\ sUid' = sUid /\ sContents' = sContents
        /\ sController' = sController /\ sAlgorithm' = sAlgorithm
    BY DEF signVars
  <1>4. EditSound' /\ ContentsHaveController' /\ OutputSound'
    BY <1>1, <1>3 DEF EditSound, ContentsHaveController, OutputSound
  <1>5. /\ disk' = [g \in File |-> disk'[g]]
        /\ \A g \in File : disk'[g].kind \in {"none", "partial", "stub", "sis"}
        /\ FilesSound'
        /\ \A g \in File : IsSis(disk'[g]) => HasElement(disk'[g].contents, "SISData")
    <2>1. CASE disk' = disk
      BY <1>1, <2>1 DEF SignTypeOK, FilesSound, DataPresent
    <2>2. CASE disk' # disk
      <3>a. PICK f \in File : \E v : disk' = [disk EXCEPT ![f] = v] /\ GenWrites(v)
        BY <1>2, <2>2, GenDiskStep
      <3>1. PICK v : disk' = [disk EXCEPT ![f] = v] /\ GenWrites(v)
        BY <3>a
      <3>2. /\ v.kind \in {"none", "partial", "stub", "sis"}
            /\ IsSis(v) => FileSound(v) /\ HasElement(v.contents, "SISData")
        BY <3>1, GenWritesSound DEF GenShape
      <3>3. \A g \in File : disk'[g] = disk[g] \/ disk'[g] = v
        BY <1>2, <3>1
      <3>4. \A g \in File : IsSis(disk'[g]) => HasElement(disk'[g].contents, "SISData")
        BY <1>1, <3>2, <3>3 DEF DataPresent
      <3> QED BY <1>1, <3>1, <3>2, <3>4, DiskStepSound
    <2> QED BY <2>1, <2>2
  <1>6. SignTypeOK'
    BY <1>1, <1>3, <1>5 DEF SignTypeOK
  <1>7. DataPresent'
    BY <1>1, <1>3, <1>5 DEF DataPresent
  <1> QED
    BY <1>4, <1>5, <1>6, <1>7 DEF StoredInv, SignInv

-----------------------------------------------------------------------------
(***************************************************************************)
(* What a run of signsis carries from the file that it reads to the one    *)
(* that it writes: the install block, the logo and the data index of the   *)
(* controller, and the data units.                                         *)
(***************************************************************************)
OfType(c, type) == {c[i] : i \in Positions(c, type)}

Alike(c, d) ==
  /\ \A type : Children(c, type) = Children(d, type)
  /\ Logos(c) = Logos(d)
  /\ OfType(c, "SISDataIndex") = OfType(d, "SISDataIndex")
  /\ OfType(c, "SISInfo") = OfType(d, "SISInfo")

(* What the arrays of an install block hold. *)
BlockHolds(block, type) ==
  UNION {{block.arrays[a].elems[k] : k \in 1 .. Len(block.arrays[a].elems)} :
           a \in {n \in DOMAIN block.arrays : block.arrays[n].type = type}}

LEMMA PartsIs ==
  ASSUME NEW c
  PROVE  /\ \A type : Children(c, type) =
                       UNION {BlockHolds(b, type) : b \in OfType(c, "SISInstallBlock")}
         /\ Logos(c) = {b.desc : b \in OfType(c, "SISLogo")}
  <1>1. ASSUME NEW type
        PROVE  Children(c, type) =
                 UNION {BlockHolds(b, type) : b \in OfType(c, "SISInstallBlock")}
    <2>1. Children(c, type) =
            UNION {BlockHolds(c[i], type) : i \in Positions(c, "SISInstallBlock")}
      BY Zenon DEF Children, BlockHolds
    <2> QED BY <2>1, Zenon DEF OfType
  <1>2. Logos(c) = {b.desc : b \in OfType(c, "SISLogo")}
    BY Zenon DEF Logos, OfType
  <1> QED BY <1>1, <1>2

LEMMA AlikeIs ==
  ASSUME NEW c, NEW d,
         \A type \in {"SISInstallBlock", "SISLogo", "SISDataIndex", "SISInfo"} :
           OfType(c, type) = OfType(d, type)
  PROVE  Alike(c, d)
  <1>1. /\ OfType(c, "SISInstallBlock") = OfType(d, "SISInstallBlock")
        /\ OfType(c, "SISLogo") = OfType(d, "SISLogo")
        /\ OfType(c, "SISDataIndex") = OfType(d, "SISDataIndex")
        /\ OfType(c, "SISInfo") = OfType(d, "SISInfo")
    OBVIOUS
  <1>2. ASSUME NEW type PROVE Children(c, type) = Children(d, type)
    BY <1>1, PartsIs, Zenon
  <1>3. Logos(c) = Logos(d)
    BY <1>1, PartsIs, Zenon
  <1> QED BY <1>1, <1>2, <1>3 DEF Alike

(* A new signature stands between the elements and the data index. *)
LEMMA SignedAlike ==
  ASSUME NEW c, NEW k, ControllerSound(c)
  PROVE  Alike(Signed(c, k), c)
  <1>1. PICK d : d = Signed(c, k)
    OBVIOUS
  <1>2. /\ Len(d) = Len(c) + 1
        /\ \A i \in 1 .. Len(c) - 1 : d[i] = c[i]
        /\ d[Len(c)].id = SigChain
        /\ d[Len(c) + 1] = c[Len(c)]
    BY <1>1, SignedIs
  <1>3. Len(c) \in Nat /\ Len(c) \in Positions(c, "SISDataIndex")
    BY DEF ControllerSound, IsList, DataIndexLast
  <1>4. Len(c) \in 1 .. Len(c) /\ c[Len(c)].id = "SISDataIndex"
    BY <1>3 DEF Positions
  <1>5. ASSUME NEW type \in {"SISInstallBlock", "SISLogo", "SISDataIndex", "SISInfo"}
        PROVE  OfType(d, type) = OfType(c, type)
    <2>1. ASSUME NEW i \in 1 .. Len(d), d[i].id = type
          PROVE  \E j \in 1 .. Len(c) : c[j] = d[i]
      <3>1. i # Len(c)
        BY <1>2, <2>1 DEF SigChain
      <3>2. i \in 1 .. Len(c) - 1 \/ i = Len(c) + 1
        BY <1>2, <1>3, <3>1
      <3>3. i \in 1 .. Len(c) - 1 => i \in 1 .. Len(c)
        BY <1>3
      <3> QED BY <1>2, <1>4, <3>2, <3>3
    <2>2. ASSUME NEW i \in 1 .. Len(c), c[i].id = type
          PROVE  \E j \in 1 .. Len(d) : d[j] = c[i]
      <3>1. i \in 1 .. Len(c) - 1 \/ i = Len(c)
        BY <1>3
      <3>2. i \in 1 .. Len(d) /\ Len(c) + 1 \in 1 .. Len(d)
        BY <1>2, <1>3
      <3> QED BY <1>2, <3>1, <3>2
    <2>3. \A x \in OfType(d, type) : x \in OfType(c, type)
      BY <2>1 DEF OfType, Positions
    <2>4. \A x \in OfType(c, type) : x \in OfType(d, type)
      BY <2>2 DEF OfType, Positions
    <2> QED BY <2>3, <2>4
  <1> QED BY <1>1, <1>5, AlikeIs

(* Taking out another element. *)
LEMMA WithoutOfType ==
  ASSUME NEW c, IsList(c), NEW p \in 1 .. Len(c), NEW type, c[p].id # type
  PROVE  OfType(Without(c, p), type) = OfType(c, type)
  <1>1. PICK d : d = Without(c, p)
    OBVIOUS
  <1>2. Len(c) \in Nat
    BY DEF IsList
  <1>3. /\ Len(d) = Len(c) - 1
        /\ \A i \in 1 .. p - 1 : d[i] = c[i]
        /\ \A i \in p .. Len(c) - 1 : d[i] = c[i + 1]
    BY <1>1, <1>2, WithoutIs
  <1>4. ASSUME NEW i \in 1 .. Len(d), d[i].id = type
        PROVE  \E j \in 1 .. Len(c) : c[j] = d[i]
    <2>1. i \in 1 .. p - 1 \/ (i \in p .. Len(c) - 1 /\ i + 1 \in 1 .. Len(c))
      BY <1>2, <1>3
    <2>2. i \in 1 .. p - 1 => i \in 1 .. Len(c)
      BY <1>2
    <2> QED BY <1>3, <2>1, <2>2
  <1>5. ASSUME NEW j \in 1 .. Len(c), c[j].id = type
        PROVE  \E i \in 1 .. Len(d) : d[i] = c[j]
    <2>1. j # p
      BY <1>5
    <2>2. CASE j < p
      BY <1>2, <1>3, <2>2
    <2>3. CASE j > p
      <3>1. j - 1 \in p .. Len(c) - 1 /\ (j - 1) + 1 = j /\ j - 1 \in 1 .. Len(d)
        BY <1>2, <1>3, <2>3
      <3>2. d[j - 1] = c[j]
        BY <1>3, <3>1
      <3> QED BY <3>1, <3>2
    <2> QED BY <1>2, <2>1, <2>2, <2>3
  <1>6. \A x \in OfType(d, type) : x \in OfType(c, type)
    BY <1>4 DEF OfType, Positions
  <1>7. \A x \in OfType(c, type) : x \in OfType(d, type)
    BY <1>5 DEF OfType, Positions
  <1> QED BY <1>1, <1>6, <1>7

LEMMA RemovedAlike ==
  ASSUME NEW c, IsList(c)
  PROVE  Alike(FindRemoveLastElement(c, SigChain), c)
  <1>1. CASE ~ HasElement(c, SigChain)
    BY <1>1 DEF FindRemoveLastElement, Alike
  <1>2. CASE HasElement(c, SigChain)
    <2>1. PICK p : p = LastPosition(c, SigChain)
      OBVIOUS
    <2>2. p \in 1 .. Len(c) /\ c[p].id = SigChain
      BY <1>2, <2>1, LastPositionIs DEF Positions, IsList
    <2>3. PICK d : d = Without(c, p)
      OBVIOUS
    <2>4. ASSUME NEW type \in {"SISInstallBlock", "SISLogo", "SISDataIndex", "SISInfo"}
          PROVE  OfType(d, type) = OfType(c, type)
      <3>1. c[p].id # type
        BY <2>2 DEF SigChain
      <3> QED BY <2>2, <2>3, <3>1, WithoutOfType
    <2>5. FindRemoveLastElement(c, SigChain) = d
      BY <1>2, <2>1, <2>3 DEF FindRemoveLastElement
    <2> QED BY <2>4, <2>5, AlikeIs
  <1> QED BY <1>1, <1>2

Working == spc \in {"sign", "remove", "rebuild", "open", "write"}

HeldUnits == FindElement(sContents, "SISData").units

(* A step of signsis begins to work on a file or goes on with what it has, *)
(* and writes nothing but that.                                            *)
LoadsFile ==
  \E in \in File : /\ IsSis(disk[in])
                   /\ sController'.iField = ControllerOf(disk[in])
                   /\ HeldUnits' = UnitsOf(disk[in])
                   /\ sUid' = disk[in].uid

GoesOn ==
  /\ Working
  /\ Alike(sController'.iField, sController.iField)
  /\ HeldUnits' = HeldUnits /\ sUid' = sUid

SignWrites(v) ==
  \/ v = PartialFile /\ published' = published
  \/ /\ spc = "write" /\ v = Held /\ v.uid = sUid
     /\ ControllerOf(v) = sController.iField /\ UnitsOf(v) = HeldUnits
     /\ published' = published \cup {Package(ControllerOf(v), UnitsOf(v))}

CarryInv == StoredInv /\ ReadyIsResult

LEMMA AlikeSelf == ASSUME NEW c PROVE Alike(c, c)
  BY DEF Alike

LEMMA SignCarries ==
  ASSUME CarryInv, [SignNext]_signAllVars
  PROVE  /\ ReadyIsResult'
         /\ Working' => LoadsFile \/ GoesOn
         /\ \/ disk' = disk /\ published' = published
            \/ \E f \in File : \E v : /\ disk' = [disk EXCEPT ![f] = v]
                                      /\ SignWrites(v)
  <1>a. /\ StoredInv /\ SignInv /\ DataPresent /\ SignTypeOK /\ EditSound /\ ReadyIsResult
        /\ disk = [g \in File |-> disk[g]]
    BY DEF CarryInv, StoredInv, SignInv, SignTypeOK
  <1> USE DEF Working
  <1>1. CASE \E in, out \in File, mode \in Modes : SignLoad(in, out, mode)
    <2>1. PICK in, out \in File, mode \in Modes : SignLoad(in, out, mode)
      BY <1>1
    <2>2. PICK f : f = FindElement(disk[in].contents, "SISCompressed")
      OBVIOUS
    <2>3. /\ IsSis(disk[in]) /\ sContents' = disk[in].contents /\ sUid' = disk[in].uid
          /\ sController' = LoadChild(Uncompress(Load(f)))
          /\ disk' = disk /\ published' = published /\ spc' \in Modes
      BY <2>1, <2>2 DEF SignLoad
    <2>4. Readable(f)
      BY <1>a, <2>2, <2>3 DEF SignInv, FilesSound, FileSound
    <2>5. sController'.iField = ControllerOf(disk[in])
      BY <2>2, <2>3, <2>4, LoadedIs DEF ControllerOf
    <2>6. HeldUnits' = UnitsOf(disk[in])
      BY <2>3 DEF HeldUnits, UnitsOf
    <2> QED BY <2>3, <2>5, <2>6 DEF LoadsFile, ReadyIsResult, Modes
  <1>2. CASE SignRemove \/ \E k \in Key : SignAdd(k)
    <2>1. /\ spc \in {"sign", "remove"} /\ spc' = "rebuild"
          /\ disk' = disk /\ published' = published /\ sContents' = sContents /\ sUid' = sUid
      BY <1>2 DEF SignRemove, SignAdd, diskVars
    <2>2. IsObject(sController) /\ ControllerSound(sController.iField)
      BY <1>a, <2>1 DEF SignTypeOK, EditSound
    <2>3. Alike(sController'.iField, sController.iField)
      <3>1. CASE SignRemove
        <4>1. sController'.iField = FindRemoveLastElement(sController.iField, SigChain)
          BY <2>2, <3>1 DEF SignRemove, IsObject, Members
        <4> QED BY <2>2, <4>1, RemovedAlike DEF ControllerSound
      <3>2. CASE \E k \in Key : SignAdd(k)
        <4>1. PICK k \in Key : SignAdd(k)
          BY <3>2
        <4>2. sController'.iField = Signed(sController.iField, k)
          BY <2>2, <4>1 DEF SignAdd, IsObject, Members
        <4> QED BY <2>2, <4>2, SignedAlike
      <3> QED BY <1>2, <3>1, <3>2
    <2>4. HeldUnits' = HeldUnits
      BY <2>1 DEF HeldUnits
    <2> QED BY <2>1, <2>3, <2>4 DEF GoesOn, ReadyIsResult
  <1>3. CASE SignRebuild
    <2>1. /\ spc = "rebuild" /\ spc' = "open" /\ disk' = disk /\ published' = published
          /\ sUid' = sUid
      BY <1>3 DEF SignRebuild, diskVars
    <2>2. HasElement(sContents, "SISData")
      BY <1>a, <2>1 DEF DataPresent
    <2>3. /\ sController'.iField = sController.iField
          /\ FindElement(sContents', "SISData") = FindElement(sContents, "SISData")
          /\ Plain(FindElement(sContents', "SISCompressed")) = sController.iField
      BY <1>3, <1>a, <2>2, RebuiltContents
    <2>4. HeldUnits' = HeldUnits
      BY <2>3 DEF HeldUnits
    <2> QED BY <2>1, <2>3, <2>4, AlikeSelf DEF GoesOn, ReadyIsResult
  <1>4. CASE SignOpenOutput
    <2>1. /\ spc = "open" /\ spc' = "write" /\ published' = published
          /\ disk' = [disk EXCEPT ![sArgs.output] = PartialFile]
          /\ sContents' = sContents /\ sController' = sController /\ sUid' = sUid
      BY <1>4 DEF SignOpenOutput, Truncate
    <2>2. sArgs.output \in File
      BY <1>a, <2>1 DEF SignTypeOK
    <2>3. HeldUnits' = HeldUnits /\ sController'.iField = sController.iField
      BY <2>1 DEF HeldUnits
    <2>4. ReadyIsResult'
      BY <1>a, <2>1 DEF ReadyIsResult
    <2> QED BY <2>1, <2>2, <2>3, <2>4, AlikeSelf DEF GoesOn, SignWrites
  <1>5. CASE SignWrite
    <2>1. PICK v : v = Held
      OBVIOUS
    <2>2. PICK t : t = sArgs.output
      OBVIOUS
    <2>3. /\ spc = "write" /\ spc' = "idle"
          /\ disk' = [disk EXCEPT ![t] = v]
          /\ published' = published \cup {Package(ControllerOf(disk'[t]), UnitsOf(disk'[t]))}
      BY <1>5, <2>1, <2>2 DEF SignWrite, WriteSis, Held
    <2>4. t \in File
      BY <1>a, <2>2, <2>3 DEF SignTypeOK
    <2>5. disk'[t] = v
      BY <1>a, <2>3, <2>4
    <2>6. v.contents = sContents /\ v.uid = sUid
      BY <2>1 DEF Held, SisFile
    <2>7. ControllerOf(v) = sController.iField /\ UnitsOf(v) = HeldUnits
      BY <1>a, <2>3, <2>6 DEF ControllerOf, UnitsOf, HeldUnits, ReadyIsResult
    <2>8. SignWrites(v)
      BY <2>1, <2>3, <2>5, <2>6, <2>7 DEF SignWrites
    <2> QED BY <2>3, <2>4, <2>8 DEF ReadyIsResult
  <1>6. CASE SignDisplay \/ SignDisplayDone \/ SignAddFails
    <2>1. spc' \in {"display", "idle"} /\ disk' = disk /\ published' = published
      BY <1>6 DEF SignDisplay, SignDisplayDone, SignAddFails, diskVars
    <2> QED BY <2>1 DEF ReadyIsResult
  <1>7. CASE UNCHANGED signAllVars \/ \E in \in File : SignLoadFails(in)
    <2>1. /\ spc' = spc /\ disk' = disk /\ published' = published
          /\ sContents' = sContents /\ sController' = sController /\ sUid' = sUid
      BY <1>7 DEF SignLoadFails, signAllVars, diskVars, signVars
    <2>2. HeldUnits' = HeldUnits /\ sController'.iField = sController.iField
      BY <2>1 DEF HeldUnits
    <2>3. ReadyIsResult'
      BY <1>a, <2>1 DEF ReadyIsResult
    <2> QED BY <2>1, <2>2, <2>3, AlikeSelf DEF GoesOn
  <1> QED
    BY <1>1, <1>2, <1>3, <1>4, <1>5, <1>6, <1>7 DEF SignNext, SignStep

-----------------------------------------------------------------------------
(***************************************************************************)
(* The invariant of both programs: what is stored, held and collected is   *)
(* sound and can be read.                                                  *)
(***************************************************************************)
DiskReadable == \A f \in File : IsSis(disk[f]) => UnitsReadable(UnitsOf(disk[f]))

GenReadable == UnitReadable(gFileData) /\ UnitsReadable(gUnits)

ToolsInv ==
  /\ CarryInv
  /\ DiskReadable
  /\ Working => UnitsReadable(HeldUnits)
  /\ GenShape
  /\ GenReadable

LEMMA NothingReadable == UnitReadable(<< >>) /\ UnitsReadable(<< >>)
  BY EmptyList DEF UnitReadable, UnitsReadable

LEMMA AppendReadable ==
  ASSUME NEW s, UnitReadable(s), NEW f, Readable(f)
  PROVE  UnitReadable(Append(s, f))
  <1>1. IsList(s) /\ Len(s) \in Nat
    BY DEF UnitReadable, IsList
  <1>2. /\ IsList(Append(s, f)) /\ Len(Append(s, f)) = Len(s) + 1
        /\ Append(s, f)[Len(s) + 1] = f
        /\ \A i \in 1 .. Len(s) : Append(s, f)[i] = s[i]
    BY <1>1, AppendIs
  <1>3. \A i \in 1 .. Len(s) + 1 : i \in 1 .. Len(s) \/ i = Len(s) + 1
    BY <1>1
  <1> QED BY <1>2, <1>3 DEF UnitReadable

LEMMA ConcatReadable ==
  ASSUME NEW s, UnitsReadable(s), NEW t, UnitsReadable(t)
  PROVE  UnitsReadable(s \o t)
  <1>1. IsList(s) /\ IsList(t) /\ Len(s) \in Nat /\ Len(t) \in Nat
    BY DEF UnitsReadable, IsList
  <1>2. /\ IsList(s \o t) /\ Len(s \o t) = Len(s) + Len(t)
        /\ \A i \in 1 .. Len(s) : (s \o t)[i] = s[i]
        /\ \A i \in 1 .. Len(t) : (s \o t)[Len(s) + i] = t[i]
    BY <1>1, ConcatIs
  <1>3. \A i \in 1 .. Len(s) + Len(t) :
          i \in 1 .. Len(s) \/ (i - Len(s) \in 1 .. Len(t) /\ Len(s) + (i - Len(s)) = i)
    BY <1>1
  <1>4. \A i \in 1 .. Len(s) : UnitReadable((s \o t)[i])
    BY <1>2 DEF UnitsReadable
  <1>5. \A i \in 1 .. Len(t) : UnitReadable((s \o t)[Len(s) + i])
    BY <1>2 DEF UnitsReadable
  <1>6. \A i \in 1 .. Len(s) + Len(t) : UnitReadable((s \o t)[i])
    BY <1>3, <1>4, <1>5
  <1> QED BY <1>2, <1>6 DEF UnitsReadable

LEMMA FileDataIs ==
  ASSUME NEW pkg, NEW src
  PROVE  Readable(FileData(pkg, src)) /\ Plain(FileData(pkg, src)) = src
  <1>1. Algorithm(pkg) \in {ECompressAuto, ECompressNone}
    BY DEF Algorithm
  <1> QED BY <1>1, NewCompressedIs DEF FileData

(* The units of an embedded package, recompressed: as many as it has, of   *)
(* as many files, and holding the same.                                    *)
LEMMA EmbedUnitsIs ==
  ASSUME NEW pkg, NEW f, UnitsReadable(UnitsOf(f)), NEW e, e = EmbedUnits(pkg, f)
  PROVE  /\ UnitsReadable(e)
         /\ Len(e) = Len(UnitsOf(f))
         /\ \A u \in 1 .. Len(e) :
              /\ Len(e[u]) = Len(UnitsOf(f)[u])
              /\ \A k \in 1 .. Len(e[u]) : Plain(e[u][k]) = Plain(UnitsOf(f)[u][k])
  <1>1. PICK s : s = UnitsOf(f)
    OBVIOUS
  <1>2. IsList(s) /\ Len(s) \in Nat /\ \A u \in 1 .. Len(s) : UnitReadable(s[u])
    BY <1>1 DEF UnitsReadable, IsList
  <1>3. e = [u \in 1 .. Len(s) |-> [k \in 1 .. Len(s[u]) |-> Recompress(pkg, s[u][k])]]
    BY <1>1, Zenon DEF EmbedUnits
  <1>4. e = [u \in 1 .. Len(s) |-> e[u]]
        /\ \A u \in 1 .. Len(s) : e[u] = [k \in 1 .. Len(s[u]) |-> Recompress(pkg, s[u][k])]
    BY <1>3
  <1>5. IsList(e) /\ Len(e) = Len(s)
    BY <1>2, <1>4, FunctionIsList
  <1>6. ASSUME NEW u \in 1 .. Len(s)
        PROVE  /\ UnitReadable(e[u])
               /\ Len(e[u]) = Len(s[u])
               /\ \A k \in 1 .. Len(e[u]) : Plain(e[u][k]) = Plain(s[u][k])
    <2>1. PICK x : x = e[u]
      OBVIOUS
    <2>2. UnitReadable(s[u]) /\ Len(s[u]) \in Nat
      BY <1>2 DEF UnitReadable, IsList
    <2>3. x = [k \in 1 .. Len(s[u]) |-> Recompress(pkg, s[u][k])]
      BY <1>4, <2>1
    <2>4. /\ x = [k \in 1 .. Len(s[u]) |-> x[k]]
          /\ \A k \in 1 .. Len(s[u]) : x[k] = Recompress(pkg, s[u][k])
      BY <2>3
    <2>5. IsList(x) /\ Len(x) = Len(s[u])
      BY <2>2, <2>4, FunctionIsList
    <2>6. ASSUME NEW k \in 1 .. Len(s[u])
          PROVE  Readable(x[k]) /\ Plain(x[k]) = Plain(s[u][k])
      <3>1. Readable(s[u][k])
        BY <2>2 DEF UnitReadable
      <3> QED BY <2>4, <3>1, RecompressIs, SMTT(30)
    <2> QED BY <2>1, <2>5, <2>6 DEF UnitReadable
  <1> QED BY <1>1, <1>5, <1>6 DEF UnitsReadable

LEMMA GenReadableNext ==
  ASSUME GenShape, GenReadable, DiskReadable, GenNext
  PROVE  GenReadable'
  <1>1. ASSUME NEW pkg \in Packages, NEW target \in File, GenOpen(pkg, target)
        PROVE  GenReadable'
    <2>1. gFileData' = gFileData /\ gUnits' = gUnits
      BY <1>1 DEF GenOpen
    <2> QED BY <2>1 DEF GenReadable
  <1>2. CASE GenCannotOpen \/ GenIf \/ GenElse \/ GenEndIf \/ GenOption
    <2>1. gFileData' = gFileData /\ gUnits' = gUnits
      BY <1>2 DEF GenCannotOpen, genVars, GenIf, GenElse, GenEndIf, GenOption
    <2> QED BY <2>1 DEF GenReadable
  <1>3. CASE GenInfo
    <2>1. PICK logos : logos = Reverse(gArgs.pkg.logos)
      OBVIOUS
    <2>2. /\ gUnits' = gUnits /\ gpc = "info"
          /\ gFileData' = [i \in 1 .. Len(logos) |-> FileData(gArgs.pkg, logos[i])]
      BY <1>3, <2>1 DEF GenInfo
    <2>3. IsList(gArgs.pkg.logos)
      BY <2>2, PackagesAssumption DEF GenShape
    <2>4. Len(logos) \in Nat
      BY <2>1, <2>3, ReverseIs DEF IsList
    <2>5. /\ gFileData' = [i \in 1 .. Len(logos) |-> gFileData'[i]]
          /\ \A i \in 1 .. Len(logos) : gFileData'[i] = FileData(gArgs.pkg, logos[i])
      BY <2>2
    <2>6. IsList(gFileData') /\ Len(gFileData') = Len(logos)
      BY <2>4, <2>5, FunctionIsList
    <2>7. UnitReadable(gFileData')
      BY <2>5, <2>6, FileDataIs DEF UnitReadable
    <2> QED BY <2>2, <2>7 DEF GenReadable
  <1>4. ASSUME NEW src, StoreFile(src)
        PROVE  UnitReadable(gFileData')
    <2>1. gFileData' = gFileData \/ gFileData' = Append(gFileData, FileData(gArgs.pkg, src))
      BY <1>4 DEF StoreFile
    <2> QED BY <2>1, FileDataIs, AppendReadable DEF GenReadable
  <1>5. ASSUME NEW line, NEW arrays, NEW p, Embed(line, arrays, p)
        PROVE  UnitsReadable(gUnits')
    <2>1. PICK e : e = EmbedUnits(gArgs.pkg, disk[line.src])
      OBVIOUS
    <2>2. line.src \in File /\ IsSis(disk[line.src]) /\ gUnits' = gUnits \o e
      BY <1>5, <2>1 DEF Embed, CanEmbed
    <2>3. UnitsReadable(e)
      BY <2>1, <2>2, EmbedUnitsIs DEF DiskReadable
    <2> QED BY <2>2, <2>3, ConcatReadable DEF GenReadable
  <1>6. CASE GenFile
    <2>1. /\ gFileData' = gFileData \/ StoreFile(Head(gLines).src)
          /\ gUnits' = gUnits
      BY <1>6 DEF GenFile
    <2> QED BY <1>4, <2>1 DEF GenReadable
  <1>7. CASE GenComponent
    <2>1. gFileData' = gFileData /\ Embed(Head(gLines), gArrays, gCur.embedded)
      BY <1>7 DEF GenComponent
    <2> QED BY <1>5, <2>1 DEF GenReadable
  <1>8. CASE GenLanguageFile
    <2>1. \/ \E arrays, p : Embed(Head(gLines), arrays, p) /\ gFileData' = gFileData
          \/ StoreFile(Head(gLines).src) /\ gUnits' = gUnits
      BY <1>8, Zenon DEF GenLanguageFile
    <2> QED BY <1>4, <1>5, <2>1 DEF GenReadable
  <1>9. CASE GenInfoFails \/ GenFileFails \/ GenOptionDies \/ GenSignFails \/ GenWrite
    <2>1. gFileData' = << >> /\ gUnits' = << >>
      BY <1>9 DEF GenInfoFails, GenFileFails, GenOptionDies, GenSignFails, GenWrite,
                  GenFail, NoGenRun
    <2> QED BY <2>1, NothingReadable DEF GenReadable
  <1> QED
    BY <1>1, <1>2, <1>3, <1>6, <1>7, <1>8, <1>9 DEF GenNext, GenStep

LEMMA ToolsInitInv == Init => ToolsInv
  <1> SUFFICES ASSUME Init PROVE ToolsInv
    OBVIOUS
  <1>1. HeldInv /\ spc = "idle"
    BY HeldInit DEF Init, SignInit
  <1>2. DiskReadable
    <2>1. \A f \in File : disk[f] \in Foreign \cup {NoFile}
      BY DEF Init, DiskInit
    <2>2. ~ IsSis(NoFile)
      BY DEF NoFile, IsSis
    <2> QED BY <2>1, <2>2, ForeignAssumption DEF DiskReadable
  <1>3. GenShape /\ GenReadable
    BY NothingReadable DEF Init, GenInit, GenShape, LogoOK, GenReadable
  <1> QED
    BY <1>1, <1>2, <1>3 DEF ToolsInv, CarryInv, HeldInv, Working

(* The files of one list in front of the units of another. *)
LEMMA UnitsInFront ==
  ASSUME NEW s, UnitReadable(s), NEW t, UnitsReadable(t)
  PROVE  UnitsReadable(<<s>> \o t)
  <1>1. UnitsReadable(<<s>>)
    BY OneIs DEF UnitsReadable
  <1> QED BY <1>1, ConcatReadable

LEMMA ToolsNext == ToolsInv /\ [Next]_allVars => ToolsInv'
  <1> SUFFICES ASSUME ToolsInv, [Next]_allVars PROVE ToolsInv'
    OBVIOUS
  <1>a. /\ CarryInv /\ StoredInv /\ DiskReadable /\ GenShape /\ GenReadable
        /\ disk = [g \in File |-> disk[g]]
    BY DEF ToolsInv, CarryInv, StoredInv, SignInv, SignTypeOK
  <1>1. CASE GenNext /\ UNCHANGED signVars
    <2>1. StoredInv' /\ GenShape' /\ GenReadable'
      BY <1>1, <1>a, GenKeepsStored, GenShapeNext, GenReadableNext
    <2>2. /\ spc' = spc /\ sContents' = sContents /\ sController' = sController
      BY <1>1 DEF signVars
    <2>3. ReadyIsResult' /\ (Working' => UnitsReadable(HeldUnits'))
      BY <2>2 DEF ToolsInv, CarryInv, ReadyIsResult, Working, HeldUnits
    <2>4. DiskReadable'
      <3>1. CASE disk' = disk
        BY <1>a, <3>1 DEF DiskReadable
      <3>2. CASE disk' # disk
        <4>a. PICK f \in File : \E v : disk' = [disk EXCEPT ![f] = v] /\ GenWrites(v)
          BY <1>1, <1>a, <3>2, GenDiskStep
        <4>1. PICK v : disk' = [disk EXCEPT ![f] = v] /\ GenWrites(v)
          BY <4>a
        <4>2. IsSis(v) => UnitsReadable(UnitsOf(v))
          BY <1>a, <4>1, GenWritesSound, UnitsInFront DEF GenShape, GenReadable
        <4>3. \A g \in File : disk'[g] = disk[g] \/ disk'[g] = v
          BY <1>a, <4>1
        <4> QED BY <1>a, <4>2, <4>3 DEF DiskReadable
      <3> QED BY <3>1, <3>2
    <2> QED BY <2>1, <2>3, <2>4 DEF ToolsInv, CarryInv
  <1>2. CASE [SignNext]_signAllVars /\ UNCHANGED genVars
    <2>1. GenShape' /\ GenReadable'
      BY <1>2, <1>a DEF genVars, GenShape, LogoOK, GenReadable
    <2>2. StoredInv' /\ ReadyIsResult'
      BY <1>2, <1>a, StoredNext, SignCarries
    <2>3. Working' => UnitsReadable(HeldUnits')
      <3>1. LoadsFile => UnitsReadable(HeldUnits')
        BY <1>a DEF LoadsFile, DiskReadable
      <3>2. GoesOn => UnitsReadable(HeldUnits')
        BY DEF GoesOn, ToolsInv
      <3> QED BY <1>2, <1>a, <3>1, <3>2, SignCarries
    <2>4. DiskReadable'
      <3>1. CASE disk' = disk
        BY <1>a, <3>1 DEF DiskReadable
      <3>2. CASE disk' # disk
        <4>a. PICK f \in File : \E v : disk' = [disk EXCEPT ![f] = v] /\ SignWrites(v)
          BY <1>2, <1>a, <3>2, SignCarries
        <4>1. PICK v : disk' = [disk EXCEPT ![f] = v] /\ SignWrites(v)
          BY <4>a
        <4>2. IsSis(v) => UnitsReadable(UnitsOf(v))
          <5>1. ~ IsSis(PartialFile)
            BY DEF PartialFile, IsSis
          <5>2. spc = "write" => UnitsReadable(HeldUnits)
            BY DEF ToolsInv, Working
          <5> QED BY <4>1, <5>1, <5>2 DEF SignWrites
        <4>3. \A g \in File : disk'[g] = disk[g] \/ disk'[g] = v
          BY <1>a, <4>1
        <4> QED BY <1>a, <4>2, <4>3 DEF DiskReadable
      <3> QED BY <3>1, <3>2
    <2> QED BY <2>1, <2>2, <2>3, <2>4 DEF ToolsInv, CarryInv
  <1>3. UNCHANGED allVars => UNCHANGED signAllVars /\ UNCHANGED genVars
    BY DEF allVars, signAllVars
  <1> QED
    BY <1>1, <1>2, <1>3 DEF Next

(* Also where packages are made, and made of others, while some are being  *)
(* signed, every signature of every file covers what is in front of it     *)
(* (signsis.cpp main, sisfilegen.cpp GenerateSISFile).                     *)
THEOREM AllSignaturesStayIntact == Spec => []SignaturesIntact
  <1>1. ToolsInv => SignaturesIntact
    BY DEF ToolsInv, CarryInv, StoredInv, SignInv, FilesSound, FileSound,
           ControllerSound, SignaturesIntact, SisFiles
  <1> QED
    BY <1>1, ToolsInitInv, ToolsNext, PTL DEF Spec

-----------------------------------------------------------------------------
(***************************************************************************)
(* Both programs: what the files say of themselves.                        *)
(***************************************************************************)
BothConsistentInv == ToolsInv /\ ConsistentInv

(* What makesis writes is consistent. *)
LEMMA GenWritesConsistent ==
  ASSUME GenShape, GenReadable, NEW v, GenWrites(v), IsSis(v)
  PROVE  FileConsistent(v) /\ HasDataChecksum(v)
  <1>1. PICK c : c = Contents
    OBVIOUS
  <1>2. v.contents = c /\ UnitsOf(v) = <<gFileData>> \o gUnits
    BY <1>1, GenWritesSound DEF GenShape
  <1>3. /\ HasElement(c, "SISDataChecksum")
        /\ Readable(FindElement(c, "SISCompressed"))
        /\ FindElement(c, "SISDataChecksum").iValue = crcSlow(FindElement(c, "SISData"))
        /\ FindElement(c, "SISControllerChecksum").iValue =
             crcSlow(FindElement(c, "SISCompressed"))
    BY <1>1, ContentsIs
  <1>4. UnitsReadable(UnitsOf(v))
    BY <1>2, UnitsInFront DEF GenReadable
  <1>5. \A u \in 1 .. Len(UnitsOf(v)) :
          \A k \in 1 .. Len(UnitsOf(v)[u]) : Readable(UnitsOf(v)[u][k])
    BY <1>4 DEF UnitsReadable, UnitReadable
  <1>6. ControllerChecksumRight(v) /\ DataChecksumRight(v)
    BY <1>2, <1>3 DEF ControllerChecksumRight, DataChecksumRight
  <1> QED
    BY <1>2, <1>3, <1>5, <1>6 DEF FileConsistent, HasDataChecksum

LEMMA GenKeepsConsistent ==
  ASSUME BothConsistentInv, GenNext, UNCHANGED signVars
  PROVE  ConsistentInv'
  <1>1. /\ StoredInv /\ GenShape /\ GenReadable /\ ConsistentInv
        /\ disk = [g \in File |-> disk[g]]
    BY DEF BothConsistentInv, ToolsInv, CarryInv, StoredInv, SignInv, SignTypeOK
  <1>2. StoredInv'
    BY <1>1, GenKeepsStored
  <1>3. spc' = spc /\ Held' = Held
    BY DEF signVars, Held, SisFile
  <1>4. PICK h : h = Held
    OBVIOUS
  <1>5. /\ spc' # "idle" => DataConsistent(Held')
        /\ spc' \in {"open", "write"} => FileConsistent(Held')
    <2>1. /\ spc # "idle" => DataConsistent(h)
          /\ spc \in {"open", "write"} => FileConsistent(h)
      BY <1>1, <1>4 DEF ConsistentInv
    <2> QED BY <1>3, <1>4, <2>1
  <1>6. \A f \in File : IsSis(disk'[f]) => FileConsistent(disk'[f]) /\ HasDataChecksum(disk'[f])
    <2>1. CASE disk' = disk
      BY <1>1, <2>1 DEF ConsistentInv
    <2>2. CASE disk' # disk
      <3>a. PICK f \in File : \E v : disk' = [disk EXCEPT ![f] = v] /\ GenWrites(v)
        BY <1>1, <2>2, GenDiskStep
      <3>1. PICK v : disk' = [disk EXCEPT ![f] = v] /\ GenWrites(v)
        BY <3>a
      <3>2. IsSis(v) => FileConsistent(v) /\ HasDataChecksum(v)
        BY <1>1, <3>1, GenWritesConsistent
      <3>3. \A g \in File : disk'[g] = disk[g] \/ disk'[g] = v
        BY <1>1, <3>1
      <3> QED BY <1>1, <3>2, <3>3 DEF ConsistentInv
    <2> QED BY <2>1, <2>2
  <1> QED
    BY <1>2, <1>5, <1>6 DEF ConsistentInv

(* In a directory whose packages are consistent and have a data checksum,  *)
(* everything that makesis and signsis write there is consistent too, in   *)
(* whatever order and however interleaved they run (sisfilegen.cpp         *)
(* GenerateSISFile, signsis.cpp updateChecksum).                           *)
THEOREM AllFilesStayConsistent == ForeignConsistent /\ Spec => []FilesConsistent
  <1>1. ForeignConsistent /\ Init => BothConsistentInv
    <2> SUFFICES ASSUME ForeignConsistent, Init PROVE BothConsistentInv
      OBVIOUS
    <2>1. \A f \in File : disk[f] \in Foreign \cup {NoFile}
      BY DEF Init, DiskInit
    <2>2. ~ IsSis(NoFile) /\ spc = "idle"
      BY DEF NoFile, IsSis, Init, SignInit
    <2>3. ToolsInv /\ StoredInv
      BY ToolsInitInv DEF ToolsInv, CarryInv
    <2> QED BY <2>1, <2>2, <2>3 DEF BothConsistentInv, ConsistentInv, ForeignConsistent
  <1>2. BothConsistentInv /\ [Next]_allVars => BothConsistentInv'
    <2> SUFFICES ASSUME BothConsistentInv, [Next]_allVars PROVE BothConsistentInv'
      OBVIOUS
    <2>1. ToolsInv'
      BY ToolsNext DEF BothConsistentInv
    <2>2. CASE GenNext /\ UNCHANGED signVars
      BY <2>1, <2>2, GenKeepsConsistent DEF BothConsistentInv
    <2>3. CASE [SignNext]_signAllVars
      BY <2>1, <2>3, ConsistentNext DEF BothConsistentInv
    <2>4. UNCHANGED allVars => UNCHANGED signAllVars
      BY DEF allVars, signAllVars
    <2> QED BY <2>2, <2>3, <2>4 DEF Next
  <1>3. BothConsistentInv => FilesConsistent
    BY DEF BothConsistentInv, ConsistentInv, FilesConsistent, SisFiles
  <1> QED
    BY <1>1, <1>2, <1>3, PTL DEF Spec

-----------------------------------------------------------------------------
(***************************************************************************)
(* The stacks of the generator follow the conditions of the package: each  *)
(* pointer in them is to an array of the type that will be added to.       *)
(***************************************************************************)
Done == Len(AllLines) - Len(gLines)

Running == gpc \in {"lines", "language"}

(* The lines that are left are the last ones, and a language block is left *)
(* only when every language has its line.                                  *)
LinesLeft ==
  /\ IsList(gLines)
  /\ Done \in Nat
  /\ \A i \in 1 .. Len(gLines) : gLines[i] = AllLines[Done + i]

LanguageDone == Count(AllLines, "LanguageFile", Done) % Len(Languages)

LinesInv ==
  /\ LinesLeft
  /\ gpc = "lines" => LanguageDone = 0 /\ gLang = NoLang
  /\ gpc = "language" => /\ Done > 0 /\ AllLines[Done].kind = "LanguageFile"
                         /\ gLang.done \in 1 .. Len(Languages) - 1
                         /\ LanguageDone = gLang.done

LanguageChain(arrays, lang) ==
  Points(arrays, lang.elseIfs, "SISElseIf") /\ lang.ifField.id = "SISIf"

TreeInv ==
  /\ Tree(gArrays)
  /\ StackShape(gStacks) /\ Level(gStacks) = Depth(AllLines, Done)
  /\ Pointers(gArrays, gCur, gStacks)
  /\ gpc = "language" => LanguageChain(gArrays, gLang)

(* Before the lines and between runs there is nothing. *)
AtRest ==
  /\ gLines = << >> /\ gArrays = << >> /\ gCur = NoArrays /\ gStacks = EmptyStacks
  /\ gLang = NoLang /\ gIndex = 0 /\ gFileData = << >> /\ gUnits = << >>

GenInv ==
  /\ GenShape
  /\ gIndex \in Nat
  /\ Running => LinesInv /\ TreeInv
  /\ ~ Running => AtRest

-----------------------------------------------------------------------------
LEMMA PackageLists ==
  ASSUME GenShape, gpc # "idle"
  PROVE  /\ IsList(AllLines) /\ Len(AllLines) \in Nat
         /\ IsList(Languages) /\ Len(Languages) \in Nat /\ Len(Languages) > 0
         /\ WellNested(AllLines)
         /\ LanguageBlocksWhole(AllLines, Len(Languages))
         /\ \A i \in 1 .. Len(AllLines) :
              AllLines[i].kind = "File" /\ AllLines[i].type = "Null" =>
                AllLines[i].src = NoSource
  <1>1. gArgs.pkg \in Packages
    BY DEF GenShape
  <1>2. /\ IsList(gArgs.pkg.lines) /\ IsList(gArgs.pkg.languages)
        /\ Len(gArgs.pkg.languages) > 0
        /\ WellNested(Reverse(gArgs.pkg.lines))
        /\ LanguageBlocksWhole(Reverse(gArgs.pkg.lines), Len(gArgs.pkg.languages))
        /\ \A i \in 1 .. Len(gArgs.pkg.lines) :
             gArgs.pkg.lines[i].kind = "File" /\ gArgs.pkg.lines[i].type = "Null" =>
               gArgs.pkg.lines[i].src = NoSource
    BY <1>1, PackagesAssumption
  <1>3. /\ IsList(AllLines) /\ Len(AllLines) = Len(gArgs.pkg.lines)
        /\ \A i \in 1 .. Len(AllLines) : AllLines[i] = gArgs.pkg.lines[(Len(AllLines) - i) + 1]
    BY <1>2, ReverseIs DEF AllLines
  <1>4. IsList(Languages) /\ Len(Languages) = Len(gArgs.pkg.languages)
    BY <1>2, ReverseIs DEF Languages
  <1>5. Len(AllLines) \in Nat /\ Len(Languages) \in Nat
    BY <1>3, <1>4 DEF IsList
  <1>6. \A i \in 1 .. Len(AllLines) : (Len(AllLines) - i) + 1 \in 1 .. Len(AllLines)
    BY <1>5
  <1>7. WellNested(AllLines) /\ LanguageBlocksWhole(AllLines, Len(Languages))
    BY <1>2, <1>4 DEF AllLines
  <1> QED BY <1>2, <1>3, <1>4, <1>5, <1>6, <1>7, SMTT(30)

(* The generator takes the lines in order. *)
LEMMA TakesLine ==
  ASSUME GenShape, gpc # "idle", LinesLeft, gLines # << >>
  PROVE  /\ Done \in Nat /\ Done + 1 \in 1 .. Len(AllLines)
         /\ Head(gLines) = AllLines[Done + 1]
         /\ gArgs' = gArgs /\ gLines' = Tail(gLines) =>
              /\ LinesLeft' /\ AllLines' = AllLines /\ Languages' = Languages
              /\ Done' = Done + 1
  <1>1. /\ IsList(gLines) /\ Len(AllLines) \in Nat /\ Done \in Nat
        /\ \A i \in 1 .. Len(gLines) : gLines[i] = AllLines[Done + i]
    BY PackageLists DEF LinesLeft
  <1>2. /\ Len(gLines) \in Nat \ {0}
        /\ Head(gLines) = gLines[1]
        /\ IsList(Tail(gLines))
        /\ Len(Tail(gLines)) = Len(gLines) - 1
        /\ \A i \in 1 .. Len(gLines) - 1 : Tail(gLines)[i] = gLines[i + 1]
    BY <1>1, TailIs
  <1>3. Done = Len(AllLines) - Len(gLines)
    BY DEF Done
  <1>4. Done + 1 \in 1 .. Len(AllLines) /\ Head(gLines) = AllLines[Done + 1]
    BY <1>1, <1>2, <1>3
  <1>5. ASSUME gArgs' = gArgs, gLines' = Tail(gLines)
        PROVE  LinesLeft' /\ AllLines' = AllLines /\ Languages' = Languages /\ Done' = Done + 1
    <2>1. AllLines' = AllLines /\ Languages' = Languages
      BY <1>5 DEF AllLines, Languages
    <2>2. Done' = Len(AllLines) - (Len(gLines) - 1)
      BY <1>2, <1>5, <2>1 DEF Done
    <2>3. Done' = Done + 1
      BY <1>1, <1>2, <1>3, <2>2
    <2>4. \A i \in 1 .. Len(gLines) - 1 :
            i + 1 \in 1 .. Len(gLines) /\ Done + (i + 1) = (Done + 1) + i
      BY <1>1, <1>2
    <2>5. \A i \in 1 .. Len(gLines) - 1 : Tail(gLines)[i] = AllLines[(Done + 1) + i]
      BY <1>1, <1>2, <2>4
    <2> QED BY <1>1, <1>2, <1>5, <2>1, <2>3, <2>5 DEF LinesLeft
  <1> QED BY <1>1, <1>4, <1>5

(* A line that belongs to no language block. *)
LEMMA OtherLineTaken ==
  ASSUME GenInv, AtLine({"File", "If", "ElseIf", "Else", "EndIf", "Option"}),
         gArgs' = gArgs, gLines' = Tail(gLines), gpc' = gpc, gLang' = gLang
  PROVE  LinesInv'
  <1>1. /\ gpc = "lines" /\ gLines # << >> /\ GenShape /\ LinesInv
        /\ Head(gLines).kind # "LanguageFile"
    BY DEF AtLine, GenInv, Running
  <1>2. /\ Done \in Nat /\ Head(gLines) = AllLines[Done + 1]
        /\ LinesLeft' /\ AllLines' = AllLines /\ Languages' = Languages /\ Done' = Done + 1
    BY <1>1, TakesLine DEF LinesInv
  <1>a. AllLines[Done + 1].kind # "LanguageFile"
    BY <1>1, <1>2
  <1>3. Count(AllLines, "LanguageFile", Done + 1) = Count(AllLines, "LanguageFile", Done)
    <2>1. PICK n \in Nat : n = Done
      BY <1>2
    <2>2. PICK lines : lines = AllLines
      OBVIOUS
    <2>3. lines[n + 1].kind # "LanguageFile"
      BY <1>a, <2>1, <2>2
    <2>4. Count(lines, "LanguageFile", n + 1) = Count(lines, "LanguageFile", n)
      BY <2>3, CountStays
    <2> QED BY <2>1, <2>2, <2>4
  <1>4. LanguageDone' = LanguageDone
    BY <1>2, <1>3 DEF LanguageDone
  <1> QED BY <1>1, <1>2, <1>4 DEF LinesInv

(* Inside a language block only lines of the block come. *)
LEMMA LanguageLineNext ==
  ASSUME GenInv, gpc = "language"
  PROVE  gLines # << >> /\ Head(gLines).kind = "LanguageFile"
  <1>1. /\ GenShape /\ LinesInv /\ gpc # "idle"
    BY DEF GenInv, Running
  <1>2. /\ IsList(gLines) /\ Len(gLines) \in Nat /\ Done \in Nat /\ Done > 0
        /\ AllLines[Done].kind = "LanguageFile"
        /\ LanguageDone # 0
    BY <1>1 DEF LinesInv, LinesLeft, IsList
  <1>3. /\ Len(AllLines) \in Nat /\ LanguageBlocksWhole(AllLines, Len(Languages))
    BY <1>1, PackageLists
  <1>4. Done = Len(AllLines) - Len(gLines) /\ Done \in 1 .. Len(AllLines)
    BY <1>2, <1>3 DEF Done
  <1>5. Done # Len(AllLines) /\ AllLines[Done + 1].kind = "LanguageFile"
    BY <1>2, <1>3, <1>4 DEF LanguageBlocksWhole, LanguageDone
  <1>6. gLines # << >>
    BY <1>2, <1>3, <1>4, <1>5, EmptyList
  <1> QED BY <1>1, <1>5, <1>6, TakesLine DEF LinesInv

(* A line of a language block is counted. *)
LEMMA LanguageLineTaken ==
  ASSUME GenInv, GenLanguageFile
  PROVE  /\ gpc \in {"lines", "language"} /\ gLines # << >> /\ gpc # "idle"
         /\ Head(gLines).kind = "LanguageFile"
         /\ LinesInv'
         /\ gpc = "lines" => gLang.done = 0
         /\ gpc' \in {"lines", "language"}
  <1>1. /\ AtLine({"LanguageFile"}) \/ gpc = "language"
        /\ gLines' = Tail(gLines) /\ gArgs' = gArgs
        /\ IF gLang.done + 1 = Len(Languages)
           THEN gpc' = "lines" /\ gLang' = NoLang
           ELSE gpc' = "language" /\ gLang'.done = gLang.done + 1
    BY DEF GenLanguageFile
  <1>2. gpc \in {"lines", "language"} /\ gLines # << >> /\ Head(gLines).kind = "LanguageFile"
    BY <1>1, LanguageLineNext DEF AtLine
  <1>3. /\ GenShape /\ LinesInv /\ gpc # "idle"
    BY <1>2 DEF GenInv, Running
  <1>4. /\ Done \in Nat /\ Head(gLines) = AllLines[Done + 1]
        /\ LinesLeft' /\ AllLines' = AllLines /\ Languages' = Languages /\ Done' = Done + 1
    BY <1>1, <1>2, <1>3, TakesLine DEF LinesInv
  <1>a. AllLines[Done + 1].kind = "LanguageFile"
    BY <1>2, <1>4
  <1>b. PICK c : c = Count(AllLines, "LanguageFile", Done)
    OBVIOUS
  <1>5. c \in Nat /\ Count(AllLines, "LanguageFile", Done + 1) = c + 1
    <2>1. PICK m \in Nat : m = Done
      BY <1>4
    <2>2. PICK lines : lines = AllLines
      OBVIOUS
    <2>3. lines[m + 1].kind = "LanguageFile"
      BY <1>a, <2>1, <2>2
    <2>4. /\ Count(lines, "LanguageFile", m) \in Nat
          /\ Count(lines, "LanguageFile", m + 1) = Count(lines, "LanguageFile", m) + 1
      BY <2>3, CountNext
    <2> QED BY <1>b, <2>1, <2>2, <2>4
  <1>c. PICK n : n = Len(Languages)
    OBVIOUS
  <1>6. n \in Nat /\ n > 0
    BY <1>c, <1>3, PackageLists
  <1>d. PICK d : d = LanguageDone
    OBVIOUS
  <1>e. PICK e : e = LanguageDone'
    OBVIOUS
  <1>f. d = c % n /\ e = (c + 1) % n
    BY <1>b, <1>c, <1>d, <1>e, <1>4, <1>5 DEF LanguageDone
  <1>7. d \in 0 .. n - 1 /\ e = (IF d + 1 = n THEN 0 ELSE d + 1)
    BY <1>f, <1>5, <1>6, RemainderNext
  <1>8. gpc = "lines" => LanguageDone = 0 /\ gLang.done = 0
    BY <1>3 DEF LinesInv, NoLang
  <1>9. gpc = "language" => LanguageDone = gLang.done
    BY <1>3 DEF LinesInv
  <1>10. d = gLang.done
    BY <1>d, <1>2, <1>8, <1>9
  <1>11. CASE gLang.done + 1 = Len(Languages)
    <2>1. gpc' = "lines" /\ gLang' = NoLang /\ LanguageDone' = 0
      BY <1>1, <1>c, <1>e, <1>7, <1>10, <1>11
    <2> QED BY <1>2, <1>3, <1>4, <1>8, <2>1 DEF LinesInv
  <1>12. CASE gLang.done + 1 # Len(Languages)
    <2>1. gpc' = "language" /\ gLang'.done = gLang.done + 1 /\ LanguageDone' = gLang.done + 1
      <3>1. gpc' = "language" /\ gLang'.done = gLang.done + 1
        BY <1>1, <1>12
      <3>2. e = d + 1
        BY <1>c, <1>7, <1>10, <1>12
      <3> QED BY <3>1, <3>2, <1>e, <1>10
    <2>2. gLang.done + 1 \in 1 .. Len(Languages) - 1
      <3>1. d + 1 # n
        BY <1>c, <1>10, <1>12
      <3>2. d + 1 \in 1 .. n - 1
        BY <3>1, <1>6, <1>7
      <3> QED BY <3>2, <1>c, <1>10
    <2>3. Done' > 0 /\ AllLines'[Done'].kind = "LanguageFile"
      BY <1>2, <1>4
    <2> QED BY <1>2, <1>3, <1>4, <1>8, <2>1, <2>2, <2>3 DEF LinesInv
  <1> QED BY <1>11, <1>12

-----------------------------------------------------------------------------
(***************************************************************************)
(* What a step of the generator adds to the install block and to the data. *)
(***************************************************************************)
Collected(ds, es) ==
  /\ InArrays(gArrays', "SISFileDescription")
       = InArrays(gArrays, "SISFileDescription") \cup ds
  /\ InArrays(gArrays', "SISController") = InArrays(gArrays, "SISController") \cup es

AddsFile(src) ==
  /\ Collected({FileDescription(gArgs.pkg, src, gIndex)}, {})
  /\ \/ StoreFile(src)
     \/ src = NoSource /\ UNCHANGED <<gIndex, gFileData>>
  /\ UNCHANGED gUnits

AddsPackage(line) ==
  /\ CanEmbed(line)
  /\ Collected({}, {EmbedController(disk[line.src], 1 + Len(gUnits))})
  /\ gUnits' = gUnits \o EmbedUnits(gArgs.pkg, disk[line.src])
  /\ UNCHANGED <<gIndex, gFileData>>

AddsNothing == Collected({}, {}) /\ UNCHANGED <<gIndex, gFileData, gUnits>>

Adds == AddsNothing \/ (\E src : AddsFile(src)) \/ (\E line : AddsPackage(line))

LEMMA LeadsCollected ==
  ASSUME Tree(gArrays), Leads(gArrays, gArrays')
  PROVE  Tree(gArrays') /\ Grows(gArrays, gArrays') /\ Collected({}, {})
  BY DEF Leads, Collected

LEMMA FileAdded ==
  ASSUME Tree(gArrays), NEW x, Leads(gArrays, x),
         NEW p, Points(x, p, "SISFileDescription"),
         NEW src, gArrays' = AddTo(x, p, FileDescription(gArgs.pkg, src, gIndex))
  PROVE  /\ Tree(gArrays') /\ Grows(gArrays, gArrays') /\ Grows(x, gArrays')
         /\ Collected({FileDescription(gArgs.pkg, src, gIndex)}, {})
  <1>1. PICK d : d = FileDescription(gArgs.pkg, src, gIndex)
    OBVIOUS
  <1>2. d.id = "SISFileDescription"
    BY <1>1 DEF FileDescription
  <1>3. PICK y : y = AddTo(x, p, d)
    OBVIOUS
  <1>4. Tree(x)
    BY DEF Leads
  <1>5. /\ Tree(y) /\ Grows(x, y)
        /\ InArrays(y, "SISFileDescription") = InArrays(x, "SISFileDescription") \cup {d}
        /\ InArrays(y, "SISController") = InArrays(x, "SISController")
    BY <1>2, <1>3, <1>4, AddToIs
  <1>6. gArrays' = y
    BY <1>1, <1>3
  <1>7. Grows(gArrays, y)
    BY <1>4, <1>5, GrowsTwice DEF Leads
  <1> QED BY <1>1, <1>5, <1>6, <1>7 DEF Collected, Leads

LEMMA PackageAdded ==
  ASSUME Tree(gArrays), NEW x, Leads(gArrays, x), NEW p, Points(x, p, "SISController"),
         NEW e, gArrays' = AddTo(x, p, e)
  PROVE  /\ Tree(gArrays') /\ Grows(gArrays, gArrays') /\ Grows(x, gArrays')
         /\ Collected({}, {e})
  <1>1. PICK y : y = AddTo(x, p, e)
    OBVIOUS
  <1>2. Tree(x)
    BY DEF Leads
  <1>3. /\ Tree(y) /\ Grows(x, y)
        /\ InArrays(y, "SISFileDescription") = InArrays(x, "SISFileDescription")
        /\ InArrays(y, "SISController") = InArrays(x, "SISController") \cup {e}
    BY <1>1, <1>2, AddToIs
  <1>4. gArrays' = y
    BY <1>1
  <1>5. Grows(gArrays, y)
    BY <1>2, <1>3, GrowsTwice DEF Leads
  <1> QED BY <1>3, <1>4, <1>5 DEF Collected, Leads

(* The line that is next, and what is known when it comes.                 *)
LEMMA AtLineIs ==
  ASSUME GenInv, NEW kinds, AtLine(kinds)
  PROVE  /\ gpc = "lines" /\ Running /\ GenShape /\ LinesInv /\ TreeInv
         /\ Tree(gArrays) /\ StackShape(gStacks) /\ Pointers(gArrays, gCur, gStacks)
         /\ Level(gStacks) = Depth(AllLines, Done)
         /\ Head(gLines).kind \in kinds
         /\ Done \in Nat /\ Done + 1 \in 1 .. Len(AllLines)
         /\ Head(gLines) = AllLines[Done + 1]
         /\ gArgs' = gArgs /\ gLines' = Tail(gLines) =>
              AllLines' = AllLines /\ Done' = Done + 1
  <1>1. /\ gpc = "lines" /\ gLines # << >> /\ Head(gLines).kind \in kinds
        /\ Running /\ GenShape /\ LinesInv /\ TreeInv
    BY DEF GenInv, AtLine, Running
  <1> QED BY <1>1, TakesLine DEF LinesInv, TreeInv

(* A line that opens and closes nothing leaves the stacks. *)
LEMMA StacksStay ==
  ASSUME GenInv, AtLine({"File", "Option"}),
         gArgs' = gArgs, gLines' = Tail(gLines), gpc' = gpc, gLang' = gLang,
         gCur' = gCur, gStacks' = gStacks, Tree(gArrays'), Grows(gArrays, gArrays')
  PROVE  LinesInv' /\ TreeInv'
  <1>1. /\ gpc = "lines" /\ Tree(gArrays) /\ StackShape(gStacks)
        /\ Pointers(gArrays, gCur, gStacks)
        /\ Level(gStacks) = Depth(AllLines, Done) /\ Done \in Nat
        /\ AllLines[Done + 1].kind \notin {"If", "EndIf"}
        /\ AllLines' = AllLines /\ Done' = Done + 1
    BY AtLineIs
  <1>2. LinesInv'
    BY OtherLineTaken DEF AtLine
  <1>3. Depth(AllLines, Done + 1) = Depth(AllLines, Done)
    BY <1>1, DepthNext
  <1>4. Pointers(gArrays', gCur, gStacks)
    BY <1>1, PointersGrow
  <1> QED BY <1>1, <1>2, <1>3, <1>4 DEF TreeInv

LEMMA GenFileStep ==
  ASSUME GenInv, GenFile
  PROVE  LinesInv' /\ TreeInv' /\ Adds
  <1>1. PICK line : line = Head(gLines)
    OBVIOUS
  <1>2. /\ AtLine({"File"})
        /\ gArrays' = AddTo(gArrays, gCur.files, FileDescription(gArgs.pkg, line.src, gIndex))
        /\ IF line.type = "Null" THEN UNCHANGED <<gIndex, gFileData>> ELSE StoreFile(line.src)
        /\ gArgs' = gArgs /\ gLines' = Tail(gLines) /\ gpc' = gpc /\ gLang' = gLang
        /\ gCur' = gCur /\ gStacks' = gStacks /\ gUnits' = gUnits
    BY <1>1 DEF GenFile
  <1>3. /\ gpc = "lines" /\ GenShape /\ Tree(gArrays) /\ Pointers(gArrays, gCur, gStacks)
        /\ line.kind = "File" /\ Done + 1 \in 1 .. Len(AllLines) /\ line = AllLines[Done + 1]
    BY <1>1, <1>2, AtLineIs
  <1>4. line.type = "Null" => line.src = NoSource
    BY <1>3, PackageLists
  <1>5. Leads(gArrays, gArrays) /\ Points(gArrays, gCur.files, "SISFileDescription")
    BY <1>3, LeadsSelf DEF Pointers, BlockAt
  <1>6. /\ Tree(gArrays') /\ Grows(gArrays, gArrays')
        /\ Collected({FileDescription(gArgs.pkg, line.src, gIndex)}, {})
    BY <1>2, <1>3, <1>5, FileAdded
  <1>7. AtLine({"File", "Option"})
    BY <1>2 DEF AtLine
  <1>8. LinesInv' /\ TreeInv'
    BY <1>2, <1>6, <1>7, StacksStay
  <1>9. AddsFile(line.src)
    BY <1>2, <1>4, <1>6 DEF AddsFile
  <1> QED BY <1>8, <1>9 DEF Adds

LEMMA GenComponentStep ==
  ASSUME GenInv, GenComponent
  PROVE  LinesInv' /\ TreeInv' /\ Adds
  <1>1. PICK line : line = Head(gLines)
    OBVIOUS
  <1>2. PICK e : e = EmbedController(disk[line.src], 1 + Len(gUnits))
    OBVIOUS
  <1>3. /\ AtLine({"File"}) /\ CanEmbed(line)
        /\ gArrays' = AddTo(gArrays, gCur.embedded, e)
        /\ gUnits' = gUnits \o EmbedUnits(gArgs.pkg, disk[line.src])
        /\ gArgs' = gArgs /\ gLines' = Tail(gLines) /\ gpc' = gpc /\ gLang' = gLang
        /\ gCur' = gCur /\ gStacks' = gStacks /\ gIndex' = gIndex /\ gFileData' = gFileData
    BY <1>1, <1>2 DEF GenComponent, Embed
  <1>4. Tree(gArrays) /\ Pointers(gArrays, gCur, gStacks)
    BY <1>3, AtLineIs
  <1>5. Leads(gArrays, gArrays) /\ Points(gArrays, gCur.embedded, "SISController")
    BY <1>4, LeadsSelf DEF Pointers, BlockAt
  <1>6. Tree(gArrays') /\ Grows(gArrays, gArrays') /\ Collected({}, {e})
    BY <1>3, <1>4, <1>5, PackageAdded
  <1>7. AtLine({"File", "Option"})
    BY <1>3 DEF AtLine
  <1>8. LinesInv' /\ TreeInv'
    BY <1>3, <1>6, <1>7, StacksStay
  <1>9. AddsPackage(line)
    BY <1>2, <1>3, <1>6 DEF AddsPackage
  <1> QED BY <1>8, <1>9 DEF Adds

LEMMA GenOptionStep ==
  ASSUME GenInv, GenOption
  PROVE  LinesInv' /\ TreeInv' /\ Adds
  <1>1. /\ AtLine({"Option"}) /\ gArrays' = gArrays
        /\ gArgs' = gArgs /\ gLines' = Tail(gLines) /\ gpc' = gpc /\ gLang' = gLang
        /\ gCur' = gCur /\ gStacks' = gStacks
        /\ gIndex' = gIndex /\ gFileData' = gFileData /\ gUnits' = gUnits
    BY DEF GenOption, treeVars
  <1>2. Tree(gArrays)
    BY <1>1, AtLineIs
  <1>3. Leads(gArrays, gArrays')
    BY <1>1, <1>2, LeadsSelf
  <1>4. AtLine({"File", "Option"})
    BY <1>1 DEF AtLine
  <1>5. LinesInv' /\ TreeInv'
    BY <1>1, <1>2, <1>3, <1>4, LeadsCollected, StacksStay
  <1> QED BY <1>1, <1>2, <1>3, <1>5, LeadsCollected DEF Adds, AddsNothing

(* IF opens a level. *)
LEMMA GenIfStep ==
  ASSUME GenInv, GenIf
  PROVE  LinesInv' /\ TreeInv' /\ Adds
  <1>1. PICK n : n = Len(gArrays)
    OBVIOUS
  <1>2. PICK block : block = InstallBlock(n)
    OBVIOUS
  <1>3. PICK e : e = SISIf(Head(gLines).cond, block, n + 4)
    OBVIOUS
  <1>4. PICK x : x = gArrays \o BlockArrays
    OBVIOUS
  <1>5. PICK y : y = x \o <<NewArray("SISElseIf")>>
    OBVIOUS
  <1>6. /\ AtLine({"If"})
        /\ gStacks' = PushAll(gStacks, gCur)
        /\ gArrays' = AddTo(y, gCur.ifs, e)
        /\ gCur' = CurrentArrays(block, n + 4)
        /\ gArgs' = gArgs /\ gLines' = Tail(gLines) /\ gpc' = gpc /\ gLang' = gLang
        /\ gIndex' = gIndex /\ gFileData' = gFileData /\ gUnits' = gUnits
    BY <1>1, <1>2, <1>3, <1>4, <1>5, Zenon DEF GenIf, PushAll
  <1>7. /\ gpc = "lines" /\ Tree(gArrays) /\ StackShape(gStacks)
        /\ Pointers(gArrays, gCur, gStacks)
        /\ Level(gStacks) = Depth(AllLines, Done) /\ Done \in Nat
        /\ AllLines[Done + 1].kind = "If"
        /\ AllLines' = AllLines /\ Done' = Done + 1
    BY <1>6, AtLineIs
  <1>8. n \in Nat
    BY <1>1, <1>7 DEF Tree, IsList
  <1>9. Leads(gArrays, x) /\ BlockAt(x, block) /\ Tree(x) /\ Len(x) = n + 3
    BY <1>1, <1>2, <1>4, <1>7, BlockIsNew, AddArrays, BlockArraysIs DEF Leads
  <1>10. Leads(x, y) /\ Points(y, n + 4, "SISElseIf") /\ Tree(y)
    <2>1. Leads(x, y) /\ Points(y, Len(x) + 1, "SISElseIf")
      BY <1>5, <1>9, ChainIsNew
    <2>2. Len(x) + 1 = n + 4
      BY <1>8, <1>9
    <2> QED BY <2>1, <2>2 DEF Leads
  <1>11. e.id = "SISIf"
    BY <1>3 DEF SISIf
  <1>12. Leads(gArrays, y)
    BY <1>7, <1>9, <1>10, LeadsOn
  <1>13. Points(y, gCur.ifs, "SISIf")
    BY <1>7, <1>10, <1>12, PointsGrow DEF Pointers, BlockAt, Leads
  <1>14. PICK z : z = AddTo(y, gCur.ifs, e)
    OBVIOUS
  <1>15. Leads(y, z) /\ gArrays' = z
    BY <1>6, <1>10, <1>11, <1>13, <1>14, LeadsBranch
  <1>16. Leads(gArrays, z) /\ Tree(z) /\ Grows(y, z)
    BY <1>7, <1>12, <1>15, LeadsOn DEF Leads
  <1>17. Pointers(z, gCur, gStacks)
    BY <1>7, <1>16, PointersGrow DEF Leads
  <1>18. BlockAt(z, block) /\ Points(z, n + 4, "SISElseIf")
    <2>1. BlockAt(y, block)
      BY <1>9, <1>10, BlockGrows DEF Leads
    <2> QED BY <1>10, <1>16, <2>1, BlockGrows, PointsGrow
  <1>19. /\ gCur'.files = block.files /\ gCur'.embedded = block.embedded
         /\ gCur'.ifs = block.ifs /\ gCur'.elseIfs = n + 4
    BY <1>6 DEF CurrentArrays
  <1>20. PICK t : t = PushAll(gStacks, gCur)
    OBVIOUS
  <1>21. PICK b : b = [files |-> gCur.files, embedded |-> gCur.embedded, ifs |-> gCur.ifs]
    OBVIOUS
  <1>22. /\ StackShape(t) /\ Level(gStacks) \in Nat /\ Level(t) = Level(gStacks) + 1
         /\ \A i \in 1 .. Level(gStacks) : /\ BlockOf(t, i) = BlockOf(gStacks, i)
                                           /\ t.elseIfs[i] = gStacks.elseIfs[i]
         /\ BlockOf(t, Level(gStacks) + 1) = b
         /\ t.elseIfs[Level(gStacks) + 1] = gCur.elseIfs
    BY <1>7, <1>20, <1>21, PushIs
  <1>23. BlockAt(z, gCur') /\ ChainAt(z, gCur'.elseIfs, Level(t))
    BY <1>18, <1>19 DEF BlockAt, ChainAt, Points
  <1>24. BlockAt(z, b) /\ ChainAt(z, gCur.elseIfs, Level(gStacks))
    BY <1>17, <1>21 DEF Pointers, BlockAt
  <1>25. ASSUME NEW i \in 1 .. Level(t)
         PROVE  BlockAt(z, BlockOf(t, i)) /\ ChainAt(z, t.elseIfs[i], i - 1)
    <2>1. CASE i \in 1 .. Level(gStacks)
      BY <1>17, <1>22, <2>1 DEF Pointers
    <2>2. CASE i = Level(gStacks) + 1
      <3>1. i - 1 = Level(gStacks)
        BY <1>22, <2>2
      <3> QED BY <1>22, <1>24, <2>2, <3>1
    <2> QED BY <1>22, <2>1, <2>2
  <1>26. Pointers(z, gCur', t)
    BY <1>23, <1>25 DEF Pointers
  <1>27. Depth(AllLines, Done + 1) = Depth(AllLines, Done) + 1
    BY <1>7, DepthNext
  <1>28. TreeInv'
    BY <1>6, <1>7, <1>15, <1>16, <1>20, <1>22, <1>26, <1>27 DEF TreeInv
  <1>29. AtLine({"File", "If", "ElseIf", "Else", "EndIf", "Option"})
    BY <1>6 DEF AtLine
  <1>30. LinesInv'
    BY <1>6, <1>29, OtherLineTaken
  <1>31. AddsNothing
    BY <1>6, <1>7, <1>15, <1>16, LeadsCollected DEF AddsNothing
  <1> QED BY <1>28, <1>30, <1>31 DEF Adds

(* Inside a condition there is a level to go back to. *)
LEMMA LevelInside ==
  ASSUME GenInv, AtLine({"ElseIf", "Else", "EndIf"})
  PROVE  Level(gStacks) > 0
  <1>1. /\ GenShape /\ gpc = "lines" /\ Level(gStacks) = Depth(AllLines, Done)
        /\ Done \in Nat /\ Done + 1 \in 1 .. Len(AllLines)
        /\ AllLines[Done + 1].kind \in {"ElseIf", "Else", "EndIf"}
    BY AtLineIs
  <1>2. NestedSoFar(AllLines)
    BY <1>1, PackageLists DEF WellNested
  <1>3. /\ Count(AllLines, "EndIf", Done + 1) <= Count(AllLines, "If", Done + 1)
        /\ AllLines[Done + 1].kind \in {"ElseIf", "Else"} => Depth(AllLines, Done + 1) > 0
    BY <1>1, <1>2 DEF NestedSoFar
  <1>4. Depth(AllLines, Done) \in Int
    BY <1>1, DepthNext
  <1>5. CASE AllLines[Done + 1].kind \in {"ElseIf", "Else"}
    BY <1>1, <1>3, <1>5, DepthNext
  <1>6. CASE AllLines[Done + 1].kind = "EndIf"
    <2>1. Depth(AllLines, Done + 1) = Depth(AllLines, Done) - 1
      BY <1>1, <1>6, DepthNext
    <2>2. Count(AllLines, "EndIf", Done + 1) \in Nat /\ Count(AllLines, "If", Done + 1) \in Nat
      <3>1. Done + 1 \in Nat
        BY <1>1
      <3> QED BY <3>1, CountNext
    <2>3. Depth(AllLines, Done + 1) >= 0
      BY <1>3, <2>2 DEF Depth
    <2> QED BY <1>1, <1>4, <2>1, <2>3
  <1> QED BY <1>1, <1>5, <1>6

(* ELSEIF and ELSE stay on their level. *)
LEMMA GenElseStep ==
  ASSUME GenInv, GenElse
  PROVE  LinesInv' /\ TreeInv' /\ Adds
  <1>1. PICK block : block = InstallBlock(Len(gArrays))
    OBVIOUS
  <1>2. PICK e : e = SISElseIf(IF Head(gLines).kind = "Else" THEN Always
                               ELSE Head(gLines).cond, block)
    OBVIOUS
  <1>3. PICK x : x = gArrays \o BlockArrays
    OBVIOUS
  <1>4. /\ AtLine({"ElseIf", "Else"})
        /\ gStacks' = Push(Pop(gStacks), Tops(gStacks))
        /\ gArrays' = AddTo(x, gCur.elseIfs, e)
        /\ gCur' = CurrentArrays(block, gCur.elseIfs)
        /\ gArgs' = gArgs /\ gLines' = Tail(gLines) /\ gpc' = gpc /\ gLang' = gLang
        /\ gIndex' = gIndex /\ gFileData' = gFileData /\ gUnits' = gUnits
    BY <1>1, <1>2, <1>3 DEF GenElse
  <1>5. /\ gpc = "lines" /\ Tree(gArrays) /\ StackShape(gStacks)
        /\ Pointers(gArrays, gCur, gStacks)
        /\ Level(gStacks) = Depth(AllLines, Done) /\ Done \in Nat
        /\ AllLines[Done + 1].kind \notin {"If", "EndIf"}
        /\ AllLines' = AllLines /\ Done' = Done + 1
    BY <1>4, AtLineIs
  <1>6. Level(gStacks) > 0
    BY <1>4, LevelInside DEF AtLine
  <1>7. gStacks' = gStacks
    BY <1>4, <1>5, <1>6, PopIs
  <1>8. Leads(gArrays, x) /\ BlockAt(x, block) /\ Tree(x)
    BY <1>1, <1>3, <1>5, BlockIsNew DEF Leads
  <1>9. Points(x, gCur.elseIfs, "SISElseIf")
    BY <1>5, <1>6, <1>8, PointsGrow DEF Pointers, ChainAt, Leads
  <1>10. e.id = "SISElseIf"
    BY <1>2 DEF SISElseIf
  <1>11. PICK z : z = AddTo(x, gCur.elseIfs, e)
    OBVIOUS
  <1>12. Leads(x, z) /\ gArrays' = z
    BY <1>4, <1>8, <1>9, <1>10, <1>11, LeadsBranch
  <1>13. Leads(gArrays, z) /\ Tree(z) /\ Grows(x, z)
    BY <1>5, <1>8, <1>12, LeadsOn DEF Leads
  <1>14. Pointers(z, gCur, gStacks) /\ BlockAt(z, block)
    BY <1>5, <1>8, <1>13, PointersGrow, BlockGrows DEF Leads
  <1>15. /\ gCur'.files = block.files /\ gCur'.embedded = block.embedded
         /\ gCur'.ifs = block.ifs /\ gCur'.elseIfs = gCur.elseIfs
    BY <1>4 DEF CurrentArrays
  <1>16. Pointers(z, gCur', gStacks)
    BY <1>14, <1>15 DEF Pointers, BlockAt
  <1>17. Depth(AllLines, Done + 1) = Depth(AllLines, Done)
    BY <1>5, DepthNext
  <1>18. TreeInv'
    BY <1>4, <1>5, <1>7, <1>12, <1>13, <1>16, <1>17 DEF TreeInv
  <1>19. AtLine({"File", "If", "ElseIf", "Else", "EndIf", "Option"})
    BY <1>4 DEF AtLine
  <1>20. LinesInv'
    BY <1>4, <1>19, OtherLineTaken
  <1>21. AddsNothing
    BY <1>4, <1>5, <1>12, <1>13, LeadsCollected DEF AddsNothing
  <1> QED BY <1>18, <1>20, <1>21 DEF Adds

(* ENDIF goes back to the level around it. *)
LEMMA GenEndIfStep ==
  ASSUME GenInv, GenEndIf
  PROVE  LinesInv' /\ TreeInv' /\ Adds
  <1>1. PICK t : t = PopAll(gStacks)
    OBVIOUS
  <1>2. /\ AtLine({"EndIf"})
        /\ gCur' = CurrentArrays(Tops(gStacks), Last(gStacks.elseIfs))
        /\ gStacks' = t /\ gArrays' = gArrays
        /\ gArgs' = gArgs /\ gLines' = Tail(gLines) /\ gpc' = gpc /\ gLang' = gLang
        /\ gIndex' = gIndex /\ gFileData' = gFileData /\ gUnits' = gUnits
    BY <1>1, Zenon DEF GenEndIf, PopAll
  <1>3. /\ gpc = "lines" /\ Tree(gArrays) /\ StackShape(gStacks)
        /\ Pointers(gArrays, gCur, gStacks)
        /\ Level(gStacks) = Depth(AllLines, Done) /\ Done \in Nat
        /\ AllLines[Done + 1].kind = "EndIf"
        /\ AllLines' = AllLines /\ Done' = Done + 1
    BY <1>2, AtLineIs
  <1>4. Level(gStacks) > 0
    BY <1>2, LevelInside DEF AtLine
  <1>5. PICK top : top = BlockOf(gStacks, Level(gStacks))
    OBVIOUS
  <1>6. /\ StackShape(t) /\ Level(gStacks) \in Nat /\ Level(t) = Level(gStacks) - 1
        /\ \A i \in 1 .. Level(gStacks) - 1 : /\ BlockOf(t, i) = BlockOf(gStacks, i)
                                              /\ t.elseIfs[i] = gStacks.elseIfs[i]
        /\ Tops(gStacks) = top
        /\ Last(gStacks.elseIfs) = gStacks.elseIfs[Level(gStacks)]
    BY <1>1, <1>3, <1>4, <1>5, PopIs
  <1>7. /\ gCur'.files = top.files /\ gCur'.embedded = top.embedded
        /\ gCur'.ifs = top.ifs /\ gCur'.elseIfs = gStacks.elseIfs[Level(gStacks)]
    BY <1>2, <1>6 DEF CurrentArrays
  <1>8. Level(gStacks) \in 1 .. Level(gStacks)
    BY <1>4, <1>6
  <1>9. BlockAt(gArrays, top) /\ ChainAt(gArrays, gStacks.elseIfs[Level(gStacks)], Level(t))
    BY <1>3, <1>5, <1>6, <1>8 DEF Pointers
  <1>10. ASSUME NEW i \in 1 .. Level(t)
         PROVE  BlockAt(gArrays, BlockOf(t, i)) /\ ChainAt(gArrays, t.elseIfs[i], i - 1)
    <2>1. i \in 1 .. Level(gStacks) /\ i \in 1 .. Level(gStacks) - 1
      BY <1>6
    <2> QED BY <1>3, <1>6, <2>1 DEF Pointers
  <1>11. Pointers(gArrays, gCur', t)
    BY <1>7, <1>9, <1>10 DEF Pointers, BlockAt
  <1>12. Depth(AllLines, Done + 1) = Depth(AllLines, Done) - 1
    BY <1>3, DepthNext
  <1>13. TreeInv'
    BY <1>2, <1>3, <1>6, <1>11, <1>12 DEF TreeInv
  <1>14. AtLine({"File", "If", "ElseIf", "Else", "EndIf", "Option"})
    BY <1>2 DEF AtLine
  <1>15. LinesInv'
    BY <1>2, <1>14, OtherLineTaken
  <1>16. AddsNothing
    BY <1>2, <1>3, LeadsSelf, LeadsCollected DEF AddsNothing
  <1> QED BY <1>13, <1>15, <1>16 DEF Adds

(* One iteration of a language block. *)
LEMMA GenLanguageFileStep ==
  ASSUME GenInv, GenLanguageFile
  PROVE  LinesInv' /\ TreeInv' /\ Adds
  <1>1. PICK line : line = Head(gLines)
    OBVIOUS
  <1>2. PICK i : i = gLang.done + 1
    OBVIOUS
  <1>3. PICK begun : begun = IF gpc = "lines" THEN Append(gArrays, NewArray("SISElseIf"))
                             ELSE gArrays
    OBVIOUS
  <1>4. PICK elseIfs : elseIfs = IF gpc = "lines" THEN Len(begun) ELSE gLang.elseIfs
    OBVIOUS
  <1>5. PICK block : block = InstallBlock(Len(begun))
    OBVIOUS
  <1>6. PICK cond : cond = LanguageIs(Languages[i])
    OBVIOUS
  <1>7. PICK ifField : ifField = IF gpc = "lines" THEN SISIf(cond, block, elseIfs)
                                 ELSE gLang.ifField
    OBVIOUS
  <1>8. PICK new : new = begun \o BlockArrays
    OBVIOUS
  <1>9. PICK branch : branch = SISElseIf(cond, block)
    OBVIOUS
  <1>10. PICK chained : chained = IF gpc = "lines" THEN new ELSE AddTo(new, elseIfs, branch)
    OBVIOUS
  <1>11. PICK joined : joined = IF i = Len(Languages) THEN AddTo(chained, gCur.ifs, ifField)
                                ELSE chained
    OBVIOUS
  <1>12. PICK e : e = EmbedController(disk[line.src], 1 + Len(gUnits))
    OBVIOUS
  <1>13. /\ IF IsComponent(line)
            THEN /\ CanEmbed(line)
                 /\ gArrays' = AddTo(joined, block.embedded, e)
                 /\ gUnits' = gUnits \o EmbedUnits(gArgs.pkg, disk[line.src])
                 /\ UNCHANGED <<gIndex, gFileData>>
            ELSE /\ gArrays' = AddTo(joined, block.files,
                                     FileDescription(gArgs.pkg, line.src, gIndex))
                 /\ StoreFile(line.src)
                 /\ UNCHANGED gUnits
         /\ IF i = Len(Languages)
            THEN gpc' = "lines" /\ gLang' = NoLang
            ELSE /\ gpc' = "language"
                 /\ gLang' = [done |-> i, ifField |-> ifField, elseIfs |-> elseIfs]
         /\ gLines' = Tail(gLines)
         /\ UNCHANGED <<diskVars, gArgs, gCur, gStacks, gOptions, gLogo>>
    BY <1>1, <1>2, <1>3, <1>4, <1>5, <1>6, <1>7, <1>8, <1>9, <1>10, <1>11, <1>12,
       Zenon DEF GenLanguageFile, Embed
  <1>a. /\ IsComponent(line) => gIndex' = gIndex /\ gFileData' = gFileData
        /\ ~ IsComponent(line) => gUnits' = gUnits
        /\ i # Len(Languages) => gLang'.ifField = ifField /\ gLang'.elseIfs = elseIfs
        /\ gArgs' = gArgs /\ gCur' = gCur /\ gStacks' = gStacks
    BY <1>13
  <1>14. /\ gpc \in {"lines", "language"} /\ gLines # << >> /\ gpc # "idle"
         /\ Head(gLines).kind = "LanguageFile"
         /\ LinesInv' /\ gpc' \in {"lines", "language"}
    BY LanguageLineTaken
  <1>15. /\ GenShape /\ LinesInv /\ TreeInv
    BY <1>14 DEF GenInv, Running
  <1>16. /\ Tree(gArrays) /\ StackShape(gStacks) /\ Pointers(gArrays, gCur, gStacks)
         /\ Level(gStacks) = Depth(AllLines, Done)
         /\ gpc = "language" => LanguageChain(gArrays, gLang)
    BY <1>15 DEF TreeInv
  <1>17. /\ Done \in Nat /\ Head(gLines) = AllLines[Done + 1]
         /\ AllLines' = AllLines /\ Done' = Done + 1
    BY <1>a, <1>13, <1>14, <1>15, TakesLine DEF LinesInv
  <1>18. Leads(gArrays, begun) /\ Points(begun, elseIfs, "SISElseIf") /\ Tree(begun)
    <2>1. CASE gpc = "lines"
      <3>1. PICK a : a = NewArray("SISElseIf")
        OBVIOUS
      <3>2. begun = gArrays \o <<a>>
        BY <1>3, <1>16, <2>1, <3>1, AppendJoins DEF Tree
      <3>3. /\ Leads(gArrays, begun) /\ Len(begun) = Len(gArrays) + 1
            /\ Points(begun, Len(gArrays) + 1, "SISElseIf")
        BY <1>16, <3>1, <3>2, ChainIsNew
      <3> QED BY <1>4, <2>1, <3>3 DEF Leads
    <2>2. CASE gpc = "language"
      BY <1>3, <1>4, <1>16, <2>2, LeadsSelf DEF LanguageChain
    <2> QED BY <1>14, <2>1, <2>2
  <1>19. ifField.id = "SISIf"
    <2>1. CASE gpc = "lines"
      BY <1>7, <2>1 DEF SISIf
    <2>2. CASE gpc = "language"
      BY <1>7, <1>16, <2>2 DEF LanguageChain
    <2> QED BY <1>14, <2>1, <2>2
  <1>20. branch.id = "SISElseIf"
    BY <1>9 DEF SISElseIf
  <1>21. Leads(begun, new) /\ BlockAt(new, block) /\ Tree(new) /\ Leads(gArrays, new)
    <2>1. Leads(begun, new) /\ BlockAt(new, block)
      BY <1>5, <1>8, <1>18, BlockIsNew
    <2> QED BY <1>16, <1>18, <2>1, LeadsOn DEF Leads
  <1>22. Points(new, elseIfs, "SISElseIf")
    BY <1>18, <1>21, PointsGrow DEF Leads
  <1>23. Leads(new, chained) /\ Tree(chained)
    BY <1>10, <1>20, <1>21, <1>22, LeadsSelf, LeadsBranch DEF Leads
  <1>24. Leads(gArrays, chained)
    BY <1>16, <1>21, <1>23, LeadsOn
  <1>25. Points(chained, gCur.ifs, "SISIf")
    BY <1>16, <1>23, <1>24, PointsGrow DEF Pointers, BlockAt, Leads
  <1>26. Leads(chained, joined) /\ Tree(joined)
    BY <1>11, <1>19, <1>23, <1>25, LeadsSelf, LeadsBranch DEF Leads
  <1>27. Leads(gArrays, joined) /\ Leads(new, joined)
    BY <1>16, <1>21, <1>23, <1>24, <1>26, LeadsOn
  <1>28. BlockAt(joined, block) /\ Points(joined, elseIfs, "SISElseIf")
    BY <1>21, <1>22, <1>26, <1>27, BlockGrows, PointsGrow DEF Leads
  <1>29. /\ Tree(gArrays') /\ Grows(gArrays, gArrays') /\ Grows(joined, gArrays')
         /\ Adds
    <2>1. CASE IsComponent(line)
      <3>1. /\ Tree(gArrays') /\ Grows(gArrays, gArrays') /\ Grows(joined, gArrays')
            /\ Collected({}, {e})
        BY <1>13, <1>16, <1>27, <1>28, <2>1, PackageAdded DEF BlockAt
      <3>2. AddsPackage(line)
        BY <1>a, <1>12, <1>13, <2>1, <3>1 DEF AddsPackage
      <3> QED BY <3>1, <3>2 DEF Adds
    <2>2. CASE ~ IsComponent(line)
      <3>1. /\ Tree(gArrays') /\ Grows(gArrays, gArrays') /\ Grows(joined, gArrays')
            /\ Collected({FileDescription(gArgs.pkg, line.src, gIndex)}, {})
        BY <1>13, <1>16, <1>27, <1>28, <2>2, FileAdded DEF BlockAt
      <3>2. AddsFile(line.src)
        BY <1>a, <1>13, <2>2, <3>1 DEF AddsFile
      <3> QED BY <3>1, <3>2 DEF Adds
    <2> QED BY <2>1, <2>2
  <1>30. Pointers(gArrays', gCur, gStacks)
    BY <1>16, <1>29, PointersGrow
  <1>31. gpc' = "language" => LanguageChain(gArrays', gLang')
    BY <1>a, <1>13, <1>19, <1>26, <1>28, <1>29, PointsGrow DEF LanguageChain
  <1>32. Depth(AllLines, Done + 1) = Depth(AllLines, Done)
    BY <1>14, <1>17, DepthNext
  <1>33. TreeInv'
    BY <1>a, <1>16, <1>17, <1>29, <1>30, <1>31, <1>32 DEF TreeInv
  <1> QED BY <1>14, <1>29, <1>33

LEMMA GenInfoStep ==
  ASSUME GenInv, GenInfo
  PROVE  /\ GenInv' /\ Running'
         /\ \A t : InArrays(gArrays', t) = {}
         /\ gUnits' = << >>
  <1>1. PICK n : n = Len(Reverse(gArgs.pkg.logos))
    OBVIOUS
  <1>2. /\ gpc = "info" /\ gpc' = "lines" /\ gArgs' = gArgs /\ gIndex' = n
        /\ gArrays' = BlockArrays
        /\ gCur' = [files |-> 1, embedded |-> 2, ifs |-> 3, elseIfs |-> 0]
        /\ gLines' = AllLines
        /\ gStacks' = gStacks /\ gLang' = gLang /\ gUnits' = gUnits
    BY <1>1 DEF GenInfo, AllLines
  <1>3. /\ GenShape /\ AtRest
    BY <1>2 DEF GenInv, Running
  <1>4. IsList(AllLines) /\ Len(AllLines) \in Nat /\ Len(Languages) \in Nat /\ Len(Languages) > 0
    BY <1>2, <1>3, PackageLists
  <1>5. AllLines' = AllLines /\ Languages' = Languages
    BY <1>2 DEF AllLines, Languages
  <1>6. Done' = 0
    BY <1>2, <1>4, <1>5 DEF Done
  <1>7. LinesLeft'
    BY <1>2, <1>4, <1>5, <1>6 DEF LinesLeft
  <1>8. LanguageDone' = 0
    <2>1. Count(AllLines, "LanguageFile", 0) = 0 /\ 0 % Len(Languages) = 0
      BY <1>4, CountNext, RemainderNext
    <2> QED BY <1>5, <1>6, <2>1 DEF LanguageDone
  <1>9. LinesInv'
    BY <1>2, <1>3, <1>7, <1>8 DEF LinesInv, AtRest
  <1>10. StackShape(gStacks) /\ Level(gStacks) = 0
    BY <1>3, EmptyList DEF AtRest, EmptyStacks, StackShape, Level
  <1>11. Pointers(BlockArrays, gCur', gStacks)
    BY <1>2, <1>10, FirstBlock DEF Pointers, BlockAt, ChainAt
  <1>12. Depth(AllLines, 0) = 0
    BY DepthNext
  <1>13. TreeInv'
    BY <1>2, <1>5, <1>6, <1>10, <1>11, <1>12, FirstBlock DEF TreeInv
  <1>14. n \in Nat
    BY <1>1, <1>2, <1>3, PackagesAssumption, ReverseIs DEF GenShape, IsList
  <1>15. GenShape'
    BY <1>3, GenShapeNext DEF GenNext, GenStep
  <1> QED
    BY <1>2, <1>3, <1>9, <1>13, <1>14, <1>15, FirstBlock DEF GenInv, Running, AtRest

(* A step of makesis at its lines goes on and adds something or nothing,   *)
(* or ends the run.                                                        *)
GenGoesOn == Running /\ Running' /\ gArgs' = gArgs /\ gLogo' = gLogo /\ disk' = disk /\ Adds

LEMMA GenInvNext ==
  ASSUME GenInv, GenNext
  PROVE  /\ GenInv'
         /\ Running' => GenInfo \/ GenGoesOn \/ UNCHANGED genVars
  <1>1. GenShape'
    BY GenShapeNext DEF GenInv
  <1>2. ASSUME NEW pkg \in Packages, NEW target \in File, GenOpen(pkg, target)
        PROVE  GenInv' /\ ~ Running'
    <2>1. /\ gpc = "idle" /\ gpc' = "info" /\ gLines' = gLines /\ gArrays' = gArrays
          /\ gCur' = gCur /\ gStacks' = gStacks /\ gLang' = gLang /\ gIndex' = gIndex
          /\ gFileData' = gFileData /\ gUnits' = gUnits
      BY <1>2 DEF GenOpen, treeVars
    <2> QED BY <1>1, <2>1 DEF GenInv, Running, AtRest
  <1>3. CASE GenCannotOpen
    <2>1. UNCHANGED genVars
      BY <1>3 DEF GenCannotOpen
    <2>2. /\ gpc = "idle" /\ gpc' = gpc /\ gLines' = gLines /\ gArrays' = gArrays
          /\ gCur' = gCur /\ gStacks' = gStacks /\ gLang' = gLang /\ gIndex' = gIndex
          /\ gFileData' = gFileData /\ gUnits' = gUnits
      BY <1>3 DEF GenCannotOpen, genVars, treeVars
    <2> QED BY <1>1, <2>1, <2>2 DEF GenInv, Running, AtRest
  <1>4. CASE GenInfo
    BY <1>4, GenInfoStep
  <1>5. CASE GenFile \/ GenComponent \/ GenLanguageFile \/ GenIf \/ GenElse \/ GenEndIf
             \/ GenOption
    <2>1. LinesInv' /\ TreeInv' /\ Adds
      BY <1>5, GenFileStep, GenComponentStep, GenLanguageFileStep, GenIfStep, GenElseStep,
         GenEndIfStep, GenOptionStep
    <2>2. /\ gpc \in {"lines", "language"} /\ gpc' \in {"lines", "language"}
          /\ gArgs' = gArgs /\ gLogo' = gLogo /\ disk' = disk
      BY <1>5 DEF GenFile, GenComponent, GenLanguageFile, GenIf, GenElse, GenEndIf,
                  GenOption, AtLine, diskVars
    <2>3. gIndex' \in Nat
      <3>1. gIndex' = gIndex \/ \E src : StoreFile(src)
        BY <2>1 DEF Adds, AddsNothing, AddsFile, AddsPackage
      <3> QED BY <3>1 DEF StoreFile, GenInv
    <2> QED BY <1>1, <2>1, <2>2, <2>3 DEF GenInv, Running, GenGoesOn
  <1>6. CASE GenInfoFails \/ GenFileFails \/ GenOptionDies \/ GenSignFails \/ GenWrite
    <2>1. gpc' = "idle" /\ NoGenRun
      BY <1>6 DEF GenInfoFails, GenFileFails, GenOptionDies, GenSignFails, GenWrite, GenFail
    <2> QED BY <1>1, <2>1 DEF GenInv, Running, AtRest, NoGenRun
  <1> QED
    BY <1>2, <1>3, <1>4, <1>5, <1>6 DEF GenNext, GenStep

-----------------------------------------------------------------------------
(***************************************************************************)
(* Both programs: the generator's arrays.                                  *)
(***************************************************************************)
LEMMA GenInvInit == Init => GenInv
  <1> SUFFICES ASSUME Init PROVE GenInv
    OBVIOUS
  <1>1. GenShape
    BY ToolsInitInv DEF ToolsInv
  <1> QED BY <1>1 DEF Init, GenInit, GenInv, Running, AtRest

LEMMA GenInvStays ==
  ASSUME GenInv, UNCHANGED genVars
  PROVE  GenInv'
  <1>1. /\ gpc' = gpc /\ gArgs' = gArgs /\ gLines' = gLines /\ gArrays' = gArrays
        /\ gCur' = gCur /\ gStacks' = gStacks /\ gLang' = gLang /\ gIndex' = gIndex
        /\ gFileData' = gFileData /\ gUnits' = gUnits /\ gLogo' = gLogo
    BY DEF genVars, treeVars
  <1>2. Running' <=> Running
    BY <1>1 DEF Running
  <1>3. AllLines' = AllLines /\ Languages' = Languages /\ Done' = Done
        /\ LanguageDone' = LanguageDone
    BY <1>1 DEF AllLines, Languages, Done, LanguageDone
  <1>4. GenShape'
    BY <1>1 DEF GenInv, GenShape, LogoOK
  <1>5. LinesInv => LinesInv'
    BY <1>1, <1>3 DEF LinesInv, LinesLeft
  <1>6. TreeInv => TreeInv'
    BY <1>1, <1>3 DEF TreeInv
  <1>7. AtRest => AtRest'
    BY <1>1 DEF AtRest
  <1> QED BY <1>1, <1>2, <1>4, <1>5, <1>6, <1>7 DEF GenInv

LEMMA GenInvAlways ==
  ASSUME GenInv, [Next]_allVars
  PROVE  /\ GenInv'
         /\ Running' => GenInfo \/ GenGoesOn \/ UNCHANGED genVars
  <1>1. UNCHANGED allVars => UNCHANGED genVars
    BY DEF allVars
  <1> QED BY <1>1, GenInvStays, GenInvNext DEF Next

LEMMA GenTyped == GenInv => GenTypeOK
  <1> SUFFICES ASSUME GenInv PROVE GenTypeOK
    OBVIOUS
  <1>1. GenShape /\ gIndex \in Nat
    BY DEF GenInv
  <1>2. CASE ~ Running
    <2>1. AtRest
      BY <1>2 DEF GenInv
    <2>2. Len(gArrays) = 0
      BY <2>1 DEF AtRest
    <2>3. /\ gCur.files = 0 /\ gCur.embedded = 0 /\ gCur.ifs = 0 /\ gCur.elseIfs = 0
          /\ gLang.done = 0
      BY <2>1 DEF AtRest, NoArrays, NoLang
    <2>4. \A p \in {gCur.files, gCur.embedded, gCur.ifs, gCur.elseIfs} :
            p \in 0 .. Len(gArrays)
      BY <2>2, <2>3
    <2>5. \A a \in 1 .. Len(gArrays) : FALSE
      BY <2>2
    <2>6. gpc # "idle" => gArgs.pkg \in Packages /\ gArgs.target \in File
      BY <1>1 DEF GenShape
    <2>7. gpc \in {"idle", "info", "lines", "language"} /\ gLang.done \in Nat
      BY <1>1, <2>3 DEF GenShape
    <2> QED BY <1>1, <2>4, <2>5, <2>6, <2>7, Zenon DEF GenTypeOK
  <1>3. CASE Running
    <2>1. LinesInv /\ TreeInv /\ gpc # "idle"
      BY <1>3 DEF GenInv, Running
    <2>2. Tree(gArrays) /\ Pointers(gArrays, gCur, gStacks)
      BY <2>1 DEF TreeInv
    <2>3. Len(gArrays) \in Nat
      BY <2>2 DEF Tree, IsList
    <2>4. \A p \in {gCur.files, gCur.embedded, gCur.ifs, gCur.elseIfs} :
            p \in 0 .. Len(gArrays)
      BY <2>2, <2>3 DEF Pointers, BlockAt, ChainAt, Points
    <2>5. gLang.done \in Nat
      <3>1. gpc = "lines" => gLang.done = 0
        BY <2>1 DEF LinesInv, NoLang
      <3>2. gpc = "language" => gLang.done \in Nat
        BY <2>1 DEF LinesInv
      <3> QED BY <1>3, <3>1, <3>2 DEF Running
    <2>6. \A a \in 1 .. Len(gArrays) :
            gArrays[a].type # "SISController" =>
              \A k \in 1 .. Len(gArrays[a].elems) : gArrays[a].elems[k].id = gArrays[a].type
      BY <2>2 DEF Tree, Typed
    <2> QED BY <1>1, <2>4, <2>5, <2>6 DEF GenTypeOK, GenShape
  <1> QED BY <1>2, <1>3

(* Whatever the conditions and language blocks of a package, the pointers  *)
(* that the stacks hand back are to arrays of the type that is added to:   *)
(* the abort of SISArray::AddElement is never reached (sisfilegen.cpp      *)
(* GenerateSISFile, sisfield.h).                                           *)
THEOREM ArraysKeepTheirTypes == Spec => []GenTypeOK
  <1> QED
    BY GenInvInit, GenInvAlways, GenTyped, PTL DEF Spec

-----------------------------------------------------------------------------
(***************************************************************************)
(* The parts of the controller that makesis makes.                         *)
(***************************************************************************)
LEMMA OfTypeIs ==
  ASSUME NEW c, NEW type
  PROVE  OfType(c, type) = {x \in ElementsOf(c) : x.id = type}
  <1>1. \A x : x \in OfType(c, type) <=> \E i \in 1 .. Len(c) : c[i].id = type /\ x = c[i]
    BY Zenon DEF OfType, Positions
  <1>2. \A x : x \in ElementsOf(c) <=> \E i \in 1 .. Len(c) : x = c[i]
    BY Zenon DEF ElementsOf
  <1> QED BY <1>1, <1>2

LEMMA AddedElements ==
  ASSUME NEW s, IsList(s), NEW e
  PROVE  /\ IsList(AddElement(s, e))
         /\ ElementsOf(AddElement(s, e)) = ElementsOf(s) \cup {e}
  <1>1. Len(s) \in Nat /\ Len(s) \in 0 .. Len(s)
    BY DEF IsList
  <1>2. PICK r : r = AddElement(s, e)
    OBVIOUS
  <1>3. /\ IsList(r) /\ Len(r) = Len(s) + 1 /\ r[Len(s) + 1] = e
        /\ \A i \in 1 .. Len(s) : r[i] = s[i]
    BY <1>1, <1>2, AddElementAtIs DEF AddElement
  <1>4. PICK a : a = Append(s, e)
    OBVIOUS
  <1>5. /\ IsList(a) /\ Len(a) = Len(s) + 1 /\ a[Len(s) + 1] = e
        /\ \A i \in 1 .. Len(s) : a[i] = s[i]
    BY <1>4, AppendIs
  <1>6. \A i \in 1 .. Len(s) + 1 : i \in 1 .. Len(s) \/ i = Len(s) + 1
    BY <1>1
  <1>7. r = a
    BY <1>3, <1>5, <1>6, ListsEqual
  <1> QED BY <1>2, <1>3, <1>4, <1>7, AppendElements

(* A sound controller has one data index. *)
LEMMA IndexIs ==
  ASSUME NEW c, IsList(c), DataIndexLast(c)
  PROVE  /\ Len(c) \in Nat \ {0}
         /\ FirstPosition(c, "SISDataIndex") = Len(c)
         /\ c[Len(c)].id = "SISDataIndex"
         /\ \A i \in 1 .. Len(c) - 1 : c[i].id # "SISDataIndex"
         /\ DataIndexOf(c) = c[Len(c)].iValue
         /\ OfType(c, "SISDataIndex") = {c[Len(c)]}
  <1>1. Len(c) \in Nat /\ Positions(c, "SISDataIndex") = {Len(c)}
    BY DEF IsList, DataIndexLast
  <1>2. Len(c) \in 1 .. Len(c) /\ c[Len(c)].id = "SISDataIndex"
    BY <1>1 DEF Positions
  <1>3. \A i \in 1 .. Len(c) - 1 : c[i].id # "SISDataIndex"
    BY <1>1 DEF Positions
  <1>4. FirstPosition(c, "SISDataIndex") = Len(c)
    BY <1>1, <1>2, FirstPositionUnique
  <1>5. OfType(c, "SISDataIndex") = {c[Len(c)]}
    BY <1>1, Zenon DEF OfType
  <1> QED BY <1>1, <1>2, <1>3, <1>4, <1>5 DEF DataIndexOf, FindElement

(* The install block, the logo and the data index of the new controller.   *)
NewBlock ==
  [id |-> "SISInstallBlock", arrays |-> gArrays,
   root |-> [files |-> gCur.files, embedded |-> gCur.embedded, ifs |-> gCur.ifs]]

LEMMA NewControllerIs ==
  ASSUME LogoOK
  PROVE  /\ OfType(Controller, "SISInstallBlock") = {NewBlock}
         /\ OfType(Controller, "SISLogo") = ElementsOf(gLogo)
         /\ OfType(Controller, "SISDataIndex") = {SISDataIndex(0)}
         /\ OfType(Controller, "SISInfo") = {SISInfo(gArgs.pkg.uid)}
  <1>1. PICK front : front = << SISInfo(gArgs.pkg.uid),
                         [id |-> "SISSupportedOptions", options |-> gOptions],
                         [id |-> "SISSupportedLanguages", languages |-> Languages],
                         [id |-> "SISPrerequisites"],
                         [id |-> "SISProperties"] >>
    OBVIOUS
  <1>a. PICK info : info = SISInfo(gArgs.pkg.uid)
    OBVIOUS
  <1>2. /\ IsList(front)
        /\ \A x \in ElementsOf(front) :
             x.id \notin {"SISInstallBlock", "SISLogo", "SISDataIndex"}
        /\ info \in ElementsOf(front)
        /\ \A x \in ElementsOf(front) : x.id = "SISInfo" <=> x = info
    <2>1. IsList(front) /\ Len(front) = 5
      BY <1>1 DEF IsList
    <2>2. /\ front[1].id = "SISInfo" /\ front[2].id = "SISSupportedOptions"
          /\ front[3].id = "SISSupportedLanguages" /\ front[4].id = "SISPrerequisites"
          /\ front[5].id = "SISProperties" /\ front[1] = info
      BY <1>1, <1>a DEF SISInfo
    <2>3. \A i \in 1 .. 5 : i \in {1, 2, 3, 4, 5}
      OBVIOUS
    <2>4. 1 \in 1 .. 5
      OBVIOUS
    <2> QED BY <2>1, <2>2, <2>3, <2>4 DEF ElementsOf
  <1>3. PICK block : block = NewBlock
    OBVIOUS
  <1>4. ControllerBody = (front \o gLogo) \o <<block>>
    BY <1>1, <1>3, Zenon DEF ControllerBody, NewBlock
  <1>5. block.id = "SISInstallBlock"
    BY <1>3 DEF NewBlock
  <1>6. IsList(gLogo) /\ \A x \in ElementsOf(gLogo) : x.id = "SISLogo"
    <2>1. CASE gLogo = << >>
      BY <2>1, EmptyList DEF ElementsOf
    <2>2. CASE \E d : gLogo = <<[id |-> "SISLogo", desc |-> d]>>
      <3>1. PICK d : gLogo = <<[id |-> "SISLogo", desc |-> d]>>
        BY <2>2
      <3>2. PICK e : e = [id |-> "SISLogo", desc |-> d]
        OBVIOUS
      <3>3. e.id = "SISLogo" /\ gLogo = <<e>>
        BY <3>1, <3>2
      <3> QED BY <3>3, OneIs DEF ElementsOf
    <2> QED BY <2>1, <2>2 DEF LogoOK
  <1>7. ElementsOf(<<block>>) = {block}
    BY OneIs DEF ElementsOf
  <1>8. PICK a : a = front \o gLogo
    OBVIOUS
  <1>9. IsList(a) /\ ElementsOf(a) = ElementsOf(front) \cup ElementsOf(gLogo)
    BY <1>2, <1>6, <1>8, ConcatIs, ConcatElements
  <1>10. PICK b : b = ControllerBody
    OBVIOUS
  <1>11. /\ IsList(b)
         /\ ElementsOf(b) = ElementsOf(front) \cup ElementsOf(gLogo) \cup {block}
    <2>1. b = a \o <<block>> /\ IsList(<<block>>)
      BY <1>4, <1>8, <1>10, OneIs
    <2> QED BY <1>7, <1>9, <2>1, ConcatIs, ConcatElements
  <1>12. PICK chain : chain = SISSignatureCertificateChain(SelfsignedKey, b)
    OBVIOUS
  <1>13. chain.id = SigChain
    BY <1>12 DEF SISSignatureCertificateChain, SigChain
  <1>14. PICK s : s = IF gArgs.pkg.selfsign THEN AddElement(b, chain) ELSE b
    OBVIOUS
  <1>15. /\ IsList(s)
         /\ ElementsOf(s) = ElementsOf(b) \cup (IF gArgs.pkg.selfsign THEN {chain} ELSE {})
    BY <1>11, <1>14, AddedElements
  <1>16. PICK index : index = SISDataIndex(0)
    OBVIOUS
  <1>17. index.id = "SISDataIndex"
    BY <1>16 DEF SISDataIndex
  <1>18. Controller = AddElement(s, index)
    BY <1>10, <1>12, <1>14, <1>16 DEF Controller
  <1>19. ElementsOf(Controller) = ElementsOf(front) \cup ElementsOf(gLogo) \cup {block}
                                    \cup (IF gArgs.pkg.selfsign THEN {chain} ELSE {})
                                    \cup {index}
    BY <1>11, <1>15, <1>18, AddedElements
  <1>20. PICK c : c = Controller
    OBVIOUS
  <1>21. /\ \A x \in ElementsOf(c) : x.id = "SISInstallBlock" <=> x = block
         /\ \A x \in ElementsOf(c) : x.id = "SISLogo" <=> x \in ElementsOf(gLogo)
         /\ \A x \in ElementsOf(c) : x.id = "SISDataIndex" <=> x = index
         /\ \A x \in ElementsOf(c) : x.id = "SISInfo" <=> x = info
         /\ block \in ElementsOf(c) /\ index \in ElementsOf(c) /\ info \in ElementsOf(c)
         /\ \A x \in ElementsOf(gLogo) : x \in ElementsOf(c)
    BY <1>2, <1>5, <1>6, <1>13, <1>17, <1>19, <1>20 DEF SigChain
  <1>22. /\ {x \in ElementsOf(c) : x.id = "SISInstallBlock"} = {block}
         /\ {x \in ElementsOf(c) : x.id = "SISLogo"} = ElementsOf(gLogo)
         /\ {x \in ElementsOf(c) : x.id = "SISDataIndex"} = {index}
         /\ {x \in ElementsOf(c) : x.id = "SISInfo"} = {info}
    BY <1>21
  <1> QED BY <1>a, <1>3, <1>16, <1>20, <1>22, OfTypeIs

LEMMA NewControllerParts ==
  ASSUME LogoOK, Tree(gArrays)
  PROVE  /\ \A type : Children(Controller, type) = InArrays(gArrays, type)
         /\ Logos(Controller) = {b.desc : b \in ElementsOf(gLogo)}
         /\ DataIndexOf(Controller) = 0
  <1>1. PICK c : c = Controller
    OBVIOUS
  <1>2. PICK block : block = NewBlock
    OBVIOUS
  <1>3. /\ OfType(c, "SISInstallBlock") = {block}
        /\ OfType(c, "SISLogo") = ElementsOf(gLogo)
        /\ OfType(c, "SISDataIndex") = {SISDataIndex(0)}
    BY <1>1, <1>2, NewControllerIs
  <1>4. block.arrays = gArrays
    BY <1>2 DEF NewBlock
  <1>5. DOMAIN gArrays = 1 .. Len(gArrays)
    <2>1. gArrays = [a \in 1 .. Len(gArrays) |-> gArrays[a]]
      BY DEF Tree, IsList
    <2> QED BY <2>1
  <1>6. ASSUME NEW type PROVE BlockHolds(block, type) = InArrays(gArrays, type)
    <2>1. ASSUME NEW e
          PROVE  e \in BlockHolds(block, type) <=>
                   \E a \in DOMAIN block.arrays :
                     block.arrays[a].type = type /\ e \in ElementsOf(block.arrays[a].elems)
      BY Zenon DEF BlockHolds, ElementsOf
    <2>2. ASSUME NEW e
          PROVE  e \in BlockHolds(block, type) <=>
                   \E a \in 1 .. Len(gArrays) :
                     gArrays[a].type = type /\ e \in ElementsOf(gArrays[a].elems)
      BY <1>4, <1>5, <2>1
    <2>3. \A e : e \in BlockHolds(block, type) <=> e \in InArrays(gArrays, type)
      BY <2>2, InArraysIs
    <2> QED BY <2>3
  <1>7. ASSUME NEW type PROVE Children(c, type) = InArrays(gArrays, type)
    <2>1. Children(c, type) = UNION {BlockHolds(b, type) : b \in {block}}
      BY <1>3, PartsIs, Zenon
    <2>2. UNION {BlockHolds(b, type) : b \in {block}} = BlockHolds(block, type)
      OBVIOUS
    <2> QED BY <1>6, <2>1, <2>2
  <1>8. Logos(c) = {b.desc : b \in ElementsOf(gLogo)}
    BY <1>3, PartsIs, Zenon
  <1>9. DataIndexOf(c) = 0
    <2>1. IsList(c) /\ DataIndexLast(c)
      BY <1>1, ControllerIsSound DEF ControllerSound
    <2>2. c[Len(c)] = SISDataIndex(0)
      BY <1>3, <2>1, IndexIs
    <2> QED BY <2>1, <2>2, IndexIs DEF SISDataIndex
  <1> QED BY <1>1, <1>7, <1>8, <1>9

-----------------------------------------------------------------------------
(***************************************************************************)
(* What a step of both programs does to the files: each new file is the    *)
(* one that makesis has collected, or the one that signsis holds.          *)
(***************************************************************************)
FileMade(f) ==
  /\ Running /\ ~ gArgs.pkg.stub /\ f.uid = gArgs.pkg.uid
  /\ ControllerOf(f) = Controller /\ UnitsOf(f) = <<gFileData>> \o gUnits

FileSigned(f) ==
  /\ Working /\ f.uid = sUid
  /\ ControllerOf(f) = sController.iField /\ UnitsOf(f) = HeldUnits

StoredPackage(f) == Package(ControllerOf(f), UnitsOf(f))

FilesStep ==
  /\ published \subseteq published'
  /\ \A f \in File : IsSis(disk'[f]) =>
       \/ disk'[f] = disk[f]
       \/ /\ FileMade(disk'[f]) \/ FileSigned(disk'[f])
          /\ StoredPackage(disk'[f]) \in published'
  /\ \A p \in published' :
       \/ p \in published
       \/ \E f : (FileMade(f) \/ FileSigned(f)) /\ p = StoredPackage(f)

LEMMA NoFilesStep ==
  ASSUME disk' = disk, published' = published
  PROVE  FilesStep
  BY DEF FilesStep

(* One file becomes incomplete, or is a new package. *)
LEMMA OneFileStep ==
  ASSUME disk = [g \in File |-> disk[g]], NEW f \in File, NEW v,
         disk' = [disk EXCEPT ![f] = v],
         \/ published' = published /\ ~ IsSis(v)
         \/ /\ published' = published \cup {StoredPackage(v)}
            /\ FileMade(v) \/ FileSigned(v)
  PROVE  FilesStep
  <1>1. \A g \in File : disk'[g] = disk[g] \/ disk'[g] = v
    OBVIOUS
  <1>2. PICK p : p = StoredPackage(v)
    OBVIOUS
  <1>3. CASE published' = published /\ ~ IsSis(v)
    BY <1>1, <1>3 DEF FilesStep
  <1>4. CASE published' = published \cup {p} /\ (FileMade(v) \/ FileSigned(v))
    <2>1. published \subseteq published' /\ p \in published'
          /\ \A q \in published' : q \in published \/ q = p
      BY <1>4
    <2>2. ASSUME NEW g \in File, IsSis(disk'[g]), disk'[g] # disk[g]
          PROVE  /\ FileMade(disk'[g]) \/ FileSigned(disk'[g])
                 /\ StoredPackage(disk'[g]) \in published'
      <3>1. disk'[g] = v
        BY <1>1, <2>2
      <3>2. PICK w : w = disk'[g]
        OBVIOUS
      <3>3. (FileMade(w) \/ FileSigned(w)) /\ StoredPackage(w) \in published'
        BY <1>2, <1>4, <2>1, <3>1, <3>2
      <3> QED BY <3>2, <3>3
    <2>3. \A q \in published' :
            q \in published \/ \E w : (FileMade(w) \/ FileSigned(w)) /\ q = StoredPackage(w)
      BY <1>2, <1>4, <2>1
    <2> QED BY <2>1, <2>2, <2>3 DEF FilesStep
  <1> QED BY <1>2, <1>3, <1>4

BothInv == ToolsInv /\ GenInv

LEMMA AllStep ==
  ASSUME BothInv, [Next]_allVars
  PROVE  FilesStep /\ (Working' => LoadsFile \/ GoesOn)
  <1>a. /\ CarryInv /\ GenShape /\ disk = [g \in File |-> disk[g]]
    BY DEF BothInv, ToolsInv, CarryInv, StoredInv, SignInv, SignTypeOK
  <1>b. ~ IsSis(PartialFile) /\ ~ IsSis(StubFile(Controller))
    BY DEF PartialFile, StubFile, IsSis
  <1>1. CASE GenNext /\ UNCHANGED signVars
    <2>1. /\ spc' = spc /\ sContents' = sContents /\ sController' = sController
          /\ sUid' = sUid
      BY <1>1 DEF signVars
    <2>2. Working' => GoesOn
      BY <2>1, AlikeSelf DEF Working, GoesOn, HeldUnits
    <2>3. CASE disk' = disk /\ published' = published
      BY <2>2, <2>3, NoFilesStep
    <2>4. CASE \E f \in File : \E v : disk' = [disk EXCEPT ![f] = v] /\ GenWrites(v)
      <3>a. PICK f \in File : \E v : disk' = [disk EXCEPT ![f] = v] /\ GenWrites(v)
        BY <2>4
      <3>1. PICK v : disk' = [disk EXCEPT ![f] = v] /\ GenWrites(v)
        BY <3>a
      <3>2. CASE published' = published /\ ~ IsSis(v)
        BY <1>a, <2>2, <3>1, <3>2, OneFileStep
      <3>3. CASE /\ gpc = "lines" /\ ~ gArgs.pkg.stub
                 /\ v = SisFile(gArgs.pkg.uid, Contents)
                 /\ published' = published \cup {Package(ControllerOf(v), UnitsOf(v))}
        <4>1. IsSis(v)
          BY <3>3 DEF SisFile, IsSis
        <4>2. ControllerOf(v) = Controller /\ UnitsOf(v) = <<gFileData>> \o gUnits
          BY <1>a, <3>1, <4>1, GenWritesSound DEF GenShape
        <4>3. FileMade(v)
          BY <3>3, <4>2 DEF FileMade, Running, SisFile
        <4>4. published' = published \cup {StoredPackage(v)}
          BY <3>3 DEF StoredPackage
        <4> QED BY <1>a, <2>2, <3>1, <4>3, <4>4, OneFileStep
      <3> QED BY <1>b, <3>1, <3>2, <3>3 DEF GenWrites
    <2> QED BY <1>1, <1>a, <2>3, <2>4, GenDiskStep
  <1>2. CASE [SignNext]_signAllVars
    <2>1. Working' => LoadsFile \/ GoesOn
      BY <1>a, <1>2, SignCarries
    <2>2. CASE disk' = disk /\ published' = published
      BY <2>1, <2>2, NoFilesStep
    <2>3. CASE \E f \in File : \E v : disk' = [disk EXCEPT ![f] = v] /\ SignWrites(v)
      <3>a. PICK f \in File : \E v : disk' = [disk EXCEPT ![f] = v] /\ SignWrites(v)
        BY <2>3
      <3>1. PICK v : disk' = [disk EXCEPT ![f] = v] /\ SignWrites(v)
        BY <3>a
      <3>2. CASE v = PartialFile /\ published' = published
        BY <1>a, <1>b, <2>1, <3>1, <3>2, OneFileStep
      <3>3. CASE /\ spc = "write" /\ v = Held /\ v.uid = sUid
                 /\ ControllerOf(v) = sController.iField /\ UnitsOf(v) = HeldUnits
                 /\ published' = published \cup {Package(ControllerOf(v), UnitsOf(v))}
        <4>1. FileSigned(v)
          BY <3>3 DEF FileSigned, Working
        <4>2. published' = published \cup {StoredPackage(v)}
          BY <3>3 DEF StoredPackage
        <4> QED BY <1>a, <2>1, <3>1, <4>1, <4>2, OneFileStep
      <3> QED BY <3>1, <3>2, <3>3 DEF SignWrites
    <2> QED BY <1>a, <1>2, <2>2, <2>3, SignCarries
  <1>3. UNCHANGED allVars => UNCHANGED signAllVars
    BY DEF allVars, signAllVars
  <1> QED BY <1>1, <1>2, <1>3 DEF Next

LEMMA BothInit == Init => BothInv
  BY ToolsInitInv, GenInvInit DEF BothInv

LEMMA BothNext == BothInv /\ [Next]_allVars => BothInv'
  BY ToolsNext, GenInvAlways DEF BothInv

(* Every SIS file in the directory is a package that was published.        *)
FilesPublished == \A f \in File : IsSis(disk[f]) => StoredPackage(disk[f]) \in published

LEMMA FilesPublishedNext ==
  ASSUME FilesPublished, FilesStep
  PROVE  FilesPublished'
  <1>1. ASSUME NEW f \in File, IsSis(disk'[f])
        PROVE  StoredPackage(disk'[f]) \in published'
    <2>1. CASE disk'[f] = disk[f]
      <3>1. IsSis(disk[f])
        BY <1>1, <2>1
      <3>2. StoredPackage(disk[f]) \in published
        BY <3>1 DEF FilesPublished
      <3> QED BY <2>1, <3>2 DEF FilesStep
    <2>2. CASE disk'[f] # disk[f]
      BY <1>1, <2>2 DEF FilesStep
    <2> QED BY <2>1, <2>2
  <1> QED BY <1>1 DEF FilesPublished

LEMMA FilesPublishedInit == Init => FilesPublished
  <1> SUFFICES ASSUME Init PROVE FilesPublished
    OBVIOUS
  <1>1. ASSUME NEW f \in File, IsSis(disk[f])
        PROVE  StoredPackage(disk[f]) \in published
    <2>1. disk[f] \in {disk[n] : n \in {m \in File : IsSis(disk[m])}}
      BY <1>1
    <2> QED BY <2>1, Zenon DEF Init, DiskInit, StoredPackage
  <1> QED BY <1>1 DEF FilesPublished

-----------------------------------------------------------------------------
(***************************************************************************)
(* What each description of a file says of the stored file: its place, its *)
(* size and its hash.                                                      *)
(***************************************************************************)
Recorded(d, unit) ==
  d.hash # NULL =>
    /\ d.index + 1 \in 1 .. Len(unit)
    /\ d.length = SizeOf(unit[d.index + 1].buffer)
    /\ d.hash = SHA1(Plain(unit[d.index + 1]))

AllRecorded(c, unit) == \A d \in Descriptions(c) : Recorded(d, unit)

(* The descriptions that the generator has made. *)
Gathered == InArrays(gArrays, "SISFileDescription") \cup {b.desc : b \in ElementsOf(gLogo)}

FilesRecorded ==
  \A f \in File : IsSis(disk[f]) => AllRecorded(ControllerOf(disk[f]), UnitsOf(disk[f])[1])

RecordInv ==
  /\ FilesRecorded
  /\ Working => AllRecorded(sController.iField, HeldUnits[1])
  /\ Running /\ ~ gArgs.pkg.stub => /\ Len(gFileData) = gIndex
                                    /\ \A d \in Gathered : Recorded(d, gFileData)

LEMMA AlikeRecorded ==
  ASSUME NEW c, NEW d, Alike(c, d), NEW unit, AllRecorded(d, unit)
  PROVE  AllRecorded(c, unit)
  <1>1. Descriptions(c) = Descriptions(d)
    BY DEF Alike, Descriptions
  <1> QED BY <1>1 DEF AllRecorded

LEMMA DescriptionIs ==
  ASSUME NEW pkg, NEW src, NEW i \in Nat, NEW unit, i + 1 \in 1 .. Len(unit),
         unit[i + 1] = FileData(pkg, src)
  PROVE  Recorded(FileDescription(pkg, src, i), unit)
  <1>1. CASE src = NoSource
    <2>1. FileDescription(pkg, src, i).hash = NULL
      BY <1>1 DEF FileDescription
    <2> QED BY <2>1 DEF Recorded
  <1>2. CASE src # NoSource
    <2>1. PICK d : d = FileDescription(pkg, src, i)
      OBVIOUS
    <2>2. PICK r : r = NewCompressed(src, Algorithm(pkg))
      OBVIOUS
    <2>3. PICK f : f = CopyFieldData(r)
      OBVIOUS
    <2>4. d.hash = SHA1(src) /\ d.index = i /\ d.length = CompressedSize(r)
      BY <1>2, <2>1, <2>2 DEF FileDescription
    <2>5. Algorithm(pkg) \in {ECompressAuto, ECompressNone}
      BY DEF Algorithm
    <2>6. Plain(f) = src /\ CompressedSize(r) = SizeOf(f.buffer)
      BY <2>2, <2>3, <2>5, NewCompressedIs
    <2>7. unit[i + 1] = f
      BY <2>2, <2>3 DEF FileData
    <2> QED BY <2>1, <2>4, <2>6, <2>7 DEF Recorded
  <1> QED BY <1>1, <1>2

(* More files behind the others change nothing. *)
LEMMA RecordedStays ==
  ASSUME NEW unit, IsList(unit), NEW d, Recorded(d, unit), NEW e
  PROVE  Recorded(d, Append(unit, e))
  <1>1. Len(unit) \in Nat
    BY DEF IsList
  <1>2. PICK u : u = Append(unit, e)
    OBVIOUS
  <1>3. Len(u) = Len(unit) + 1 /\ \A i \in 1 .. Len(unit) : u[i] = unit[i]
    BY <1>2, AppendIs
  <1>4. PICK i : i = d.index + 1
    OBVIOUS
  <1>5. d.hash # NULL => /\ i \in 1 .. Len(unit)
                         /\ d.length = SizeOf(unit[i].buffer)
                         /\ d.hash = SHA1(Plain(unit[i]))
    BY <1>4 DEF Recorded
  <1>6. i \in 1 .. Len(unit) => i \in 1 .. Len(u) /\ u[i] = unit[i]
    BY <1>1, <1>3
  <1>7. d.hash # NULL => /\ i \in 1 .. Len(u)
                         /\ d.length = SizeOf(u[i].buffer)
                         /\ d.hash = SHA1(Plain(u[i]))
    BY <1>5, <1>6
  <1> QED BY <1>2, <1>4, <1>7 DEF Recorded

LEMMA MadeRecorded ==
  ASSUME BothInv, RecordInv, NEW f, FileMade(f)
  PROVE  AllRecorded(ControllerOf(f), UnitsOf(f)[1])
  <1>1. /\ Running /\ ~ gArgs.pkg.stub
        /\ ControllerOf(f) = Controller /\ UnitsOf(f) = <<gFileData>> \o gUnits
    BY DEF FileMade
  <1>2. LogoOK /\ Tree(gArrays) /\ IsList(gUnits)
    BY <1>1 DEF BothInv, ToolsInv, GenShape, GenInv, TreeInv, GenReadable, UnitsReadable
  <1>3. UnitsOf(f)[1] = gFileData
    <2>1. PICK s : s = <<gFileData>>
      OBVIOUS
    <2>2. IsList(s) /\ Len(s) = 1 /\ s[1] = gFileData
      BY <2>1, OneIs
    <2>3. 1 \in 1 .. Len(s)
      BY <2>2
    <2> QED BY <1>1, <1>2, <2>1, <2>2, <2>3, ConcatIs
  <1>4. Descriptions(Controller) = Gathered
    BY <1>2, NewControllerParts DEF Descriptions, Gathered
  <1>5. \A d \in Gathered : Recorded(d, gFileData)
    BY <1>1 DEF RecordInv
  <1> QED BY <1>1, <1>3, <1>4, <1>5 DEF AllRecorded

LEMMA GatherNext ==
  ASSUME BothInv, RecordInv, Running', ~ gArgs'.pkg.stub,
         GenInfo \/ GenGoesOn \/ UNCHANGED genVars
  PROVE  Len(gFileData') = gIndex' /\ \A d \in Gathered' : Recorded(d, gFileData')
  <1>1. CASE GenInfo
    <2>1. PICK logos : logos = Reverse(gArgs.pkg.logos)
      OBVIOUS
    <2>2. PICK n : n = Len(logos)
      OBVIOUS
    <2>3. PICK d : d = FileDescription(gArgs.pkg, logos[n], n - 1)
      OBVIOUS
    <2>4. PICK e : e = [id |-> "SISLogo", desc |-> d]
      OBVIOUS
    <2>5. /\ gpc = "info" /\ gIndex' = n
          /\ gFileData' = [i \in 1 .. n |-> FileData(gArgs.pkg, logos[i])]
          /\ gLogo' = IF n = 0 THEN << >> ELSE <<e>>
      BY <1>1, <2>1, <2>2, <2>3, <2>4, Zenon DEF GenInfo
    <2>6. GenShape
      BY DEF BothInv, ToolsInv
    <2>7. IsList(gArgs.pkg.logos)
      BY <2>5, <2>6, PackagesAssumption DEF GenShape
    <2>8. n \in Nat
      BY <2>1, <2>2, <2>7, ReverseIs DEF IsList
    <2>9. PICK u : u = gFileData'
      OBVIOUS
    <2>10. /\ u = [i \in 1 .. n |-> u[i]]
           /\ \A i \in 1 .. n : u[i] = FileData(gArgs.pkg, logos[i])
      BY <2>5, <2>9
    <2>11. IsList(u) /\ Len(u) = n
      BY <2>8, <2>10, FunctionIsList
    <2>12. InArrays(gArrays', "SISFileDescription") = {}
      BY <1>1, GenInfoStep DEF BothInv
    <2>13. \A b \in ElementsOf(gLogo') : n # 0 /\ b.desc = d
      <3>1. CASE n = 0
        BY <2>5, <3>1, EmptyList DEF ElementsOf
      <3>2. CASE n # 0
        BY <2>4, <2>5, <3>2, OneIs DEF ElementsOf
      <3> QED BY <3>1, <3>2
    <2>14. n # 0 => Recorded(d, u)
      <3> SUFFICES ASSUME n # 0 PROVE Recorded(d, u)
        OBVIOUS
      <3>1. n - 1 \in Nat /\ (n - 1) + 1 = n /\ n \in 1 .. n
        BY <2>8
      <3>2. u[(n - 1) + 1] = FileData(gArgs.pkg, logos[n]) /\ (n - 1) + 1 \in 1 .. Len(u)
        BY <2>10, <2>11, <3>1
      <3> QED BY <2>3, <3>1, <3>2, DescriptionIs
    <2>15. \A x \in Gathered' : n # 0 /\ x = d
      BY <2>12, <2>13 DEF Gathered
    <2> QED BY <2>5, <2>9, <2>11, <2>14, <2>15
  <1>2. CASE GenGoesOn
    <2>1. /\ gArgs' = gArgs /\ gLogo' = gLogo /\ Adds /\ Running
      BY <1>2 DEF GenGoesOn
    <2>2. Len(gFileData) = gIndex /\ \A d \in Gathered : Recorded(d, gFileData)
      BY <2>1 DEF RecordInv
    <2>3. IsList(gFileData) /\ gIndex \in Nat
      BY DEF BothInv, ToolsInv, GenReadable, UnitReadable, GenInv
    <2>4. ASSUME NEW ds, NEW es, Collected(ds, es)
          PROVE  Gathered' = Gathered \cup ds
      BY <2>1, <2>4 DEF Collected, Gathered
    <2>5. CASE AddsNothing \/ \E line : AddsPackage(line)
      <3>1. gIndex' = gIndex /\ gFileData' = gFileData /\ \E es : Collected({}, es)
        BY <2>5 DEF AddsNothing, AddsPackage
      <3> QED BY <2>2, <2>4, <3>1
    <2>6. CASE \E src : AddsFile(src)
      <3>1. PICK src : AddsFile(src)
        BY <2>6
      <3>2. PICK d : d = FileDescription(gArgs.pkg, src, gIndex)
        OBVIOUS
      <3>3. Gathered' = Gathered \cup {d}
        BY <2>4, <3>1, <3>2 DEF AddsFile
      <3>4. CASE src = NoSource /\ UNCHANGED <<gIndex, gFileData>>
        <4>1. d.hash = NULL
          BY <3>2, <3>4 DEF FileDescription
        <4>2. Recorded(d, gFileData) /\ gIndex' = gIndex /\ gFileData' = gFileData
          BY <3>4, <4>1 DEF Recorded
        <4> QED BY <2>2, <3>3, <4>2
      <3>5. CASE StoreFile(src)
        <4>1. PICK e : e = FileData(gArgs.pkg, src)
          OBVIOUS
        <4>2. PICK u : u = Append(gFileData, e)
          OBVIOUS
        <4>3. gIndex' = gIndex + 1 /\ gFileData' = u
          BY <2>1, <3>5, <4>1, <4>2 DEF StoreFile
        <4>4. Len(u) = Len(gFileData) + 1 /\ u[Len(gFileData) + 1] = e
          BY <2>3, <4>2, AppendIs
        <4>5. gIndex + 1 \in 1 .. Len(u) /\ u[gIndex + 1] = FileData(gArgs.pkg, src)
          BY <2>2, <2>3, <4>1, <4>4
        <4>6. Recorded(d, u)
          BY <2>3, <3>2, <4>5, DescriptionIs
        <4>7. \A x \in Gathered : Recorded(x, u)
          BY <2>2, <2>3, <4>2, RecordedStays
        <4> QED BY <2>2, <3>3, <4>3, <4>4, <4>6, <4>7
      <3> QED BY <3>1, <3>4, <3>5 DEF AddsFile
    <2> QED BY <2>1, <2>5, <2>6 DEF Adds
  <1>3. CASE UNCHANGED genVars
    <2>1. /\ gpc' = gpc /\ gArgs' = gArgs /\ gArrays' = gArrays /\ gLogo' = gLogo
          /\ gFileData' = gFileData /\ gIndex' = gIndex
      BY <1>3 DEF genVars, treeVars
    <2>2. Running /\ ~ gArgs.pkg.stub /\ Gathered' = Gathered
      BY <2>1 DEF Running, Gathered
    <2> QED BY <2>1, <2>2 DEF RecordInv
  <1> QED BY <1>1, <1>2, <1>3

LEMMA RecordNext == BothInv /\ RecordInv /\ [Next]_allVars => RecordInv'
  <1> SUFFICES ASSUME BothInv, RecordInv, [Next]_allVars PROVE RecordInv'
    OBVIOUS
  <1>1. FilesRecorded'
    <2>1. ASSUME NEW f \in File, IsSis(disk'[f])
          PROVE  AllRecorded(ControllerOf(disk'[f]), UnitsOf(disk'[f])[1])
      <3>1. PICK v : v = disk'[f]
        OBVIOUS
      <3>2. CASE v = disk[f]
        BY <2>1, <3>1, <3>2 DEF RecordInv, FilesRecorded
      <3>3. CASE FileMade(v)
        BY <3>1, <3>3, MadeRecorded
      <3>4. CASE FileSigned(v)
        BY <3>1, <3>4 DEF FileSigned, RecordInv
      <3> QED BY <2>1, <3>1, <3>2, <3>3, <3>4, AllStep DEF FilesStep
    <2> QED BY <2>1 DEF FilesRecorded
  <1>2. Working' => AllRecorded(sController'.iField, HeldUnits'[1])
    <2>1. LoadsFile => AllRecorded(sController'.iField, HeldUnits'[1])
      BY DEF LoadsFile, RecordInv, FilesRecorded
    <2>2. GoesOn => AllRecorded(sController'.iField, HeldUnits'[1])
      BY AlikeRecorded DEF GoesOn, RecordInv
    <2> QED BY <2>1, <2>2, AllStep
  <1>3. Running' /\ ~ gArgs'.pkg.stub =>
          Len(gFileData') = gIndex' /\ \A d \in Gathered' : Recorded(d, gFileData')
    BY GenInvAlways, GatherNext DEF BothInv
  <1> QED BY <1>1, <1>2, <1>3 DEF RecordInv

LEMMA RecordInit == FilesRecorded /\ Init => RecordInv
  <1> SUFFICES ASSUME FilesRecorded, Init PROVE RecordInv
    OBVIOUS
  <1>1. spc = "idle" /\ gpc = "idle"
    BY DEF Init, SignInit, GenInit
  <1> QED
    BY <1>1 DEF RecordInv, Working, Running

(* In a directory whose packages are right about their files, every        *)
(* package that is made or signed there is right about its own: each       *)
(* description of its controller gives the place of a stored file, the     *)
(* size that it has there as it is compressed, and its hash (sisfilegen.cpp *)
(* GetFileDescription and GenerateSISFile).                                *)
THEOREM FilesStayRecorded == FilesRecorded /\ Spec => []FilesRecorded
  <1>1. FilesRecorded /\ Init => BothInv /\ RecordInv
    BY BothInit, RecordInit
  <1>2. BothInv /\ RecordInv /\ [Next]_allVars => BothInv' /\ RecordInv'
    BY BothNext, RecordNext
  <1>3. RecordInv => FilesRecorded
    BY DEF RecordInv
  <1> QED
    BY <1>1, <1>2, <1>3, PTL DEF Spec

(* So the lengths that an installer shows and checks are those of the data *)
(* in the file (sisfilegen.cpp GetFileDescription).                        *)
THEOREM LengthsStayRecorded == FilesRecorded /\ Spec => []LengthsRecorded
  <1>1. FilesRecorded => LengthsRecorded
    <2> SUFFICES ASSUME FilesRecorded PROVE LengthsRecorded
      OBVIOUS
    <2>1. ASSUME NEW f \in SisFiles, NEW d \in Descriptions(ControllerOf(f)), d.hash # NULL
          PROVE  d.length = SizeOf(UnitsOf(f)[1][d.index + 1].buffer)
      <3>1. PICK n \in File : IsSis(disk[n]) /\ f = disk[n]
        BY DEF SisFiles
      <3>2. Recorded(d, UnitsOf(f)[1])
        BY <3>1 DEF FilesRecorded, AllRecorded
      <3> QED BY <2>1, <3>2 DEF Recorded
    <2> QED BY <2>1 DEF LengthsRecorded
  <1> QED
    BY <1>1, FilesStayRecorded, PTL

-----------------------------------------------------------------------------
(***************************************************************************)
(* A controller without its data index, and with another one.              *)
(***************************************************************************)
LEMMA SignableIs ==
  ASSUME NEW c, IsList(c), DataIndexLast(c)
  PROVE  /\ IsList(Signable(c)) /\ Len(Signable(c)) = Len(c) - 1
         /\ \A i \in 1 .. Len(c) - 1 : Signable(c)[i] = c[i]
         /\ \A type : Children(Signable(c), type) = Children(c, type)
         /\ Logos(Signable(c)) = Logos(c)
  <1>1. /\ Len(c) \in Nat \ {0} /\ FirstPosition(c, "SISDataIndex") = Len(c)
        /\ c[Len(c)].id = "SISDataIndex"
    BY IndexIs
  <1>2. Len(c) \in 1 .. Len(c)
    BY <1>1
  <1>3. HasElement(c, "SISDataIndex")
    BY DEF HasElement, DataIndexLast
  <1>4. PICK d : d = Without(c, Len(c))
    OBVIOUS
  <1>5. Signable(c) = d
    BY <1>1, <1>3, <1>4 DEF Signable, FindRemoveElement
  <1>6. IsList(d) /\ Len(d) = Len(c) - 1 /\ \A i \in 1 .. Len(c) - 1 : d[i] = c[i]
    BY <1>2, <1>4, WithoutIs
  <1>7. ASSUME NEW type \in {"SISInstallBlock", "SISLogo"}
        PROVE  OfType(d, type) = OfType(c, type)
    <2>1. c[Len(c)].id # type
      BY <1>1
    <2> QED BY <1>2, <1>4, <2>1, WithoutOfType
  <1>8. ASSUME NEW type PROVE Children(d, type) = Children(c, type)
    <2>1. OfType(d, "SISInstallBlock") = OfType(c, "SISInstallBlock")
      BY <1>7
    <2> QED BY <2>1, PartsIs, Zenon
  <1>9. Logos(d) = Logos(c)
    <2>1. OfType(d, "SISLogo") = OfType(c, "SISLogo")
      BY <1>7
    <2> QED BY <2>1, PartsIs, Zenon
  <1> QED BY <1>5, <1>6, <1>8, <1>9

(* A package is embedded with its signatures, and another data index.      *)
LEMMA EmbedControllerIs ==
  ASSUME NEW f, ControllerSound(ControllerOf(f)), NEW n, NEW e, e = EmbedController(f, n)
  PROVE  /\ ControllerSound(e)
         /\ Signable(e) = Signable(ControllerOf(f))
         /\ DataIndexOf(e) = n
  <1>1. PICK c : c = ControllerOf(f)
    OBVIOUS
  <1>2. PICK x : x = SISDataIndex(n)
    OBVIOUS
  <1>3. IsList(c) /\ DataIndexLast(c) /\ ControllerSound(c)
    BY <1>1 DEF ControllerSound
  <1>4. PICK m : m = Len(c)
    OBVIOUS
  <1>5. /\ m \in Nat \ {0} /\ FirstPosition(c, "SISDataIndex") = m
        /\ \A i \in 1 .. m - 1 : c[i].id # "SISDataIndex"
    BY <1>3, <1>4, IndexIs
  <1>6. m \in 1 .. Len(c) /\ m - 1 \in 0 .. Len(c)
    BY <1>4, <1>5
  <1>7. e = [c EXCEPT ![m] = x]
    BY <1>1, <1>2, <1>5, Zenon DEF EmbedController
  <1>8. /\ IsList(e) /\ Len(e) = m /\ e[m] = x
        /\ \A i \in 1 .. m : i # m => e[i] = c[i]
    <2>1. c = [i \in 1 .. m |-> c[i]]
      BY <1>3, <1>4 DEF IsList
    <2>2. e = [i \in 1 .. m |-> IF i = m THEN x ELSE c[i]]
      BY <1>7, <2>1
    <2>3. /\ e = [i \in 1 .. m |-> e[i]]
          /\ \A i \in 1 .. m : e[i] = IF i = m THEN x ELSE c[i]
      BY <2>2
    <2>4. IsList(e) /\ Len(e) = m
      BY <1>5, <2>3, FunctionIsList
    <2>5. m \in 1 .. m
      BY <1>5
    <2> QED BY <2>3, <2>4, <2>5
  <1>9. x.id = "SISDataIndex" /\ x.iValue = n
    BY <1>2 DEF SISDataIndex
  <1>10. \A i \in 1 .. m - 1 : i \in 1 .. m /\ i # m
    BY <1>5
  <1>11. \A i \in 1 .. m - 1 : e[i] = c[i]
    BY <1>8, <1>10
  <1>12. Positions(e, "SISDataIndex") = {m}
    <2>1. ASSUME NEW i \in 1 .. m, e[i].id = "SISDataIndex" PROVE i = m
      <3>1. i # m => i \in 1 .. m - 1
        BY <1>5
      <3> QED BY <1>5, <1>11, <2>1, <3>1
    <2>2. m \in 1 .. m
      BY <1>5
    <2> QED BY <1>8, <1>9, <2>1, <2>2 DEF Positions
  <1>13. DataIndexLast(e)
    BY <1>8, <1>12 DEF DataIndexLast
  <1>14. DataIndexOf(e) = n
    BY <1>8, <1>9, <1>13, IndexIs
  <1>15. ControllerSound(e)
    <2>1. \A i \in (m - 1) + 1 .. Len(e) : i = m
      BY <1>5, <1>8
    <2>2. x.id # SigChain
      BY <1>9 DEF SigChain
    <2>3. \A i \in (m - 1) + 1 .. Len(e) :
            e[i].id = SigChain => e[i].over = SubSeq(e, 1, i - 1)
      BY <1>8, <2>1, <2>2
    <2>4. m - 1 < Len(e) /\ Positions(e, "SISDataIndex") = {Len(e)}
      BY <1>5, <1>8, <1>12
    <2>5. PICK k \in 0 .. Len(c) : k = m - 1
      BY <1>6
    <2>6. /\ k < Len(e) /\ \A i \in 1 .. k : e[i] = c[i]
          /\ \A i \in k + 1 .. Len(e) :
               e[i].id = SigChain => e[i].over = SubSeq(e, 1, i - 1)
      BY <1>11, <2>3, <2>4, <2>5
    <2> QED BY <1>3, <1>8, <2>4, <2>6, SoundByPrefixes
  <1>16. Signable(e) = Signable(c)
    <2>1. PICK p : p = Signable(e)
      OBVIOUS
    <2>2. PICK q : q = Signable(c)
      OBVIOUS
    <2>3. IsList(p) /\ Len(p) = m - 1 /\ \A i \in 1 .. m - 1 : p[i] = e[i]
      BY <1>8, <1>13, <2>1, SignableIs
    <2>4. IsList(q) /\ Len(q) = m - 1 /\ \A i \in 1 .. m - 1 : q[i] = c[i]
      BY <1>3, <1>4, <2>2, SignableIs
    <2>5. p = q
      BY <1>11, <2>3, <2>4, ListsEqual
    <2> QED BY <2>1, <2>2, <2>5
  <1> QED BY <1>1, <1>14, <1>15, <1>16

-----------------------------------------------------------------------------
(***************************************************************************)
(* Where the data of an embedded package lies.                             *)
(***************************************************************************)
PlainUnit(unit) == [k \in 1 .. Len(unit) |-> Plain(unit[k])]

LEMMA PlainUnitsIs ==
  ASSUME NEW units, IsList(units)
  PROVE  /\ IsList(PlainUnits(units)) /\ Len(PlainUnits(units)) = Len(units)
         /\ \A u \in 1 .. Len(units) : PlainUnits(units)[u] = PlainUnit(units[u])
  <1>1. Len(units) \in Nat
    BY DEF IsList
  <1>2. PICK p : p = PlainUnits(units)
    OBVIOUS
  <1>3. p = [u \in 1 .. Len(units) |-> PlainUnit(units[u])]
    BY <1>2 DEF PlainUnits, PlainUnit
  <1>4. p = [u \in 1 .. Len(units) |-> p[u]]
        /\ \A u \in 1 .. Len(units) : p[u] = PlainUnit(units[u])
    BY <1>3
  <1> QED BY <1>1, <1>2, <1>4, FunctionIsList

(* The units q are those of data behind the first n. *)
Lies(q, n, data) ==
  /\ n \in Nat
  /\ n + Len(q) <= Len(data)
  /\ \A u \in 1 .. Len(q) : q[u] = data[n + u]

LEMMA LiesIsSubSeq ==
  ASSUME NEW q, IsList(q), NEW data, IsList(data), NEW n \in Nat
  PROVE  Lies(q, n, data) <=> /\ n + Len(q) <= Len(data)
                              /\ q = SubSeq(data, n + 1, n + Len(q))
  <1>1. PICK m \in Nat : m = Len(q)
    BY DEF IsList
  <1>2. PICK s : s = SubSeq(data, n + 1, n + m)
    OBVIOUS
  <1>3. s = [i \in 1 .. m |-> data[n + i]]
    <2>1. s = [i \in 1 .. (n + m) - (n + 1) + 1 |-> data[i + (n + 1) - 1]]
      BY <1>2, SMTT(30) DEF SubSeq
    <2>2. (n + m) - (n + 1) + 1 = m /\ \A i \in 1 .. m : i + (n + 1) - 1 = n + i
      BY <1>1
    <2> QED BY <2>1, <2>2
  <1>4. s = [i \in 1 .. m |-> s[i]] /\ \A i \in 1 .. m : s[i] = data[n + i]
    BY <1>3
  <1>5. IsList(s) /\ Len(s) = m
    BY <1>1, <1>4, FunctionIsList
  <1>6. q = s <=> \A i \in 1 .. m : q[i] = data[n + i]
    BY <1>1, <1>4, <1>5, ListsEqual
  <1> QED BY <1>1, <1>2, <1>6 DEF Lies

(* Units behind others behind others. *)
LEMMA LiesDeeper ==
  ASSUME NEW q, NEW m, NEW r, IsList(r), NEW n, NEW data, IsList(data),
         IsList(q), Lies(q, m, r), Lies(r, n, data)
  PROVE  Lies(q, n + m, data)
  <1>1. /\ m \in Nat /\ n \in Nat /\ Len(q) \in Nat /\ Len(r) \in Nat /\ Len(data) \in Nat
        /\ m + Len(q) <= Len(r) /\ n + Len(r) <= Len(data)
    BY DEF Lies, IsList
  <1>2. n + m \in Nat /\ (n + m) + Len(q) <= Len(data)
    BY <1>1
  <1>3. ASSUME NEW u \in 1 .. Len(q)
        PROVE  q[u] = data[(n + m) + u]
    <2>1. m + u \in 1 .. Len(r) /\ n + (m + u) = (n + m) + u
      BY <1>1
    <2>2. q[u] = r[m + u]
      BY DEF Lies
    <2>3. r[m + u] = data[n + (m + u)]
      BY <2>1 DEF Lies
    <2> QED BY <2>1, <2>2, <2>3
  <1> QED BY <1>2, <1>3 DEF Lies

LEMMA PlainConcat ==
  ASSUME NEW s, IsList(s), NEW t, IsList(t)
  PROVE  /\ Lies(PlainUnits(s), 0, PlainUnits(s \o t))
         /\ Lies(PlainUnits(t), Len(s), PlainUnits(s \o t))
  <1>1. Len(s) \in Nat /\ Len(t) \in Nat
    BY DEF IsList
  <1>2. PICK r : r = s \o t
    OBVIOUS
  <1>3. /\ IsList(r) /\ Len(r) = Len(s) + Len(t)
        /\ \A i \in 1 .. Len(s) : r[i] = s[i]
        /\ \A i \in 1 .. Len(t) : r[Len(s) + i] = t[i]
    BY <1>2, ConcatIs
  <1>4. PICK a : a = PlainUnits(s)
    OBVIOUS
  <1>5. PICK b : b = PlainUnits(t)
    OBVIOUS
  <1>6. PICK c : c = PlainUnits(r)
    OBVIOUS
  <1>7. Len(a) = Len(s) /\ \A u \in 1 .. Len(s) : a[u] = PlainUnit(s[u])
    BY <1>4, PlainUnitsIs
  <1>8. Len(b) = Len(t) /\ \A u \in 1 .. Len(t) : b[u] = PlainUnit(t[u])
    BY <1>5, PlainUnitsIs
  <1>9. Len(c) = Len(r) /\ \A u \in 1 .. Len(r) : c[u] = PlainUnit(r[u])
    BY <1>3, <1>6, PlainUnitsIs
  <1>10. Lies(a, 0, c)
    <2>1. ASSUME NEW u \in 1 .. Len(a) PROVE a[u] = c[0 + u]
      <3>1. u \in 1 .. Len(s) /\ u \in 1 .. Len(r) /\ 0 + u = u
        BY <1>1, <1>3, <1>7
      <3> QED BY <1>3, <1>7, <1>9, <3>1
    <2>2. 0 + Len(a) <= Len(c)
      BY <1>1, <1>3, <1>7, <1>9
    <2> QED BY <2>1, <2>2 DEF Lies
  <1>11. Lies(b, Len(s), c)
    <2>1. ASSUME NEW u \in 1 .. Len(b) PROVE b[u] = c[Len(s) + u]
      <3>1. u \in 1 .. Len(t) /\ Len(s) + u \in 1 .. Len(r)
        BY <1>1, <1>3, <1>8
      <3> QED BY <1>3, <1>8, <1>9, <3>1
    <2>2. Len(s) + Len(b) <= Len(c)
      BY <1>3, <1>8, <1>9
    <2> QED BY <1>1, <2>1, <2>2 DEF Lies
  <1> QED BY <1>2, <1>4, <1>5, <1>6, <1>10, <1>11

(* Recompressing leaves the plain data. *)
LEMMA EmbedUnitsPlain ==
  ASSUME NEW pkg, NEW f, UnitsReadable(UnitsOf(f))
  PROVE  PlainUnits(EmbedUnits(pkg, f)) = PlainUnits(UnitsOf(f))
  <1>1. PICK s : s = UnitsOf(f)
    OBVIOUS
  <1>2. PICK e : e = EmbedUnits(pkg, f)
    OBVIOUS
  <1>3. /\ IsList(e) /\ Len(e) = Len(s)
        /\ \A u \in 1 .. Len(e) :
             /\ Len(e[u]) = Len(s[u])
             /\ \A k \in 1 .. Len(e[u]) : Plain(e[u][k]) = Plain(s[u][k])
    BY <1>1, <1>2, EmbedUnitsIs DEF UnitsReadable
  <1>4. IsList(s)
    BY <1>1 DEF UnitsReadable
  <1>5. ASSUME NEW u \in 1 .. Len(e) PROVE PlainUnit(e[u]) = PlainUnit(s[u])
    BY <1>3 DEF PlainUnit
  <1>6. PICK a : a = PlainUnits(e)
    OBVIOUS
  <1>7. PICK b : b = PlainUnits(s)
    OBVIOUS
  <1>8. IsList(a) /\ Len(a) = Len(e) /\ \A u \in 1 .. Len(e) : a[u] = PlainUnit(e[u])
    BY <1>3, <1>6, PlainUnitsIs
  <1>9. IsList(b) /\ Len(b) = Len(e) /\ \A u \in 1 .. Len(e) : b[u] = PlainUnit(s[u])
    BY <1>3, <1>4, <1>7, PlainUnitsIs
  <1>10. a = b
    BY <1>5, <1>8, <1>9, ListsEqual
  <1> QED BY <1>1, <1>2, <1>6, <1>7, <1>10

-----------------------------------------------------------------------------
(***************************************************************************)
(* Embedded packages: in a finished package, and while it is collected.    *)
(***************************************************************************)
Intact(e, data, packages) ==
  \E q \in packages :
    /\ q.signable = Signable(e)
    /\ DataIndexOf(e) + Len(q.data) <= Len(data)
    /\ q.data = SubSeq(data, DataIndexOf(e) + 1, DataIndexOf(e) + Len(q.data))

(* The generator's own data unit will come before the others. *)
Placed(e, units, packages) ==
  \E q \in packages :
    /\ q.signable = Signable(e)
    /\ IsList(q.data)
    /\ DataIndexOf(e) \in Nat \ {0}
    /\ Lies(q.data, DataIndexOf(e) - 1, PlainUnits(units))

GatheredPackages == InArrays(gArrays, "SISController")

EmbedInv ==
  /\ EmbeddedIntact
  /\ FilesPublished
  /\ Working => \A e \in Embedded(sController.iField) :
                  Intact(e, PlainUnits(HeldUnits), published)
  /\ Running => \A e \in GatheredPackages : Placed(e, gUnits, published)

LEMMA IntactMore ==
  ASSUME NEW x, NEW y, x \subseteq y, NEW e, NEW data, Intact(e, data, x)
  PROVE  Intact(e, data, y)
  BY DEF Intact

LEMMA PlacedMore ==
  ASSUME NEW x, NEW y, x \subseteq y, NEW e, NEW units, Placed(e, units, x)
  PROVE  Placed(e, units, y)
  BY DEF Placed

LEMMA EmbeddedIntactIs ==
  EmbeddedIntact <=>
    \A p \in published : \A e \in Embedded(p.signable) : Intact(e, p.data, published)
  BY Zenon DEF EmbeddedIntact, Intact

(* What is placed behind other units stays there. *)
LEMMA PlacedStays ==
  ASSUME NEW units, IsList(units), NEW more, IsList(more),
         NEW e, NEW packages, Placed(e, units, packages)
  PROVE  Placed(e, units \o more, packages)
  <1>1. PICK q \in packages : /\ q.signable = Signable(e) /\ IsList(q.data)
                              /\ DataIndexOf(e) \in Nat \ {0}
                              /\ Lies(q.data, DataIndexOf(e) - 1, PlainUnits(units))
    BY DEF Placed
  <1>2. PICK m : m = DataIndexOf(e) - 1
    OBVIOUS
  <1>3. PICK r : r = PlainUnits(units)
    OBVIOUS
  <1>4. PICK d : d = PlainUnits(units \o more)
    OBVIOUS
  <1>5. Lies(r, 0, d)
    BY <1>3, <1>4, PlainConcat
  <1>6. IsList(r) /\ IsList(d)
    BY <1>3, <1>4, PlainUnitsIs, ConcatIs
  <1>7. Lies(q.data, m, r)
    BY <1>1, <1>2, <1>3
  <1>8. Lies(q.data, 0 + m, d)
    BY <1>1, <1>5, <1>6, <1>7, LiesDeeper
  <1>9. 0 + m = m
    BY <1>1, <1>2
  <1> QED BY <1>1, <1>2, <1>4, <1>8, <1>9 DEF Placed

(* Behind the package's own unit it is where its index says. *)
LEMMA PlacedIntact ==
  ASSUME NEW unit, NEW units, IsList(units), NEW e, NEW packages, Placed(e, units, packages)
  PROVE  Intact(e, PlainUnits(<<unit>> \o units), packages)
  <1>1. PICK q \in packages : /\ q.signable = Signable(e) /\ IsList(q.data)
                              /\ DataIndexOf(e) \in Nat \ {0}
                              /\ Lies(q.data, DataIndexOf(e) - 1, PlainUnits(units))
    BY DEF Placed
  <1>2. PICK m : m = DataIndexOf(e) - 1
    OBVIOUS
  <1>3. PICK r : r = PlainUnits(units)
    OBVIOUS
  <1>4. PICK d : d = PlainUnits(<<unit>> \o units)
    OBVIOUS
  <1>5. IsList(<<unit>>) /\ Len(<<unit>>) = 1
    BY OneIs
  <1>6. Lies(r, 1, d)
    BY <1>3, <1>4, <1>5, PlainConcat
  <1>7. IsList(r) /\ IsList(d)
    BY <1>3, <1>4, <1>5, PlainUnitsIs, ConcatIs
  <1>8. Lies(q.data, m, r)
    BY <1>1, <1>2, <1>3
  <1>9. Lies(q.data, 1 + m, d)
    BY <1>1, <1>6, <1>7, <1>8, LiesDeeper
  <1>10. PICK k \in Nat : k = DataIndexOf(e) /\ 1 + m = k
    BY <1>1, <1>2
  <1>11. k + Len(q.data) <= Len(d) /\ q.data = SubSeq(d, k + 1, k + Len(q.data))
    BY <1>1, <1>7, <1>9, <1>10, LiesIsSubSeq
  <1> QED BY <1>1, <1>4, <1>10, <1>11 DEF Intact

(* The package that is embedded is placed behind those before it. *)
LEMMA NewPlaced ==
  ASSUME NEW units, IsList(units), NEW pkg, NEW f,
         ControllerSound(ControllerOf(f)), UnitsReadable(UnitsOf(f)),
         NEW packages, StoredPackage(f) \in packages
  PROVE  Placed(EmbedController(f, 1 + Len(units)), units \o EmbedUnits(pkg, f), packages)
  <1>1. PICK n : n = 1 + Len(units)
    OBVIOUS
  <1>2. PICK e : e = EmbedController(f, n)
    OBVIOUS
  <1>3. PICK more : more = EmbedUnits(pkg, f)
    OBVIOUS
  <1>4. Len(units) \in Nat
    BY DEF IsList
  <1>5. Signable(e) = Signable(ControllerOf(f)) /\ DataIndexOf(e) = n
    BY <1>2, EmbedControllerIs
  <1>6. n \in Nat \ {0} /\ n - 1 = Len(units)
    BY <1>1, <1>4
  <1>7. PICK q : q = StoredPackage(f)
    OBVIOUS
  <1>8. q \in packages /\ q.signable = Signable(e) /\ q.data = PlainUnits(UnitsOf(f))
    BY <1>5, <1>7 DEF StoredPackage, Package
  <1>9. IsList(more) /\ q.data = PlainUnits(more)
    BY <1>3, <1>8, EmbedUnitsIs, EmbedUnitsPlain DEF UnitsReadable
  <1>10. IsList(q.data)
    BY <1>9, PlainUnitsIs
  <1>11. Lies(q.data, Len(units), PlainUnits(units \o more))
    BY <1>9, PlainConcat
  <1> QED BY <1>1, <1>2, <1>3, <1>5, <1>6, <1>8, <1>10, <1>11 DEF Placed

LEMMA PlaceNext ==
  ASSUME BothInv, EmbedInv, Running', published \subseteq published',
         GenInfo \/ GenGoesOn \/ UNCHANGED genVars
  PROVE  \A e \in GatheredPackages' : Placed(e, gUnits', published')
  <1>1. CASE GenInfo
    <2>1. GatheredPackages' = {}
      BY <1>1, GenInfoStep DEF BothInv, GatheredPackages
    <2> QED BY <2>1
  <1>2. CASE GenGoesOn
    <2>1. Adds /\ Running /\ IsList(gUnits)
      BY <1>2 DEF GenGoesOn, BothInv, ToolsInv, GenReadable, UnitsReadable
    <2>2. \A e \in GatheredPackages : Placed(e, gUnits, published')
      BY <2>1, PlacedMore DEF EmbedInv
    <2>3. CASE AddsNothing \/ \E src : AddsFile(src)
      <3>1. GatheredPackages' = GatheredPackages /\ gUnits' = gUnits
        BY <2>3 DEF AddsNothing, AddsFile, Collected, GatheredPackages
      <3> QED BY <2>2, <3>1
    <2>4. CASE \E line : AddsPackage(line)
      <3>1. PICK line : AddsPackage(line)
        BY <2>4
      <3>2. PICK f : f = disk[line.src]
        OBVIOUS
      <3>3. PICK e : e = EmbedController(f, 1 + Len(gUnits))
        OBVIOUS
      <3>4. PICK more : more = EmbedUnits(gArgs.pkg, f)
        OBVIOUS
      <3>5. /\ line.src \in File /\ IsSis(f)
            /\ GatheredPackages' = GatheredPackages \cup {e}
            /\ gUnits' = gUnits \o more
        BY <3>1, <3>2, <3>3, <3>4 DEF AddsPackage, CanEmbed, Collected, GatheredPackages
      <3>6. /\ ControllerSound(ControllerOf(f)) /\ UnitsReadable(UnitsOf(f))
            /\ StoredPackage(f) \in published'
        BY <3>2, <3>5 DEF BothInv, ToolsInv, CarryInv, StoredInv, SignInv, FilesSound,
                          FileSound, DiskReadable, EmbedInv, FilesPublished
      <3>7. Placed(e, gUnits', published')
        BY <2>1, <3>3, <3>4, <3>5, <3>6, NewPlaced
      <3>8. IsList(more)
        BY <3>4, <3>6, EmbedUnitsIs DEF UnitsReadable
      <3>9. \A x \in GatheredPackages : Placed(x, gUnits', published')
        BY <2>1, <2>2, <3>5, <3>8, PlacedStays
      <3> QED BY <3>5, <3>7, <3>9
    <2> QED BY <2>1, <2>3, <2>4 DEF Adds
  <1>3. CASE UNCHANGED genVars
    <2>1. gpc' = gpc /\ gArrays' = gArrays /\ gUnits' = gUnits
      BY <1>3 DEF genVars, treeVars
    <2>2. Running /\ GatheredPackages' = GatheredPackages
      BY <2>1 DEF Running, GatheredPackages
    <2> QED BY <2>1, <2>2, PlacedMore DEF EmbedInv
  <1> QED BY <1>1, <1>2, <1>3

(* What signsis works on is sound at every point. *)
LEMMA HeldSound ==
  ASSUME CarryInv, Working
  PROVE  ControllerSound(sController.iField)
  <1>1. EditSound /\ OutputSound /\ ReadyIsResult
    BY DEF CarryInv, StoredInv, SignInv
  <1>2. CASE spc \in {"sign", "remove", "rebuild"}
    BY <1>1, <1>2 DEF EditSound
  <1>3. CASE spc \in {"open", "write"}
    <2>1. ControllerSound(ControllerOf(SisFile(sUid, sContents)))
      BY <1>1, <1>3 DEF OutputSound, FileSound
    <2>2. ControllerOf(SisFile(sUid, sContents)) = sController.iField
      BY <1>1, <1>3 DEF ReadyIsResult, ControllerOf, SisFile
    <2> QED BY <2>1, <2>2
  <1> QED BY <1>2, <1>3 DEF Working

(* What a package embeds, whether or not its data index is on it. *)
LEMMA EmbeddedOf ==
  ASSUME NEW c, ControllerSound(c)
  PROVE  Embedded(Signable(c)) = Embedded(c)
  BY SignableIs DEF ControllerSound, Embedded

(* Every new package has its embedded packages where it says. *)
LEMMA MadeIntact ==
  ASSUME BothInv, EmbedInv, NEW f, FileMade(f) \/ FileSigned(f)
  PROVE  \A e \in Embedded(StoredPackage(f).signable) :
           Intact(e, StoredPackage(f).data, published)
  <1>1. PICK p : p = StoredPackage(f)
    OBVIOUS
  <1>2. p.signable = Signable(ControllerOf(f)) /\ p.data = PlainUnits(UnitsOf(f))
    BY <1>1 DEF StoredPackage, Package
  <1>3. CASE FileMade(f)
    <2>1. /\ Running
          /\ ControllerOf(f) = Controller /\ UnitsOf(f) = <<gFileData>> \o gUnits
      BY <1>3 DEF FileMade
    <2>2. LogoOK /\ Tree(gArrays) /\ IsList(gUnits)
      BY <2>1 DEF BothInv, ToolsInv, GenShape, GenInv, TreeInv, GenReadable, UnitsReadable
    <2>3. Embedded(p.signable) = GatheredPackages
      BY <1>2, <2>1, <2>2, EmbeddedOf, ControllerIsSound, NewControllerParts
         DEF Embedded, GatheredPackages
    <2>4. ASSUME NEW e \in GatheredPackages PROVE Intact(e, p.data, published)
      <3>1. Placed(e, gUnits, published)
        BY <2>1 DEF EmbedInv
      <3>2. Intact(e, PlainUnits(<<gFileData>> \o gUnits), published)
        BY <2>2, <3>1, PlacedIntact
      <3> QED BY <1>2, <2>1, <3>2
    <2> QED BY <1>1, <2>3, <2>4
  <1>4. CASE FileSigned(f)
    <2>1. Working /\ ControllerOf(f) = sController.iField /\ UnitsOf(f) = HeldUnits
      BY <1>4 DEF FileSigned
    <2>2. Embedded(p.signable) = Embedded(sController.iField)
      BY <1>2, <2>1, HeldSound, EmbeddedOf DEF BothInv, ToolsInv
    <2>3. \A e \in Embedded(sController.iField) : Intact(e, p.data, published)
      BY <1>2, <2>1 DEF EmbedInv
    <2> QED BY <1>1, <2>2, <2>3
  <1> QED BY <1>3, <1>4

LEMMA EmbedNext == BothInv /\ EmbedInv /\ [Next]_allVars => EmbedInv'
  <1> SUFFICES ASSUME BothInv, EmbedInv, [Next]_allVars PROVE EmbedInv'
    OBVIOUS
  <1>1. /\ FilesStep /\ published \subseteq published' /\ CarryInv /\ FilesPublished
        /\ FilesPublished'
    BY AllStep, FilesPublishedNext DEF FilesStep, EmbedInv, BothInv, ToolsInv
  <1>2. ASSUME NEW p \in published', NEW e \in Embedded(p.signable)
        PROVE  Intact(e, p.data, published')
    <2>1. CASE p \in published
      BY <1>1, <2>1, EmbeddedIntactIs, IntactMore DEF EmbedInv
    <2>2. CASE \E f : (FileMade(f) \/ FileSigned(f)) /\ p = StoredPackage(f)
      <3>1. PICK f : (FileMade(f) \/ FileSigned(f)) /\ p = StoredPackage(f)
        BY <2>2
      <3>2. Intact(e, p.data, published)
        BY <3>1, MadeIntact
      <3> QED BY <1>1, <3>2, IntactMore
    <2> QED BY <1>1, <2>1, <2>2 DEF FilesStep
  <1>3. EmbeddedIntact'
    <2>1. EmbeddedIntact' <=>
            \A p \in published' : \A e \in Embedded(p.signable) :
              Intact(e, p.data, published')
      BY Zenon DEF EmbeddedIntact, Intact
    <2> QED BY <1>2, <2>1
  <1>4. ASSUME Working', NEW e \in Embedded(sController'.iField)
        PROVE  Intact(e, PlainUnits(HeldUnits'), published')
    <2>1. CASE LoadsFile
      <3>1. PICK in \in File : /\ IsSis(disk[in])
                               /\ sController'.iField = ControllerOf(disk[in])
                               /\ HeldUnits' = UnitsOf(disk[in])
        BY <2>1 DEF LoadsFile
      <3>2. PICK f : f = disk[in]
        OBVIOUS
      <3>3. ControllerSound(ControllerOf(f)) /\ StoredPackage(f) \in published
        BY <1>1, <3>1, <3>2
           DEF CarryInv, StoredInv, SignInv, FilesSound, FileSound, FilesPublished
      <3>4. /\ StoredPackage(f).signable = Signable(ControllerOf(f))
            /\ StoredPackage(f).data = PlainUnits(HeldUnits')
        BY <3>1, <3>2 DEF StoredPackage, Package
      <3>5. e \in Embedded(StoredPackage(f).signable)
        BY <1>4, <3>1, <3>2, <3>3, <3>4, EmbeddedOf
      <3>6. Intact(e, StoredPackage(f).data, published)
        BY <3>3, <3>5, EmbeddedIntactIs DEF EmbedInv
      <3> QED BY <1>1, <3>4, <3>6, IntactMore
    <2>2. CASE GoesOn
      <3>1. Embedded(sController'.iField) = Embedded(sController.iField)
        BY <2>2 DEF GoesOn, Alike, Embedded
      <3>2. Working /\ HeldUnits' = HeldUnits
        BY <2>2 DEF GoesOn
      <3>3. Intact(e, PlainUnits(HeldUnits), published)
        BY <1>4, <3>1, <3>2 DEF EmbedInv
      <3> QED BY <1>1, <3>2, <3>3, IntactMore
    <2> QED BY <1>4, <2>1, <2>2, AllStep
  <1>5. Running' => \A e \in GatheredPackages' : Placed(e, gUnits', published')
    BY <1>1, PlaceNext, GenInvAlways DEF BothInv
  <1>6. Working' => \A e \in Embedded(sController'.iField) :
                      Intact(e, PlainUnits(HeldUnits'), published')
    BY <1>4
  <1> QED BY <1>1, <1>3, <1>5, <1>6, Zenon DEF EmbedInv

LEMMA EmbedInit == EmbeddedIntact /\ Init => EmbedInv
  <1> SUFFICES ASSUME EmbeddedIntact, Init PROVE EmbedInv
    OBVIOUS
  <1>1. spc = "idle" /\ gpc = "idle"
    BY DEF Init, SignInit, GenInit
  <1> QED BY <1>1, FilesPublishedInit DEF EmbedInv, Working, Running

(* Where the packages of the directory hold what they embed, every package *)
(* that is made or signed does: what is embedded is, but for its data      *)
(* index, a package that was written, and the units from that index on are *)
(* its own.  Adding units for further packages, signing the package around *)
(* it and embedding that one in turn leave this as it was (sisfilegen.cpp  *)
(* LoadEmbeddedSis and GenerateSISFile, signsis.cpp main).                 *)
THEOREM EmbeddedStaysIntact == EmbeddedIntact /\ Spec => []EmbeddedIntact
  <1>1. EmbeddedIntact /\ Init => BothInv /\ EmbedInv
    BY BothInit, EmbedInit
  <1>2. BothInv /\ EmbedInv /\ [Next]_allVars => BothInv' /\ EmbedInv'
    BY BothNext, EmbedNext
  <1>3. EmbedInv => EmbeddedIntact
    BY DEF EmbedInv
  <1> QED
    BY <1>1, <1>2, <1>3, PTL DEF Spec

-----------------------------------------------------------------------------
(***************************************************************************)
(* Packages in packages, at every depth.                                   *)
(***************************************************************************)
Below(x) == {<<e, x[2] + DataIndexOf(e)>> : e \in Embedded(x[1])}

Deeper(above) == UNION {Below(x) : x \in above}

(* What holds of the outermost controller and is handed down holds at      *)
(* every depth: the recursion of Nested, level by level.                   *)
LEMMA NestedWithin ==
  ASSUME NEW c, NEW R, <<c, DataIndexOf(c)>> \in R, \A x \in R : Below(x) \subseteq R
  PROVE  Nested(c) \subseteq R
  <1> DEFINE level[n \in 0 .. MaxNesting] ==
               IF n = 0 THEN {<<c, DataIndexOf(c)>>} ELSE Deeper(level[n - 1])
  <1>1. Nested(c) = UNION {level[n] : n \in 0 .. MaxNesting}
    BY Zenon DEF Nested, Deeper, Below
  <1>2. level = CHOOSE f : f = [n \in 0 .. MaxNesting |->
                  IF n = 0 THEN {<<c, DataIndexOf(c)>>} ELSE Deeper(f[n - 1])]
    BY Zenon DEF level
  <1> HIDE DEF level
  <1>3. PICK N \in Nat : N = MaxNesting
    BY NestingAssumption
  <1>4. PICK first : first = {<<c, DataIndexOf(c)>>}
    OBVIOUS
  <1>5. PICK S : S = SUBSET R
    OBVIOUS
  <1>6. first \in S
    BY <1>4, <1>5
  <1>7. ASSUME NEW s \in S PROVE Deeper(s) \in S
    <2>1. \A x \in s : Below(x) \subseteq R
      BY <1>5
    <2> QED BY <1>5, <2>1 DEF Deeper
  <1>8. PICK g : g = [p \in (1 .. N) \X S |-> Deeper(p[2])]
    OBVIOUS
  <1>9. g \in [(1 .. N) \X S -> S]
    <2>1. ASSUME NEW p \in (1 .. N) \X S PROVE Deeper(p[2]) \in S
      <3>1. p[2] \in S
        OBVIOUS
      <3> QED BY <1>7, <3>1
    <2> QED BY <1>8, <2>1
  <1>10. PICK f \in [0 .. N -> S] : Follows(f, N, first, g)
    BY <1>6, <1>9, RecursionExists
  <1>11. \A n \in 1 .. N : f[n] = Deeper(f[n - 1])
    <2>1. ASSUME NEW n \in 1 .. N PROVE f[n] = Deeper(f[n - 1])
      <3>1. f[n] = g[<<n, f[n - 1]>>]
        BY <1>10 DEF Follows
      <3>2. n - 1 \in 0 .. N
        BY <1>3
      <3>3. <<n, f[n - 1]>> \in (1 .. N) \X S
        BY <3>2
      <3> QED BY <1>8, <3>1, <3>3
    <2> QED BY <2>1
  <1>12. f = [n \in 0 .. N |-> IF n = 0 THEN first ELSE Deeper(f[n - 1])]
    <2>1. \A n \in 0 .. N : n = 0 \/ n \in 1 .. N
      OBVIOUS
    <2>2. \A n \in 1 .. N : n # 0
      OBVIOUS
    <2>3. \A n \in 0 .. N : f[n] = IF n = 0 THEN first ELSE Deeper(f[n - 1])
      BY <1>10, <1>11, <2>1, <2>2, Zenon DEF Follows
    <2> QED BY <2>3
  <1>13. level = [n \in 0 .. N |-> IF n = 0 THEN first ELSE Deeper(level[n - 1])]
    BY <1>2, <1>3, <1>4, <1>12, Zenon
  <1>14. level[0] = first /\ \A n \in 1 .. N : level[n] = Deeper(level[n - 1])
    <2>1. 0 \in 0 .. N /\ \A n \in 1 .. N : n \in 0 .. N /\ n # 0
      OBVIOUS
    <2> QED BY <1>13, <2>1, Zenon
  <1>15. PICK T : T = {n \in 0 .. N : level[n] \in S}
    OBVIOUS
  <1>16. 0 \in T
    BY <1>6, <1>14, <1>15
  <1>17. ASSUME NEW n \in 0 .. N - 1, n \in T PROVE n + 1 \in T
    <2>1. n + 1 \in 1 .. N /\ (n + 1) - 1 = n /\ n + 1 \in 0 .. N
      OBVIOUS
    <2>2. level[n] \in S
      BY <1>15, <1>17
    <2>3. level[n + 1] = Deeper(level[n])
      BY <1>14, <2>1
    <2>4. level[n + 1] \in S
      BY <1>7, <2>2, <2>3
    <2> QED BY <1>15, <2>1, <2>4
  <1>18. \A n \in 0 .. N : n \in T
    BY <1>16, <1>17, SetInduction
  <1>19. \A n \in 0 .. MaxNesting : level[n] \subseteq R
    BY <1>3, <1>5, <1>15, <1>18
  <1> QED BY <1>1, <1>19

EmbedsSound(c) == \A e \in Embedded(c) : ControllerSound(e) /\ DataIndexOf(e) \in Nat

(* The outermost package counts from the start of the data. *)
ZeroIndex(c) == \A x \in OfType(c, "SISDataIndex") : x.iValue = 0

Nests(c, units) == Len(units) > 0 /\ ZeroIndex(c) /\ EmbedsSound(c)

PackageSound(p) ==
  /\ IsList(p.data) /\ Len(p.data) > 0
  /\ FilesResolve(p.signable, p.data[1])
  /\ EmbedsSound(p.signable)

(* Where a controller is found in a package, and what it was. *)
Found(x, p) ==
  /\ ControllerSound(x[1])
  /\ \E q \in published : q.signable = Signable(x[1]) /\ Lies(q.data, x[2], p.data)

LEMMA FoundDeeper ==
  ASSUME EmbeddedIntact, \A q \in published : PackageSound(q),
         NEW p \in published, NEW x, Found(x, p), NEW e \in Embedded(x[1])
  PROVE  /\ DataIndexOf(e) \in Nat
         /\ Found(<<e, x[2] + DataIndexOf(e)>>, p)
         /\ \E q \in published : e \in Embedded(q.signable)
  <1>1. PICK q \in published : q.signable = Signable(x[1]) /\ Lies(q.data, x[2], p.data)
    BY DEF Found
  <1>2. e \in Embedded(q.signable)
    BY <1>1, EmbeddedOf DEF Found
  <1>3. PICK i : i = DataIndexOf(e)
    OBVIOUS
  <1>4. ControllerSound(e) /\ i \in Nat
    BY <1>2, <1>3 DEF PackageSound, EmbedsSound
  <1>5. Intact(e, q.data, published)
    BY <1>2, EmbeddedIntactIs
  <1>6. PICK r \in published : /\ r.signable = Signable(e)
                               /\ i + Len(r.data) <= Len(q.data)
                               /\ r.data = SubSeq(q.data, i + 1, i + Len(r.data))
    BY <1>3, <1>5 DEF Intact
  <1>7. IsList(p.data) /\ IsList(q.data) /\ IsList(r.data)
    BY DEF PackageSound
  <1>8. Lies(r.data, i, q.data)
    BY <1>4, <1>6, <1>7, LiesIsSubSeq
  <1>9. Lies(r.data, x[2] + i, p.data)
    BY <1>1, <1>7, <1>8, LiesDeeper
  <1>10. PICK y : y = <<e, x[2] + i>>
    OBVIOUS
  <1>11. y[1] = e /\ y[2] = x[2] + i
    BY <1>10
  <1>12. Found(y, p)
    BY <1>4, <1>6, <1>9, <1>11 DEF Found
  <1> QED BY <1>2, <1>3, <1>4, <1>10, <1>12

(* Every controller in a file is found in its data. *)
LEMMA NestedFound ==
  ASSUME EmbeddedIntact, \A q \in published : PackageSound(q),
         NEW f, StoredPackage(f) \in published,
         ControllerSound(ControllerOf(f)), ZeroIndex(ControllerOf(f)),
         NEW x \in Nested(ControllerOf(f))
  PROVE  Found(x, StoredPackage(f))
  <1>1. PICK c : c = ControllerOf(f)
    OBVIOUS
  <1>2. PICK p \in published : p = StoredPackage(f)
    OBVIOUS
  <1>3. PICK E : E = {c} \cup UNION {Embedded(q.signable) : q \in published}
    OBVIOUS
  <1>4. PICK R : R = {y \in E \X Nat : Found(y, p)}
    OBVIOUS
  <1>5. <<c, DataIndexOf(c)>> \in R
    <2>1. c[Len(c)] \in OfType(c, "SISDataIndex") /\ DataIndexOf(c) = c[Len(c)].iValue
      BY <1>1, IndexIs DEF ControllerSound
    <2>2. DataIndexOf(c) = 0
      BY <1>1, <2>1 DEF ZeroIndex
    <2>3. p.signable = Signable(c)
      BY <1>1, <1>2 DEF StoredPackage, Package
    <2>4. Lies(p.data, 0, p.data)
      <3>1. Len(p.data) \in Nat
        BY DEF PackageSound, IsList
      <3> QED BY <3>1 DEF Lies
    <2>5. PICK y : y = <<c, DataIndexOf(c)>>
      OBVIOUS
    <2>6. y[1] = c /\ y[2] = 0 /\ y \in E \X Nat
      BY <1>3, <2>2, <2>5
    <2>7. Found(y, p)
      BY <1>1, <2>3, <2>4, <2>6 DEF Found
    <2> QED BY <1>4, <2>5, <2>6, <2>7
  <1>6. ASSUME NEW y \in R PROVE Below(y) \subseteq R
    <2>1. y \in E \X Nat /\ Found(y, p)
      BY <1>4
    <2>2. ASSUME NEW e \in Embedded(y[1]) PROVE <<e, y[2] + DataIndexOf(e)>> \in R
      <3>1. /\ DataIndexOf(e) \in Nat
            /\ Found(<<e, y[2] + DataIndexOf(e)>>, p)
            /\ \E q \in published : e \in Embedded(q.signable)
        BY <2>1, FoundDeeper
      <3>2. e \in E
        BY <1>3, <3>1
      <3>3. y[2] + DataIndexOf(e) \in Nat
        BY <2>1, <3>1
      <3> QED BY <1>4, <3>1, <3>2, <3>3
    <2> QED BY <2>2 DEF Below
  <1>7. Nested(c) \subseteq R
    BY <1>5, <1>6, NestedWithin
  <1> QED BY <1>1, <1>2, <1>4, <1>7

(* A package is sound if its controller and its units are right about each *)
(* other, and what it embeds is sound.                                     *)
LEMMA StoredPackageSound ==
  ASSUME NEW f, ControllerSound(ControllerOf(f)), UnitsReadable(UnitsOf(f)),
         Nests(ControllerOf(f), UnitsOf(f)),
         AllRecorded(ControllerOf(f), UnitsOf(f)[1])
  PROVE  PackageSound(StoredPackage(f))
  <1>1. PICK p : p = StoredPackage(f)
    OBVIOUS
  <1>2. PICK c : c = ControllerOf(f)
    OBVIOUS
  <1>3. PICK units : units = UnitsOf(f)
    OBVIOUS
  <1>4. p.signable = Signable(c) /\ p.data = PlainUnits(units)
    BY <1>1, <1>2, <1>3 DEF StoredPackage, Package
  <1>5. IsList(units) /\ Len(units) \in Nat /\ Len(units) > 0
    BY <1>3 DEF UnitsReadable, Nests, IsList
  <1>6. 1 \in 1 .. Len(units)
    BY <1>5
  <1>7. IsList(p.data) /\ Len(p.data) > 0 /\ p.data[1] = PlainUnit(units[1])
    BY <1>4, <1>5, <1>6, PlainUnitsIs
  <1>8. EmbedsSound(p.signable)
    BY <1>2, <1>4, EmbeddedOf DEF EmbedsSound, Nests
  <1>9. Descriptions(p.signable) = Descriptions(c)
    BY <1>2, <1>4, SignableIs DEF ControllerSound, Descriptions
  <1>10. FilesResolve(p.signable, p.data[1])
    <2>1. PICK u : u = units[1]
      OBVIOUS
    <2>2. ASSUME NEW d \in Descriptions(c), d.hash # NULL
          PROVE  /\ d.index + 1 \in DOMAIN PlainUnit(u)
                 /\ d.hash = SHA1(PlainUnit(u)[d.index + 1])
      <3>1. Recorded(d, u)
        BY <1>2, <1>3, <2>1 DEF AllRecorded
      <3>2. d.index + 1 \in 1 .. Len(u) /\ d.hash = SHA1(Plain(u[d.index + 1]))
        BY <2>2, <3>1 DEF Recorded
      <3> QED BY <3>2 DEF PlainUnit
    <2> QED BY <1>7, <1>9, <2>1, <2>2 DEF FilesResolve
  <1> QED BY <1>1, <1>7, <1>8, <1>10 DEF PackageSound

(* What is asked of the files that are there to begin with, and kept.      *)
FilesNest == \A f \in File : IsSis(disk[f]) => Nests(ControllerOf(disk[f]), UnitsOf(disk[f]))

NestInv ==
  /\ FilesNest
  /\ \A p \in published : PackageSound(p)
  /\ Working => Nests(sController.iField, HeldUnits)
  /\ Running => \A e \in GatheredPackages : ControllerSound(e)

AllInv == BothInv /\ RecordInv /\ EmbedInv /\ NestInv

LEMMA AlikeNests ==
  ASSUME NEW c, NEW d, Alike(c, d), NEW units, Nests(d, units)
  PROVE  Nests(c, units)
  BY DEF Alike, Nests, ZeroIndex, EmbedsSound, Embedded

LEMMA MadeNests ==
  ASSUME AllInv, NEW f, FileMade(f)
  PROVE  /\ Nests(ControllerOf(f), UnitsOf(f))
         /\ PackageSound(StoredPackage(f))
  <1>1. /\ Running
        /\ ControllerOf(f) = Controller /\ UnitsOf(f) = <<gFileData>> \o gUnits
    BY DEF FileMade
  <1>2. /\ LogoOK /\ Tree(gArrays) /\ UnitsReadable(gUnits) /\ UnitReadable(gFileData)
    BY <1>1 DEF AllInv, BothInv, ToolsInv, GenShape, GenInv, TreeInv, GenReadable
  <1>3. ControllerSound(Controller)
    BY <1>2, ControllerIsSound
  <1>4. Len(UnitsOf(f)) > 0 /\ UnitsReadable(UnitsOf(f))
    <2>1. PICK s : s = <<gFileData>>
      OBVIOUS
    <2>2. IsList(s) /\ Len(s) = 1 /\ s[1] = gFileData
      BY <2>1, OneIs
    <2>3. UnitsReadable(s)
      <3>1. \A u \in 1 .. Len(s) : u = 1
        BY <2>2
      <3> QED BY <1>2, <2>2, <3>1 DEF UnitsReadable
    <2>4. IsList(gUnits) /\ Len(gUnits) \in Nat
      BY <1>2 DEF UnitsReadable, IsList
    <2>5. Len(s \o gUnits) = 1 + Len(gUnits)
      BY <2>2, <2>4, ConcatIs, SMTT(30)
    <2> QED BY <1>1, <1>2, <2>1, <2>3, <2>4, <2>5, ConcatReadable
  <1>5. ZeroIndex(Controller)
    <2>1. OfType(Controller, "SISDataIndex") = {SISDataIndex(0)}
      BY <1>2, NewControllerIs
    <2>2. SISDataIndex(0).iValue = 0
      BY DEF SISDataIndex
    <2> QED BY <2>1, <2>2 DEF ZeroIndex
  <1>6. EmbedsSound(Controller)
    <2>1. Embedded(Controller) = GatheredPackages
      BY <1>2, NewControllerParts DEF Embedded, GatheredPackages
    <2>2. ASSUME NEW e \in GatheredPackages
          PROVE  ControllerSound(e) /\ DataIndexOf(e) \in Nat
      <3>1. Placed(e, gUnits, published)
        BY <1>1 DEF AllInv, EmbedInv
      <3>2. DataIndexOf(e) \in Nat
        BY <3>1 DEF Placed
      <3> QED BY <1>1, <3>2 DEF AllInv, NestInv
    <2> QED BY <2>1, <2>2 DEF EmbedsSound
  <1>7. Nests(ControllerOf(f), UnitsOf(f))
    BY <1>1, <1>4, <1>5, <1>6 DEF Nests
  <1>8. AllRecorded(ControllerOf(f), UnitsOf(f)[1])
    BY MadeRecorded DEF AllInv
  <1> QED BY <1>1, <1>3, <1>4, <1>7, <1>8, StoredPackageSound

LEMMA SignedNests ==
  ASSUME AllInv, NEW f, FileSigned(f)
  PROVE  /\ Nests(ControllerOf(f), UnitsOf(f))
         /\ PackageSound(StoredPackage(f))
  <1>1. Working /\ ControllerOf(f) = sController.iField /\ UnitsOf(f) = HeldUnits
    BY DEF FileSigned
  <1>2. ControllerSound(sController.iField) /\ UnitsReadable(HeldUnits)
    BY <1>1, HeldSound DEF AllInv, BothInv, ToolsInv
  <1>3. Nests(sController.iField, HeldUnits) /\ AllRecorded(sController.iField, HeldUnits[1])
    BY <1>1 DEF AllInv, NestInv, RecordInv
  <1> QED BY <1>1, <1>2, <1>3, StoredPackageSound

(* What is collected to be embedded is sound. *)
LEMMA GatheredSoundNext ==
  ASSUME AllInv, Running', GenInfo \/ GenGoesOn \/ UNCHANGED genVars
  PROVE  \A e \in GatheredPackages' : ControllerSound(e)
  <1>1. CASE GenInfo
    <2>1. GatheredPackages' = {}
      BY <1>1, GenInfoStep DEF AllInv, BothInv, GatheredPackages
    <2> QED BY <2>1
  <1>2. CASE GenGoesOn
    <2>1. Adds /\ Running
      BY <1>2 DEF GenGoesOn
    <2>2. \A e \in GatheredPackages : ControllerSound(e)
      BY <2>1 DEF AllInv, NestInv
    <2>3. CASE AddsNothing \/ \E src : AddsFile(src)
      <3>1. GatheredPackages' = GatheredPackages
        BY <2>3 DEF AddsNothing, AddsFile, Collected, GatheredPackages
      <3> QED BY <2>2, <3>1
    <2>4. CASE \E line : AddsPackage(line)
      <3>1. PICK line : AddsPackage(line)
        BY <2>4
      <3>2. PICK f : f = disk[line.src]
        OBVIOUS
      <3>3. PICK e : e = EmbedController(f, 1 + Len(gUnits))
        OBVIOUS
      <3>4. /\ line.src \in File /\ IsSis(f)
            /\ GatheredPackages' = GatheredPackages \cup {e}
        BY <3>1, <3>2, <3>3 DEF AddsPackage, CanEmbed, Collected, GatheredPackages
      <3>5. ControllerSound(ControllerOf(f))
        BY <3>2, <3>4 DEF AllInv, BothInv, ToolsInv, CarryInv, StoredInv, SignInv,
                          FilesSound, FileSound
      <3>6. ControllerSound(e)
        BY <3>3, <3>5, EmbedControllerIs
      <3> QED BY <2>2, <3>4, <3>6
    <2> QED BY <2>1, <2>3, <2>4 DEF Adds
  <1>3. CASE UNCHANGED genVars
    <2>1. gpc' = gpc /\ gArrays' = gArrays
      BY <1>3 DEF genVars, treeVars
    <2>2. Running /\ GatheredPackages' = GatheredPackages
      BY <2>1 DEF Running, GatheredPackages
    <2> QED BY <2>2 DEF AllInv, NestInv
  <1> QED BY <1>1, <1>2, <1>3

LEMMA NestNext == AllInv /\ [Next]_allVars => NestInv'
  <1> SUFFICES ASSUME AllInv, [Next]_allVars PROVE NestInv'
    OBVIOUS
  <1>1. BothInv /\ RecordInv /\ EmbedInv /\ NestInv /\ FilesStep
    BY AllStep DEF AllInv
  <1>2. FilesNest'
    <2>1. ASSUME NEW f \in File, IsSis(disk'[f])
          PROVE  Nests(ControllerOf(disk'[f]), UnitsOf(disk'[f]))
      <3>1. PICK v : v = disk'[f]
        OBVIOUS
      <3>2. CASE v = disk[f]
        BY <1>1, <2>1, <3>1, <3>2 DEF NestInv, FilesNest
      <3>3. CASE FileMade(v) \/ FileSigned(v)
        BY <3>1, <3>3, MadeNests, SignedNests
      <3> QED BY <1>1, <2>1, <3>1, <3>2, <3>3 DEF FilesStep
    <2> QED BY <2>1 DEF FilesNest
  <1>3. ASSUME NEW p \in published' PROVE PackageSound(p)
    <2>1. CASE p \in published
      BY <1>1, <2>1 DEF NestInv
    <2>2. CASE \E f : (FileMade(f) \/ FileSigned(f)) /\ p = StoredPackage(f)
      BY <2>2, MadeNests, SignedNests
    <2> QED BY <1>1, <2>1, <2>2 DEF FilesStep
  <1>4. Working' => Nests(sController'.iField, HeldUnits')
    <2>1. LoadsFile => Nests(sController'.iField, HeldUnits')
      BY <1>1 DEF LoadsFile, NestInv, FilesNest
    <2>2. GoesOn => Nests(sController'.iField, HeldUnits')
      BY <1>1, AlikeNests DEF GoesOn, NestInv
    <2> QED BY <1>1, <2>1, <2>2, AllStep
  <1>5. Running' => \A e \in GatheredPackages' : ControllerSound(e)
    BY <1>1, GatheredSoundNext, GenInvAlways DEF BothInv
  <1> QED BY <1>2, <1>3, <1>4, <1>5 DEF NestInv, PackageSound

(* The packages to begin with. *)
DirectorySound == EmbeddedIntact /\ FilesRecorded /\ FilesNest

LEMMA AllInit == DirectorySound /\ Init => AllInv
  <1> SUFFICES ASSUME DirectorySound, Init PROVE AllInv
    OBVIOUS
  <1>1. BothInv /\ RecordInv /\ EmbedInv
    BY BothInit, RecordInit, EmbedInit DEF DirectorySound
  <1>2. spc = "idle" /\ gpc = "idle"
    BY DEF Init, SignInit, GenInit
  <1>3. ASSUME NEW p \in published PROVE PackageSound(p)
    <2>1. PICK n \in File : IsSis(disk[n]) /\ p = StoredPackage(disk[n])
      <3>1. published = {StoredPackage(f) : f \in {disk[n] : n \in {m \in File : IsSis(disk[m])}}}
        BY Zenon DEF Init, DiskInit, StoredPackage
      <3> QED BY <3>1
    <2>2. PICK f : f = disk[n]
      OBVIOUS
    <2>3. ControllerSound(ControllerOf(f)) /\ UnitsReadable(UnitsOf(f))
      BY <1>1, <2>1, <2>2 DEF BothInv, ToolsInv, CarryInv, StoredInv, SignInv, FilesSound,
                              FileSound, DiskReadable
    <2>4. Nests(ControllerOf(f), UnitsOf(f)) /\ AllRecorded(ControllerOf(f), UnitsOf(f)[1])
      BY <2>1, <2>2 DEF DirectorySound, FilesNest, FilesRecorded
    <2> QED BY <2>1, <2>2, <2>3, <2>4, StoredPackageSound
  <1> QED BY <1>1, <1>2, <1>3 DEF AllInv, NestInv, DirectorySound, Working, Running

LEMMA AllNext == AllInv /\ [Next]_allVars => AllInv'
  BY BothNext, RecordNext, EmbedNext, NestNext DEF AllInv

(* A directory of sound packages stays one, whatever the two programs      *)
(* build, embed, sign and unsign in it at the same time: each file is      *)
(* right about its own data, counts it from the start, and embeds only     *)
(* packages that were written (makesis and signsis main).                  *)
THEOREM DirectoryStaysSound == DirectorySound /\ Spec => []DirectorySound
  <1>1. AllInv => DirectorySound
    BY DEF AllInv, RecordInv, EmbedInv, NestInv, DirectorySound
  <1> QED
    BY <1>1, AllInit, AllNext, PTL DEF Spec

LEMMA AllNestedSound ==
  ASSUME AllInv
  PROVE  NestedPackagesSound
  <1> SUFFICES ASSUME NEW f \in SisFiles, NEW x \in Nested(ControllerOf(f))
               PROVE  /\ SignaturesCoverPrefix(x[1])
                      /\ DataIndexLast(x[1])
                      /\ x[2] + 1 <= Len(UnitsOf(f))
                      /\ FilesResolve(x[1], PlainUnits(UnitsOf(f))[x[2] + 1])
    BY Zenon DEF NestedPackagesSound
  <1>1. PICK n \in File : IsSis(disk[n]) /\ f = disk[n]
    BY DEF SisFiles
  <1>2. /\ EmbeddedIntact /\ StoredPackage(f) \in published
        /\ \A q \in published : PackageSound(q)
        /\ ZeroIndex(ControllerOf(f))
        /\ ControllerSound(ControllerOf(f)) /\ IsList(UnitsOf(f))
    BY <1>1 DEF AllInv, EmbedInv, FilesPublished, NestInv, FilesNest, Nests, BothInv, ToolsInv,
                CarryInv, StoredInv, SignInv, FilesSound, FileSound, DiskReadable, UnitsReadable
  <1>3. PICK p : p = StoredPackage(f)
    OBVIOUS
  <1>4. Found(x, p)
    BY <1>2, <1>3, NestedFound
  <1>5. PICK q \in published : q.signable = Signable(x[1]) /\ Lies(q.data, x[2], p.data)
    BY <1>4 DEF Found
  <1>6. ControllerSound(x[1])
    BY <1>4 DEF Found
  <1>7. /\ Len(q.data) \in Nat /\ Len(q.data) > 0
        /\ FilesResolve(q.signable, q.data[1])
    BY <1>2 DEF PackageSound, IsList
  <1>8. p.data = PlainUnits(UnitsOf(f))
    BY <1>3 DEF StoredPackage, Package
  <1>9. Len(p.data) = Len(UnitsOf(f)) /\ Len(UnitsOf(f)) \in Nat
    BY <1>2, <1>8, PlainUnitsIs DEF IsList
  <1>10. x[2] \in Nat /\ x[2] + Len(q.data) <= Len(p.data) /\ 1 \in 1 .. Len(q.data)
    BY <1>5, <1>7 DEF Lies
  <1>11. q.data[1] = p.data[x[2] + 1]
    BY <1>5, <1>10 DEF Lies
  <1>12. x[2] + 1 <= Len(UnitsOf(f))
    BY <1>7, <1>9, <1>10
  <1>13. Descriptions(x[1]) = Descriptions(q.signable)
    BY <1>5, <1>6, SignableIs DEF ControllerSound, Descriptions
  <1>14. FilesResolve(x[1], PlainUnits(UnitsOf(f))[x[2] + 1])
    BY <1>7, <1>8, <1>11, <1>13 DEF FilesResolve
  <1> QED BY <1>6, <1>12, <1>14 DEF ControllerSound

(* An installer that adds up the data indices on its way down finds each   *)
(* embedded package's own files, at every depth, and every signature over  *)
(* what is in front of it (sisfilegen.cpp LoadEmbeddedSis: the one index   *)
(* that it changes is all that embedding has to change).                   *)
THEOREM NestingStaysSound == DirectorySound /\ Spec => []NestedPackagesSound
  <1>1. AllInv => NestedPackagesSound
    BY AllNestedSound
  <1> QED
    BY <1>1, AllInit, AllNext, PTL DEF Spec

-----------------------------------------------------------------------------
(***************************************************************************)
(* The UID of a file is the one that its controller gives.                 *)
(***************************************************************************)
GivesUid(c, uid) ==
  OfType(c, "SISInfo") # {} /\ \A x \in OfType(c, "SISInfo") : x.uid = uid

(* The header that LoadSISFile compares with the package line, and the     *)
(* information inside the package, name the same package.                  *)
UidsAgree == \A f \in File : IsSis(disk[f]) => GivesUid(ControllerOf(disk[f]), disk[f].uid)

UidInv == UidsAgree /\ (Working => GivesUid(sController.iField, sUid))

LEMMA UidNext == BothInv /\ UidInv /\ [Next]_allVars => UidInv'
  <1> SUFFICES ASSUME BothInv, UidInv, [Next]_allVars PROVE UidInv'
    OBVIOUS
  <1>1. ASSUME NEW f \in File, IsSis(disk'[f])
        PROVE  GivesUid(ControllerOf(disk'[f]), disk'[f].uid)
    <2>1. PICK v : v = disk'[f]
      OBVIOUS
    <2>2. CASE v = disk[f]
      BY <1>1, <2>1, <2>2 DEF UidInv, UidsAgree
    <2>3. CASE FileMade(v)
      <3>1. ControllerOf(v) = Controller /\ v.uid = gArgs.pkg.uid
        BY <2>3 DEF FileMade
      <3>2. OfType(Controller, "SISInfo") = {SISInfo(gArgs.pkg.uid)}
        BY NewControllerIs DEF BothInv, GenInv, GenShape
      <3>3. SISInfo(gArgs.pkg.uid).uid = gArgs.pkg.uid
        BY DEF SISInfo
      <3> QED BY <2>1, <3>1, <3>2, <3>3 DEF GivesUid
    <2>4. CASE FileSigned(v)
      BY <2>1, <2>4 DEF FileSigned, UidInv
    <2> QED BY <1>1, <2>1, <2>2, <2>3, <2>4, AllStep DEF FilesStep
  <1>2. UidsAgree'
    BY <1>1 DEF UidsAgree
  <1>3. Working' => GivesUid(sController'.iField, sUid')
    <2>1. LoadsFile => GivesUid(sController'.iField, sUid')
      BY DEF LoadsFile, UidInv, UidsAgree
    <2>2. GoesOn => GivesUid(sController'.iField, sUid')
      <3>1. CASE GoesOn
        <4>1. OfType(sController'.iField, "SISInfo") = OfType(sController.iField, "SISInfo")
          BY <3>1 DEF GoesOn, Alike
        <4>2. sUid' = sUid /\ Working
          BY <3>1 DEF GoesOn
        <4> QED BY <4>1, <4>2 DEF GivesUid, UidInv
      <3> QED BY <3>1
    <2> QED BY <2>1, <2>2, AllStep
  <1> QED BY <1>2, <1>3 DEF UidInv

LEMMA UidInit == UidsAgree /\ Init => UidInv
  <1> SUFFICES ASSUME UidsAgree, Init PROVE UidInv
    OBVIOUS
  <1>1. spc = "idle"
    BY DEF Init, SignInit
  <1> QED
    BY <1>1 DEF UidInv, Working

(* The embedded package is the one that the line asks for. *)
LEMMA EmbeddedUid ==
  ASSUME BothInv, UidInv, NEW line, CanEmbed(line), NEW n,
         NEW e, e = EmbedController(disk[line.src], n)
  PROVE  FindElement(e, "SISInfo").uid = line.uid
  <1>1. line.src \in File /\ IsSis(disk[line.src]) /\ disk[line.src].uid = line.uid
    BY DEF CanEmbed
  <1>2. PICK c : c = ControllerOf(disk[line.src])
    OBVIOUS
  <1>3. ControllerSound(c) /\ GivesUid(c, line.uid)
    BY <1>1, <1>2 DEF UidInv, UidsAgree, BothInv, ToolsInv, CarryInv, StoredInv, SignInv,
                      FilesSound, FileSound
  <1>4. IsList(c) /\ Len(c) \in Nat /\ HasElement(c, "SISDataIndex")
    <2>1. IsList(c) /\ DataIndexLast(c)
      BY <1>3 DEF ControllerSound
    <2> QED BY <2>1 DEF DataIndexLast, HasElement, IsList
  <1>5. PICK p : p = FirstPosition(c, "SISDataIndex")
    OBVIOUS
  <1>6. p \in 1 .. Len(c) /\ c[p].id = "SISDataIndex"
    BY <1>4, <1>5, FirstPositionIs DEF Positions
  <1>7. PICK x : x = SISDataIndex(n)
    OBVIOUS
  <1>8. x.id = "SISDataIndex"
    BY <1>7 DEF SISDataIndex
  <1>9. e = [c EXCEPT ![p] = x]
    BY <1>2, <1>5, <1>7 DEF EmbedController
  <1>10. c = [i \in 1 .. Len(c) |-> c[i]]
    BY <1>4 DEF IsList
  <1>11. /\ e = [i \in 1 .. Len(c) |-> e[i]]
         /\ e[p] = x /\ \A i \in 1 .. Len(c) : i # p => e[i] = c[i]
    BY <1>6, <1>9, <1>10
  <1>12. IsList(e) /\ Len(e) = Len(c)
    BY <1>4, <1>11, FunctionIsList
  <1>13. Positions(e, "SISInfo") = Positions(c, "SISInfo")
    BY <1>6, <1>8, <1>11, <1>12 DEF Positions
  <1>14. Positions(c, "SISInfo") # {}
    BY <1>3 DEF GivesUid, OfType
  <1>15. PICK q : q = FirstPosition(e, "SISInfo")
    OBVIOUS
  <1>16. q \in Positions(c, "SISInfo")
    BY <1>12, <1>13, <1>14, <1>15, FirstPositionIs DEF HasElement
  <1>17. c[q].uid = line.uid
    BY <1>3, <1>16 DEF GivesUid, OfType
  <1>18. q \in 1 .. Len(c) /\ q # p
    BY <1>6, <1>16 DEF Positions
  <1>19. FindElement(e, "SISInfo") = c[q]
    BY <1>11, <1>15, <1>18 DEF FindElement
  <1> QED BY <1>17, <1>19

-----------------------------------------------------------------------------
(***************************************************************************)
(* The generator builds the tree that the lines describe.                  *)
(***************************************************************************)
What == [m \in 1 .. Len(AllLines) |-> Installs(AllLines[m])]

Pending == IF gpc = "language" THEN Done + 1 - gLang.done ELSE 0

BuiltNow(base, home, chain, branches, stack, opener) ==
  Built(AllLines, Done, Languages, What, gArrays, gCur, gStacks, gLang, Pending,
        base, home, chain, branches, stack, opener)

BuiltInv ==
  Running => \E base, home, chain, branches, stack, opener :
               BuiltNow(base, home, chain, branches, stack, opener)

(* The next line of the main loop. *)
NextLine(kinds) ==
  /\ BehindLine(AllLines, Done, gArrays, gStacks)
  /\ Pointers(gArrays, gCur, gStacks)
  /\ Done + 1 \in 1 .. Len(AllLines) /\ Done \in Nat /\ Pending = 0
  /\ AllLines[Done + 1].kind \in kinds
  /\ Head(gLines) = AllLines[Done + 1]

LEMMA NextLineIs ==
  ASSUME GenInv, NEW kinds, AtLine(kinds)
  PROVE  NextLine(kinds)
  <1>1. /\ gpc = "lines" /\ GenShape
        /\ Tree(gArrays) /\ StackShape(gStacks) /\ Pointers(gArrays, gCur, gStacks)
        /\ Level(gStacks) = Depth(AllLines, Done)
        /\ Head(gLines).kind \in kinds
        /\ Done \in Nat /\ Done + 1 \in 1 .. Len(AllLines)
        /\ Head(gLines) = AllLines[Done + 1]
    BY AtLineIs
  <1>2. Len(AllLines) \in Nat
    BY <1>1, PackageLists
  <1>3. Level(gStacks) \in Nat
    BY <1>1 DEF StackShape, Level, IsList
  <1>4. BehindLine(AllLines, Done, gArrays, gStacks)
    BY <1>1, <1>2, <1>3 DEF BehindLine
  <1>5. Pending = 0
    BY <1>1 DEF Pending
  <1> QED BY <1>1, <1>4, <1>5 DEF NextLine

(* The package does not change, and neither does what its lines mean. *)
LEMMA SamePackage ==
  ASSUME gArgs' = gArgs
  PROVE  /\ AllLines' = AllLines /\ Languages' = Languages /\ What' = What
  <1>1. AllLines' = AllLines /\ Languages' = Languages
    BY DEF AllLines, Languages
  <1> QED BY <1>1 DEF What, Installs

LEMMA BuiltStays ==
  ASSUME gArgs' = gArgs, NEW n, Done' = n, NEW pending, Pending' = pending,
         NEW base, NEW home, NEW chain, NEW branches, NEW stack, NEW opener,
         Built(AllLines, n, Languages, What, gArrays', gCur', gStacks', gLang', pending,
               base, home, chain, branches, stack, opener)
  PROVE  BuiltInv'
  <1>1. AllLines' = AllLines /\ Languages' = Languages /\ What' = What
    BY SamePackage
  <1>2. Built(AllLines', Done', Languages', What', gArrays', gCur', gStacks', gLang', Pending',
              base, home, chain, branches, stack, opener)
    BY <1>1
  <1>3. BuiltNow(base, home, chain, branches, stack, opener)'
    BY <1>2 DEF BuiltNow
  <1> QED BY <1>3, Zenon DEF BuiltInv

(* What a line installs. *)
LEMMA WhatPackage ==
  ASSUME NEW m \in 1 .. Len(AllLines), NEW line, line = AllLines[m], IsComponent(line)
  PROVE  What[m] = [package |-> line.uid]
  BY DEF What, Installs

LEMMA WhatFile ==
  ASSUME NEW m \in 1 .. Len(AllLines), NEW line, line = AllLines[m], ~ IsComponent(line),
         NEW d, d.hash = FileDescription(gArgs.pkg, line.src, 0).hash
  PROVE  What[m] = [file |-> d.hash]
  <1>1. What[m] = Installs(line)
    BY DEF What
  <1> QED BY <1>1 DEF Installs

(* The block that is built at the moment. *)
LEMMA BlockInHand ==
  ASSUME NEW lines, NEW n, NEW languages, NEW what, NEW arrays, NEW cur, NEW stacks, NEW lang,
         NEW pending, NEW base, NEW home, NEW chain, NEW branches, NEW stack, NEW opener,
         BehindLine(lines, n, arrays, stacks),
         Built(lines, n, languages, what, arrays, cur, stacks, lang, pending,
               base, home, chain, branches, stack, opener)
  PROVE  /\ Allocated(arrays, lines, n, languages, base, chain)
         /\ stack[Level(stacks)] \in Blocks(lines, n)
         /\ cur.files = base[stack[Level(stacks)]] + 1
         /\ cur.embedded = base[stack[Level(stacks)]] + 2
  <1>1. /\ n \in Nat /\ Level(stacks) \in Nat /\ Level(stacks) \in 0 .. Level(stacks)
    BY DEF BehindLine
  <1>2. /\ Skeleton(arrays, lines, n, languages, base, home, chain, branches, pending)
        /\ Stacked(lines, n, Level(stacks), stack)
        /\ InHand(cur, stacks, base, home, chain, stack, opener)
    BY DEF Built
  <1>3. stack[Level(stacks)] \in Blocks(lines, n)
    BY <1>1, <1>2, StackedBlock
  <1>4. PICK k : k = base[stack[Level(stacks)]]
    OBVIOUS
  <1>5. RootOf(cur) = InstallBlock(k)
    BY <1>2, <1>4 DEF InHand
  <1>6. cur.files = k + 1 /\ cur.embedded = k + 2
    BY <1>5 DEF RootOf, InstallBlock
  <1> QED BY <1>2, <1>3, <1>4, <1>6 DEF Skeleton


(* A line that puts something, or nothing, into the block in hand. *)
LEMMA QuietBuilds ==
  ASSUME GenInv, BuiltInv, AtLine({"File", "Option"}),
         gArgs' = gArgs, gLines' = Tail(gLines), gpc' = gpc,
         gCur' = gCur, gStacks' = gStacks,
         NEW items, items = IF AllLines[Done + 1].kind = "File" THEN {What[Done + 1]} ELSE {},
         \A base, chain, p :
           /\ Allocated(gArrays, AllLines, Done, Languages, base, chain)
           /\ p \in Blocks(AllLines, Done)
           /\ gCur.files = base[p] + 1 /\ gCur.embedded = base[p] + 2
           => PutsItems(gArrays, gArrays', AllLines, Done, Languages, base, chain, p, items)
  PROVE  BuiltInv'
  <1>1. /\ BehindLine(AllLines, Done, gArrays, gStacks)
        /\ Done \in Nat /\ Pending = 0
        /\ AllLines[Done + 1].kind \in {"File", "Option"}
    BY NextLineIs DEF NextLine
  <1>2. PICK base, home, chain, branches, stack, opener :
          BuiltNow(base, home, chain, branches, stack, opener)
    BY AtLineIs, Zenon DEF BuiltInv
  <1>3. Built(AllLines, Done, Languages, What, gArrays, gCur, gStacks, gLang, 0,
              base, home, chain, branches, stack, opener)
    BY <1>1, <1>2 DEF BuiltNow
  <1>4. PICK p : p = stack[Level(gStacks)]
    OBVIOUS
  <1>5. /\ Allocated(gArrays, AllLines, Done, Languages, base, chain)
        /\ p \in Blocks(AllLines, Done)
        /\ gCur.files = base[p] + 1 /\ gCur.embedded = base[p] + 2
    BY <1>1, <1>3, <1>4, BlockInHand
  <1>6. PutsItems(gArrays, gArrays', AllLines, Done, Languages, base, chain, p, items)
    BY <1>5
  <1>7. PICK h : h = Updated(home, Done + 1, p)
    OBVIOUS
  <1>8. h[Done + 1] = p /\ \A m \in 1 .. Done : h[m] = home[m]
    <2>1. Update(home, h, Done + 1, p)
      BY <1>1, <1>7, UpdatedIs
    <2>2. h[Done + 1] = p /\ \A m \in 0 .. Done : h[m] = home[m]
      BY <1>1, <2>1, UpdateIs
    <2> QED BY <1>1, <2>2
  <1>9. Built(AllLines, Done + 1, Languages, What, gArrays', gCur, gStacks, gLang, 0,
              base, h, chain, branches, stack, opener)
    BY <1>1, <1>3, <1>4, <1>6, <1>8, BuiltQuiet
  <1>10. Built(AllLines, Done + 1, Languages, What, gArrays', gCur', gStacks', gLang', 0,
               base, h, chain, branches, stack, opener)
    BY <1>9 DEF Built
  <1>11. Done' = Done + 1 /\ Pending' = 0
    BY AtLineIs DEF Pending
  <1> QED BY <1>10, <1>11, BuiltStays

LEMMA FileBuilds ==
  ASSUME GenInv, BuiltInv, GenFile
  PROVE  BuiltInv'
  <1>1. PICK line : line = Head(gLines)
    OBVIOUS
  <1>2. PICK d : d = FileDescription(gArgs.pkg, line.src, gIndex)
    OBVIOUS
  <1>3. /\ AtLine({"File"}) /\ ~ IsComponent(line)
        /\ gArrays' = AddTo(gArrays, gCur.files, d)
        /\ gArgs' = gArgs /\ gLines' = Tail(gLines) /\ gpc' = gpc
        /\ gCur' = gCur /\ gStacks' = gStacks
    BY <1>1, <1>2 DEF GenFile
  <1>4. AtLine({"File", "Option"})
    BY <1>3 DEF AtLine
  <1>5. /\ Done + 1 \in 1 .. Len(AllLines) /\ Done \in Nat /\ Tree(gArrays)
        /\ AllLines[Done + 1].kind = "File" /\ line = AllLines[Done + 1]
    BY <1>1, <1>3, NextLineIs DEF NextLine, BehindLine
  <1>6. What[Done + 1] = [file |-> d.hash]
    <2>1. PICK m \in 1 .. Len(AllLines) : m = Done + 1
      BY <1>5
    <2>2. line = AllLines[m] /\ ~ IsComponent(line)
      BY <1>3, <1>5, <2>1
    <2>3. d.hash = FileDescription(gArgs.pkg, line.src, 0).hash
      BY <1>2 DEF FileDescription
    <2>4. What[m] = [file |-> d.hash]
      BY <2>2, <2>3, WhatFile, Zenon
    <2> QED BY <2>1, <2>4
  <1>7. d.id = "SISFileDescription"
    BY <1>2 DEF FileDescription
  <1>8. ASSUME NEW base, NEW chain, NEW p,
               Allocated(gArrays, AllLines, Done, Languages, base, chain),
               p \in Blocks(AllLines, Done), gCur.files = base[p] + 1
        PROVE  PutsItems(gArrays, gArrays', AllLines, Done, Languages, base, chain, p,
                         {[file |-> d.hash]})
    BY <1>3, <1>5, <1>7, <1>8, FilePutIs
  <1> QED BY <1>3, <1>4, <1>5, <1>6, <1>8, QuietBuilds

LEMMA ComponentBuilds ==
  ASSUME BothInv, UidInv, BuiltInv, GenComponent
  PROVE  BuiltInv'
  <1>1. PICK line : line = Head(gLines)
    OBVIOUS
  <1>2. PICK e : e = EmbedController(disk[line.src], 1 + Len(gUnits))
    OBVIOUS
  <1>3. /\ AtLine({"File"}) /\ IsComponent(line) /\ CanEmbed(line)
        /\ gArrays' = AddTo(gArrays, gCur.embedded, e)
        /\ gArgs' = gArgs /\ gLines' = Tail(gLines) /\ gpc' = gpc
        /\ gCur' = gCur /\ gStacks' = gStacks
    BY <1>1, <1>2 DEF GenComponent, Embed
  <1>4. AtLine({"File", "Option"}) /\ GenInv
    BY <1>3 DEF AtLine, BothInv
  <1>5. /\ Done + 1 \in 1 .. Len(AllLines) /\ Done \in Nat /\ Tree(gArrays)
        /\ AllLines[Done + 1].kind = "File" /\ line = AllLines[Done + 1]
    BY <1>1, <1>3, <1>4, NextLineIs DEF NextLine, BehindLine
  <1>6. What[Done + 1] = [package |-> line.uid]
    BY <1>3, <1>5, WhatPackage
  <1>7. FindElement(e, "SISInfo").uid = line.uid
    BY <1>2, <1>3, EmbeddedUid
  <1>8. ASSUME NEW base, NEW chain, NEW p,
               Allocated(gArrays, AllLines, Done, Languages, base, chain),
               p \in Blocks(AllLines, Done), gCur.embedded = base[p] + 2
        PROVE  PutsItems(gArrays, gArrays', AllLines, Done, Languages, base, chain, p,
                         {[package |-> line.uid]})
    BY <1>3, <1>5, <1>7, <1>8, PackagePutIs
  <1> QED BY <1>3, <1>4, <1>5, <1>6, <1>8, QuietBuilds

LEMMA OptionBuilds ==
  ASSUME GenInv, BuiltInv, GenOption
  PROVE  BuiltInv'
  <1>1. /\ AtLine({"Option"}) /\ gArrays' = gArrays
        /\ gArgs' = gArgs /\ gLines' = Tail(gLines) /\ gpc' = gpc
        /\ gCur' = gCur /\ gStacks' = gStacks
    BY DEF GenOption, treeVars
  <1>2. AtLine({"File", "Option"})
    BY <1>1 DEF AtLine
  <1>3. AllLines[Done + 1].kind = "Option" /\ Tree(gArrays)
    BY <1>1, NextLineIs DEF NextLine, BehindLine
  <1>4. \A base, chain, p :
          PutsItems(gArrays, gArrays', AllLines, Done, Languages, base, chain, p, {})
    BY <1>1, <1>3, NothingPutIs
  <1> QED BY <1>1, <1>2, <1>3, <1>4, QuietBuilds

(* The next line, with the tree behind the lines before it. *)
LEMMA BuiltSoFar ==
  ASSUME GenInv, BuiltInv, NEW kinds, AtLine(kinds)
  PROVE  \E base, home, chain, branches, stack, opener :
           Built(AllLines, Done, Languages, What, gArrays, gCur, gStacks, gLang, 0,
                 base, home, chain, branches, stack, opener)
  <1>1. Running /\ Pending = 0
    BY AtLineIs, NextLineIs DEF NextLine
  <1>2. PICK base, home, chain, branches, stack, opener :
          BuiltNow(base, home, chain, branches, stack, opener)
    BY <1>1, Zenon DEF BuiltInv
  <1>3. Built(AllLines, Done, Languages, What, gArrays, gCur, gStacks, gLang, 0,
              base, home, chain, branches, stack, opener)
    BY <1>1, <1>2 DEF BuiltNow
  <1> QED BY <1>3, Zenon

LEMMA IfBuilds ==
  ASSUME GenInv, BuiltInv, GenIf
  PROVE  BuiltInv'
  <1>1. PICK n : n = Done
    OBVIOUS
  <1>2. PICK at : at = Len(gArrays)
    OBVIOUS
  <1>3. PICK e : e = SISIf(Head(gLines).cond, InstallBlock(at), at + 4)
    OBVIOUS
  <1>4. /\ AtLine({"If"})
        /\ gStacks' = PushAll(gStacks, gCur)
        /\ gArrays' = AddTo(gArrays \o BlockArrays \o <<NewArray("SISElseIf")>>, gCur.ifs, e)
        /\ gCur' = CurrentArrays(InstallBlock(at), at + 4)
        /\ gArgs' = gArgs /\ gLines' = Tail(gLines) /\ gpc' = gpc /\ gLang' = gLang
    BY <1>2, <1>3, Zenon DEF GenIf, PushAll
  <1>5. /\ BehindLine(AllLines, n, gArrays, gStacks) /\ Pointers(gArrays, gCur, gStacks)
        /\ n \in Nat /\ AllLines[n + 1].kind = "If"
        /\ Head(gLines) = AllLines[n + 1]
    BY <1>1, <1>4, NextLineIs DEF NextLine
  <1>6. PICK base, home, chain, branches, stack, opener :
          Built(AllLines, n, Languages, What, gArrays, gCur, gStacks, gLang, 0,
                base, home, chain, branches, stack, opener)
    BY <1>1, <1>4, BuiltSoFar
  <1>7. n + 1 \in Nat /\ Level(gStacks) + 1 \in Nat
    BY <1>5 DEF BehindLine
  <1>8. PICK b : Update(base, b, n + 1, at)
    BY <1>7, UpdatedIs
  <1>9. PICK h : Update(home, h, n + 1, stack[Level(gStacks)])
    BY <1>7, UpdatedIs
  <1>10. PICK c : Update(chain, c, n + 1, at + 4)
    BY <1>7, UpdatedIs
  <1>11. PICK r : Update(branches, r, n + 1, <<n + 1>>)
    BY <1>7, UpdatedIs
  <1>12. PICK s : Update(stack, s, Level(gStacks) + 1, n + 1)
    BY <1>7, UpdatedIs
  <1>13. PICK o : Update(opener, o, Level(gStacks) + 1, n + 1)
    BY <1>7, UpdatedIs
  <1>14. e = SISIf(AllLines[n + 1].cond, InstallBlock(at), at + 4)
    BY <1>3, <1>5
  <1>15. IfLine(AllLines[n + 1], gArrays, gCur, gStacks, at, e, gArrays', gStacks', gCur')
    BY <1>2, <1>4, <1>14, Zenon DEF IfLine
  <1>a. IfTree(n, Level(gStacks), at, base, home, chain, branches, stack, opener,
               b, h, c, r, s, o)
    BY <1>8, <1>9, <1>10, <1>11, <1>12, <1>13, Zenon DEF IfTree
  <1>b. Built(AllLines, n + 1, Languages, What, gArrays', gCur', gStacks', gLang, 0,
              b, h, c, r, s, o)
    BY <1>5, <1>6, <1>15, <1>a, BuiltIf
  <1>16. Done' = n + 1 /\ Pending' = 0
    BY <1>1, <1>4, AtLineIs DEF Pending
  <1> QED BY <1>4, <1>16, <1>b, BuiltStays

LEMMA ElseBuilds ==
  ASSUME GenInv, BuiltInv, GenElse
  PROVE  BuiltInv'
  <1>1. PICK n : n = Done
    OBVIOUS
  <1>2. PICK at : at = Len(gArrays)
    OBVIOUS
  <1>3. PICK e : e = SISElseIf(IF Head(gLines).kind = "Else" THEN Always
                               ELSE Head(gLines).cond, InstallBlock(at))
    OBVIOUS
  <1>4. /\ AtLine({"ElseIf", "Else"})
        /\ gStacks' = Push(Pop(gStacks), Tops(gStacks))
        /\ gArrays' = AddTo(gArrays \o BlockArrays, gCur.elseIfs, e)
        /\ gCur' = CurrentArrays(InstallBlock(at), gCur.elseIfs)
        /\ gArgs' = gArgs /\ gLines' = Tail(gLines) /\ gpc' = gpc /\ gLang' = gLang
    BY <1>2, <1>3, Zenon DEF GenElse
  <1>5. /\ BehindLine(AllLines, n, gArrays, gStacks) /\ Pointers(gArrays, gCur, gStacks)
        /\ n \in Nat /\ AllLines[n + 1].kind \in {"ElseIf", "Else"}
        /\ Head(gLines) = AllLines[n + 1]
    BY <1>1, <1>4, NextLineIs DEF NextLine
  <1>6. Level(gStacks) > 0
    BY <1>4, LevelInside DEF AtLine
  <1>7. gStacks' = gStacks
    BY <1>4, <1>5, <1>6, PopIs DEF BehindLine
  <1>8. PICK base, home, chain, branches, stack, opener :
          Built(AllLines, n, Languages, What, gArrays, gCur, gStacks, gLang, 0,
                base, home, chain, branches, stack, opener)
    BY <1>1, <1>4, BuiltSoFar
  <1>9. PICK i : i = opener[Level(gStacks)]
    OBVIOUS
  <1>10. n + 1 \in Nat /\ Level(gStacks) \in Nat
    BY <1>5 DEF BehindLine
  <1>11. i \in Nat
    <2>1. Grouped(AllLines, n, Level(gStacks), opener, branches)
      BY <1>8, Zenon DEF Built
    <2> QED BY <1>6, <1>9, <1>10, <2>1 DEF Grouped
  <1>12. PICK b : Update(base, b, n + 1, at)
    BY <1>10, UpdatedIs
  <1>13. PICK r : Update(branches, r, i, Append(branches[i], n + 1))
    BY <1>11, UpdatedIs
  <1>14. PICK s : Update(stack, s, Level(gStacks), n + 1)
    BY <1>10, UpdatedIs
  <1>15. e = SISElseIf(IF AllLines[n + 1].kind = "Else" THEN Always ELSE AllLines[n + 1].cond,
                       InstallBlock(at))
    BY <1>3, <1>5
  <1>16. Built(AllLines, n + 1, Languages, What, gArrays', gCur', gStacks, gLang, 0,
               b, home, chain, r, s, opener)
    BY <1>2, <1>4, <1>5, <1>6, <1>8, <1>9, <1>12, <1>13, <1>14, <1>15, BuiltElse, ZenonT(60)
  <1>17. Done' = n + 1 /\ Pending' = 0
    BY <1>1, <1>4, AtLineIs DEF Pending
  <1> QED BY <1>4, <1>7, <1>16, <1>17, BuiltStays

LEMMA EndIfBuilds ==
  ASSUME GenInv, BuiltInv, GenEndIf
  PROVE  BuiltInv'
  <1>1. PICK n : n = Done
    OBVIOUS
  <1>2. /\ AtLine({"EndIf"})
        /\ gCur' = CurrentArrays(Tops(gStacks), Last(gStacks.elseIfs))
        /\ gStacks' = PopAll(gStacks) /\ gArrays' = gArrays
        /\ gArgs' = gArgs /\ gLines' = Tail(gLines) /\ gpc' = gpc /\ gLang' = gLang
    BY Zenon DEF GenEndIf, PopAll
  <1>3. /\ BehindLine(AllLines, n, gArrays, gStacks)
        /\ AllLines[n + 1].kind = "EndIf"
    BY <1>1, <1>2, NextLineIs DEF NextLine
  <1>4. Level(gStacks) > 0
    BY <1>2, LevelInside DEF AtLine
  <1>5. PICK base, home, chain, branches, stack, opener :
          Built(AllLines, n, Languages, What, gArrays, gCur, gStacks, gLang, 0,
                base, home, chain, branches, stack, opener)
    BY <1>1, <1>2, BuiltSoFar
  <1>6. Built(AllLines, n + 1, Languages, What, gArrays', gCur', gStacks', gLang, 0,
              base, home, chain, branches, stack, opener)
    BY <1>2, <1>3, <1>4, <1>5, BuiltEndIf
  <1>7. Done' = n + 1 /\ Pending' = 0
    BY <1>1, <1>2, AtLineIs DEF Pending
  <1> QED BY <1>2, <1>6, <1>7, BuiltStays

(* The next line of a language block. *)
LEMMA LanguageNext ==
  ASSUME GenInv, GenLanguageFile
  PROVE  /\ BehindLine(AllLines, Done, gArrays, gStacks)
         /\ Done \in Nat /\ Done + 1 \in 1 .. Len(AllLines)
         /\ AllLines[Done + 1].kind = "LanguageFile" /\ Head(gLines) = AllLines[Done + 1]
         /\ gLang.done \in Nat
         /\ LanguageSlot(AllLines, Done + 1, Languages) = gLang.done + 1
         /\ gpc = "lines" => gLang.done = 0 /\ Pending = 0
         /\ gpc = "language" => /\ gLang.done > 0 /\ Pending # 0
                                /\ Pending = Done + 1 - gLang.done
         /\ gpc \in {"lines", "language"}
         /\ gArgs' = gArgs /\ Done' = Done + 1
         /\ Len(Languages) \in Nat
  <1>1. /\ gpc \in {"lines", "language"} /\ gLines # << >> /\ gpc # "idle"
        /\ Head(gLines).kind = "LanguageFile"
        /\ gpc = "lines" => gLang.done = 0
    BY LanguageLineTaken
  <1>2. GenShape /\ LinesInv /\ TreeInv
    BY <1>1 DEF GenInv, Running
  <1>3. gLines' = Tail(gLines) /\ gArgs' = gArgs
    BY DEF GenLanguageFile
  <1>4. /\ Done \in Nat /\ Done + 1 \in 1 .. Len(AllLines)
        /\ Head(gLines) = AllLines[Done + 1] /\ Done' = Done + 1
    BY <1>1, <1>2, <1>3, TakesLine DEF LinesInv
  <1>5. Len(AllLines) \in Nat /\ Len(Languages) \in Nat /\ Len(Languages) > 0
    BY <1>1, <1>2, PackageLists
  <1>6. BehindLine(AllLines, Done, gArrays, gStacks)
    <2>1. /\ Tree(gArrays) /\ StackShape(gStacks) /\ Level(gStacks) = Depth(AllLines, Done)
      BY <1>2 DEF TreeInv
    <2>2. Level(gStacks) \in Nat
      BY <2>1 DEF StackShape, Level, IsList
    <2> QED BY <1>4, <1>5, <2>1, <2>2 DEF BehindLine
  <1>7. PICK m \in Nat : m = Done
    BY <1>4
  <1>8. PICK c : c = Count(AllLines, "LanguageFile", m)
    OBVIOUS
  <1>9. c \in Nat /\ c <= m /\ Count(AllLines, "LanguageFile", m + 1) = c + 1
    <2>1. AllLines[m + 1].kind = "LanguageFile"
      BY <1>1, <1>4, <1>7
    <2>2. PICK lines : lines = AllLines
      OBVIOUS
    <2>3. /\ Count(lines, "LanguageFile", m) \in Nat
          /\ Count(lines, "LanguageFile", m) <= m
          /\ Count(lines, "LanguageFile", m + 1) = Count(lines, "LanguageFile", m) + 1
      BY <2>1, <2>2, CountNext, CountSmall
    <2> QED BY <1>8, <2>2, <2>3
  <1>10. PICK k : k = Len(Languages)
    OBVIOUS
  <1>11. PICK d : d = c % k
    OBVIOUS
  <1>12. d \in Nat /\ d <= c
    BY <1>5, <1>9, <1>10, <1>11, RemainderNext
  <1>13. gLang.done = d
    BY <1>1, <1>2, <1>7, <1>8, <1>10, <1>11 DEF LinesInv, LanguageDone
  <1>14. LanguageSlot(AllLines, Done + 1, Languages) = d + 1
    <2>1. LanguageSlot(AllLines, m + 1, Languages)
            = ((Count(AllLines, "LanguageFile", m + 1) - 1) % k) + 1
      BY <1>10 DEF LanguageSlot
    <2>2. (c + 1) - 1 = c
      BY <1>9
    <2> QED BY <1>7, <1>9, <1>11, <2>1, <2>2
  <1>15. gpc = "lines" => Pending = 0
    BY DEF Pending
  <1>16. gpc = "language" => /\ gLang.done > 0 /\ Pending # 0
                             /\ Pending = Done + 1 - gLang.done
    <2> SUFFICES ASSUME gpc = "language"
                 PROVE  /\ gLang.done > 0 /\ Pending # 0
                        /\ Pending = Done + 1 - gLang.done
      OBVIOUS
    <2>1. gLang.done \in 1 .. Len(Languages) - 1
      BY <1>2 DEF LinesInv
    <2>2. Pending = Done + 1 - gLang.done
      BY DEF Pending
    <2>3. Done + 1 - gLang.done # 0
      BY <1>7, <1>9, <1>12, <1>13
    <2> QED BY <1>5, <2>1, <2>2, <2>3
  <1> QED BY <1>1, <1>3, <1>4, <1>5, <1>6, <1>12, <1>13, <1>14, <1>15, <1>16

(* What it puts into its new block. *)
ItemStep(line, arrays, block) ==
  IF IsComponent(line)
  THEN /\ CanEmbed(line)
       /\ gArrays' = AddTo(arrays, block.embedded,
                           EmbedController(disk[line.src], 1 + Len(gUnits)))
  ELSE gArrays' = AddTo(arrays, block.files, FileDescription(gArgs.pkg, line.src, gIndex))

LEMMA LanguageItem ==
  ASSUME BothInv, UidInv, NEW m \in 1 .. Len(AllLines), m \in Nat,
         NEW arrays, Tree(arrays), NEW base, NEW chain,
         Allocated(arrays, AllLines, m, Languages, base, chain), m \in Blocks(AllLines, m),
         ItemStep(AllLines[m], arrays, InstallBlock(base[m]))
  PROVE  PutsItems(arrays, gArrays', AllLines, m, Languages, base, chain, m, {What[m]})
  <1>1. PICK line : line = AllLines[m]
    OBVIOUS
  <1>2. PICK at : at = base[m]
    OBVIOUS
  <1>3. InstallBlock(at).files = at + 1 /\ InstallBlock(at).embedded = at + 2
    BY DEF InstallBlock
  <1>4. CASE IsComponent(line)
    <2>1. PICK e : e = EmbedController(disk[line.src], 1 + Len(gUnits))
      OBVIOUS
    <2>2. CanEmbed(line) /\ gArrays' = AddTo(arrays, at + 2, e)
      BY <1>1, <1>2, <1>3, <1>4, <2>1 DEF ItemStep
    <2>3. FindElement(e, "SISInfo").uid = line.uid
      BY <2>1, <2>2, EmbeddedUid
    <2>4. What[m] = [package |-> line.uid]
      BY <1>1, <1>4, WhatPackage
    <2>5. PutsItems(arrays, gArrays', AllLines, m, Languages, base, chain, m,
                    {[package |-> line.uid]})
      BY <1>2, <2>2, <2>3, PackagePutIs
    <2> QED BY <2>4, <2>5
  <1>5. CASE ~ IsComponent(line)
    <2>1. PICK d : d = FileDescription(gArgs.pkg, line.src, gIndex)
      OBVIOUS
    <2>2. gArrays' = AddTo(arrays, at + 1, d)
      BY <1>1, <1>2, <1>3, <1>5, <2>1 DEF ItemStep
    <2>3. d.id = "SISFileDescription" /\ d.hash = FileDescription(gArgs.pkg, line.src, 0).hash
      BY <2>1 DEF FileDescription
    <2>4. What[m] = [file |-> d.hash]
      BY <1>1, <1>5, <2>3, WhatFile, Zenon
    <2>5. PutsItems(arrays, gArrays', AllLines, m, Languages, base, chain, m,
                    {[file |-> d.hash]})
      BY <1>2, <2>2, <2>3, FilePutIs
    <2> QED BY <2>4, <2>5
  <1> QED BY <1>4, <1>5

(* The rest of an iteration. *)
LanguageStep(i, ifField, elseIfs, pending) ==
  /\ IF i = Len(Languages) THEN gpc' = "lines" /\ gLang' = NoLang
     ELSE /\ gpc' = "language"
          /\ gLang' = [done |-> i, ifField |-> ifField, elseIfs |-> elseIfs]
  /\ Pending' = pending
  /\ gArgs' = gArgs /\ gCur' = gCur /\ gStacks' = gStacks

(* An iteration that leaves the tree right. *)
LEMMA LanguageAddedBuilds ==
  ASSUME BothInv, UidInv, GenLanguageFile,
         NEW pending, NEW base, NEW home, NEW chain, NEW branches, NEW stack, NEW opener,
         Built(AllLines, Done, Languages, What, gArrays, gCur, gStacks, gLang, pending,
               base, home, chain, branches, stack, opener),
         NEW z, NEW at, NEW b, NEW h, NEW c, NEW r, NEW late,
         LanguageAdded(gArrays, z, AllLines, Done, Languages, at, base, home, chain, branches,
                       b, h, c, r, late),
         ItemStep(AllLines[Done + 1], z, InstallBlock(at)),
         Pending' = late, gCur' = gCur, gStacks' = gStacks,
         late # 0 => InLanguages(AllLines, Done + 1, Languages, b, h, c, r,
                                 stack[Level(gStacks)], gLang', late)
  PROVE  BuiltInv'
  <1>1. /\ BehindLine(AllLines, Done, gArrays, gStacks)
        /\ Done \in Nat /\ Done + 1 \in 1 .. Len(AllLines)
        /\ AllLines[Done + 1].kind = "LanguageFile"
        /\ gArgs' = gArgs /\ Done' = Done + 1
    BY LanguageNext DEF BothInv
  <1>2. PICK n \in Nat : n = Done
    BY <1>1
  <1>3. PICK m \in Nat : m = n + 1
    BY <1>2
  <1>4. /\ Tree(z) /\ b[m] = at /\ Allocated(z, AllLines, m, Languages, b, c)
    BY <1>2, <1>3 DEF LanguageAdded, Skeleton
  <1>5. m \in 1 .. Len(AllLines) /\ m \in Blocks(AllLines, m)
    BY <1>1, <1>2, <1>3 DEF Blocks
  <1>6. ItemStep(AllLines[m], z, InstallBlock(b[m]))
    BY <1>2, <1>3, <1>4
  <1>7. PutsItems(z, gArrays', AllLines, m, Languages, b, c, m, {What[m]})
    BY <1>4, <1>5, <1>6, LanguageItem
  <1>8. PutsItems(z, gArrays', AllLines, n + 1, Languages, b, c, n + 1, {What[n + 1]})
    BY <1>3, <1>7
  <1>9. BehindLine(AllLines, n, gArrays, gStacks) /\ AllLines[n + 1].kind = "LanguageFile"
    BY <1>1, <1>2
  <1>10. /\ Built(AllLines, n, Languages, What, gArrays, gCur, gStacks, gLang, pending,
                  base, home, chain, branches, stack, opener)
         /\ LanguageAdded(gArrays, z, AllLines, n, Languages, at, base, home, chain, branches,
                          b, h, c, r, late)
    BY <1>2
  <1>11. PICK l : l = gLang'
    OBVIOUS
  <1>12. late # 0 => InLanguages(AllLines, n + 1, Languages, b, h, c, r,
                                 stack[Level(gStacks)], l, late)
    BY <1>2, <1>11
  <1>13. Built(AllLines, n + 1, Languages, What, gArrays', gCur, gStacks, l, late,
               b, h, c, r, stack, opener)
    BY <1>8, <1>9, <1>10, <1>12, BuiltLanguage
  <1>14. Built(AllLines, n + 1, Languages, What, gArrays', gCur', gStacks', gLang', late,
               b, h, c, r, stack, opener)
    BY <1>11, <1>13
  <1>15. Done' = n + 1
    BY <1>1, <1>2
  <1> QED BY <1>1, <1>14, <1>15, BuiltStays

LEMMA FirstLanguageBuilds ==
  ASSUME BothInv, UidInv, BuiltInv, GenLanguageFile, gpc = "lines",
         NEW at, NEW e, NEW x, NEW last, NEW z,
         FirstLanguage(Languages, gArrays, gCur, at, e, x, last, z),
         last <=> 1 = Len(Languages),
         ItemStep(AllLines[Done + 1], z, InstallBlock(at)),
         NEW late, late = (IF last THEN 0 ELSE Done + 1), LanguageStep(1, e, at, late)
  PROVE  BuiltInv'
  <1>1. /\ BehindLine(AllLines, Done, gArrays, gStacks)
        /\ Done \in Nat /\ AllLines[Done + 1].kind = "LanguageFile"
        /\ LanguageSlot(AllLines, Done + 1, Languages) = gLang.done + 1
        /\ gLang.done = 0 /\ Pending = 0
    BY LanguageNext DEF BothInv
  <1>2. PICK n \in Nat : n = Done
    BY <1>1
  <1>a. n + 1 \in Nat
    OBVIOUS
  <1>3. PICK base, home, chain, branches, stack, opener :
          BuiltNow(base, home, chain, branches, stack, opener)
    BY Zenon DEF BuiltInv, Running
  <1>4. Built(AllLines, n, Languages, What, gArrays, gCur, gStacks, gLang, 0,
              base, home, chain, branches, stack, opener)
    BY <1>1, <1>2, <1>3 DEF BuiltNow
  <1>5. PICK q : q = stack[Level(gStacks)]
    OBVIOUS
  <1>6. PICK b : Update(base, b, n + 1, at)
    BY <1>a, UpdatedIs
  <1>7. PICK h : Update(home, h, n + 1, q)
    BY <1>a, UpdatedIs
  <1>8. PICK c : Update(chain, c, n + 1, at)
    BY <1>a, UpdatedIs
  <1>9. PICK r : Update(branches, r, n + 1, <<n + 1>>)
    BY <1>a, UpdatedIs
  <1>10. late = IF last THEN 0 ELSE n + 1
    BY <1>2
  <1>11. FirstLanguageTree(n, at, q, last, base, home, chain, branches, b, h, c, r, late)
    BY <1>6, <1>7, <1>8, <1>9, <1>10, Zenon DEF FirstLanguageTree
  <1>12. /\ BehindLine(AllLines, n, gArrays, gStacks)
         /\ AllLines[n + 1].kind = "LanguageFile"
         /\ LanguageSlot(AllLines, n + 1, Languages) = 1
    BY <1>1, <1>2
  <1>13. /\ LanguageAdded(gArrays, z, AllLines, n, Languages, at, base, home, chain, branches,
                          b, h, c, r, late)
         /\ Opening(AllLines, Languages, b, c, n + 1) = e
    BY <1>4, <1>5, <1>11, <1>12, LanguageBegins
  <1>14. late # 0 => InLanguages(AllLines, n + 1, Languages, b, h, c, r, q, gLang', late)
    <2> SUFFICES ASSUME late # 0
                 PROVE  InLanguages(AllLines, n + 1, Languages, b, h, c, r, q, gLang', late)
      OBVIOUS
    <2>1. late = n + 1 /\ ~ last
      BY <1>10
    <2>2. PICK l : l = [done |-> 1, ifField |-> e, elseIfs |-> at]
      OBVIOUS
    <2>3. gLang' = l
      BY <2>1, <2>2 DEF LanguageStep
    <2>4. h[n + 1] = q /\ c[n + 1] = at /\ r[n + 1] = <<n + 1>>
      BY <1>7, <1>8, <1>9 DEF Update
    <2>5. InLanguages(AllLines, n + 1, Languages, b, h, c, r, q, l, n + 1)
      BY <1>12, <1>13, <2>2, <2>4, LanguageBegun
    <2> QED BY <2>1, <2>3, <2>5
  <1>15. Pending' = late /\ gCur' = gCur /\ gStacks' = gStacks
    BY DEF LanguageStep
  <1>16. Built(AllLines, Done, Languages, What, gArrays, gCur, gStacks, gLang, 0,
               base, home, chain, branches, stack, opener)
    BY <1>2, <1>4
  <1>17. LanguageAdded(gArrays, z, AllLines, Done, Languages, at, base, home, chain, branches,
                       b, h, c, r, late)
    BY <1>2, <1>13
  <1>18. late # 0 => InLanguages(AllLines, Done + 1, Languages, b, h, c, r,
                                 stack[Level(gStacks)], gLang', late)
    BY <1>2, <1>5, <1>14
  <1> QED BY <1>15, <1>16, <1>17, <1>18, LanguageAddedBuilds

LEMMA OtherLanguageBuilds ==
  ASSUME BothInv, UidInv, BuiltInv, GenLanguageFile, gpc = "language",
         NEW at, NEW e, NEW y, NEW last, NEW z,
         OtherLanguage(Languages, gArrays, gCur, gLang, at, e, y, last, z),
         last <=> gLang.done + 1 = Len(Languages),
         ItemStep(AllLines[Done + 1], z, InstallBlock(at)),
         NEW late, late = (IF last THEN 0 ELSE Pending),
         LanguageStep(gLang.done + 1, gLang.ifField, gLang.elseIfs, late)
  PROVE  BuiltInv'
  <1>1. /\ BehindLine(AllLines, Done, gArrays, gStacks)
        /\ Done \in Nat /\ AllLines[Done + 1].kind = "LanguageFile"
        /\ LanguageSlot(AllLines, Done + 1, Languages) = gLang.done + 1
        /\ gLang.done \in Nat \ {0} /\ Pending # 0
    BY LanguageNext DEF BothInv
  <1>2. PICK n \in Nat : n = Done
    BY <1>1
  <1>a. n + 1 \in Nat
    OBVIOUS
  <1>3. PICK base, home, chain, branches, stack, opener :
          BuiltNow(base, home, chain, branches, stack, opener)
    BY Zenon DEF BuiltInv, Running
  <1>4. PICK i : i = Pending
    OBVIOUS
  <1>5. Built(AllLines, n, Languages, What, gArrays, gCur, gStacks, gLang, i,
              base, home, chain, branches, stack, opener)
    BY <1>2, <1>3, <1>4 DEF BuiltNow
  <1>6. InLanguages(AllLines, n, Languages, base, home, chain, branches,
                    stack[Level(gStacks)], gLang, i)
    BY <1>1, <1>4, <1>5, Zenon DEF Built
  <1>7. i \in Openers(AllLines, n, Languages) /\ i \in Nat /\ i <= n
    <2>1. i \in Openers(AllLines, n, Languages)
      BY <1>6 DEF InLanguages
    <2>2. i \in 1 .. n
      BY <2>1, OpenersSoFar
    <2> QED BY <2>1, <2>2
  <1>8. IsList(branches[i])
    <2>1. Branched(gArrays, AllLines, n, Languages, base, chain, branches)
      BY <1>5, Zenon DEF Built, Skeleton
    <2>2. BranchesAre(gArrays, AllLines, n, Languages, base, chain, branches, i)
      BY <1>7, <2>1, BranchedIs
    <2> QED BY <2>2 DEF BranchesAre
  <1>9. PICK b : Update(base, b, n + 1, at)
    BY <1>a, UpdatedIs
  <1>10. PICK r : Update(branches, r, i, Append(branches[i], n + 1))
    BY <1>7, UpdatedIs
  <1>11. late = IF last THEN 0 ELSE i
    BY <1>4
  <1>12. OtherLanguageTree(n, at, i, last, base, branches, b, r, late)
    BY <1>9, <1>10, <1>11, Zenon DEF OtherLanguageTree
  <1>13. /\ BehindLine(AllLines, n, gArrays, gStacks) /\ i # 0
         /\ AllLines[n + 1].kind = "LanguageFile"
         /\ LanguageSlot(AllLines, n + 1, Languages) = gLang.done + 1
    BY <1>1, <1>2, <1>4
  <1>14. LanguageAdded(gArrays, z, AllLines, n, Languages, at, base, home, chain, branches,
                       b, home, chain, r, late)
    BY <1>1, <1>5, <1>12, <1>13, LanguageGoesOn
  <1>15. late # 0 => InLanguages(AllLines, n + 1, Languages, b, home, chain, r,
                                 stack[Level(gStacks)], gLang', late)
    <2> SUFFICES ASSUME late # 0
                 PROVE  InLanguages(AllLines, n + 1, Languages, b, home, chain, r,
                                    stack[Level(gStacks)], gLang', late)
      OBVIOUS
    <2>1. late = i /\ ~ last
      BY <1>11
    <2>2. PICK l : l = [done |-> gLang.done + 1, ifField |-> gLang.ifField,
                        elseIfs |-> gLang.elseIfs]
      OBVIOUS
    <2>3. gLang' = l
      BY <2>1, <2>2 DEF LanguageStep
    <2>4. b[i] = base[i] /\ r[i] = Append(branches[i], n + 1)
      <3>1. i # n + 1
        BY <1>7
      <3> QED BY <1>7, <1>9, <1>10, <3>1 DEF Update
    <2>5. InLanguages(AllLines, n + 1, Languages, b, home, chain, r,
                      stack[Level(gStacks)], l, i)
      BY <1>1, <1>6, <1>8, <2>2, <2>4, LanguageWentOn
    <2> QED BY <2>1, <2>3, <2>5
  <1>16. Pending' = late /\ gCur' = gCur /\ gStacks' = gStacks
    BY DEF LanguageStep
  <1>17. Built(AllLines, Done, Languages, What, gArrays, gCur, gStacks, gLang, i,
               base, home, chain, branches, stack, opener)
    BY <1>2, <1>5
  <1>18. LanguageAdded(gArrays, z, AllLines, Done, Languages, at, base, home, chain, branches,
                       b, home, chain, r, late)
    BY <1>2, <1>14
  <1>19. late # 0 => InLanguages(AllLines, Done + 1, Languages, b, home, chain, r,
                                 stack[Level(gStacks)], gLang', late)
    BY <1>2, <1>15
  <1> QED BY <1>16, <1>17, <1>18, <1>19, LanguageAddedBuilds

LEMMA LanguageBuilds ==
  ASSUME BothInv, UidInv, BuiltInv, GenLanguageFile
  PROVE  BuiltInv'
  <1>1. PICK line : line = Head(gLines)
    OBVIOUS
  <1>2. PICK i : i = gLang.done + 1
    OBVIOUS
  <1>3. PICK begun : begun = IF gpc = "lines" THEN Append(gArrays, NewArray("SISElseIf"))
                             ELSE gArrays
    OBVIOUS
  <1>4. PICK elseIfs : elseIfs = IF gpc = "lines" THEN Len(begun) ELSE gLang.elseIfs
    OBVIOUS
  <1>5. PICK block : block = InstallBlock(Len(begun))
    OBVIOUS
  <1>6. PICK cond : cond = LanguageIs(Languages[i])
    OBVIOUS
  <1>7. PICK ifField : ifField = IF gpc = "lines" THEN SISIf(cond, block, elseIfs)
                                 ELSE gLang.ifField
    OBVIOUS
  <1>8. PICK chained : chained = IF gpc = "lines" THEN begun \o BlockArrays
                                 ELSE AddTo(begun \o BlockArrays, elseIfs, SISElseIf(cond, block))
    OBVIOUS
  <1>9. PICK joined : joined = IF i = Len(Languages) THEN AddTo(chained, gCur.ifs, ifField)
                               ELSE chained
    OBVIOUS
  <1>10. /\ IF IsComponent(line)
            THEN /\ Embed(line, joined, block.embedded)
                 /\ UNCHANGED <<gIndex, gFileData>>
            ELSE /\ CanRead(line.src)
                 /\ gArrays' = AddTo(joined, block.files,
                                     FileDescription(gArgs.pkg, line.src, gIndex))
                 /\ StoreFile(line.src)
                 /\ UNCHANGED gUnits
         /\ IF i = Len(Languages)
            THEN gpc' = "lines" /\ gLang' = NoLang
            ELSE /\ gpc' = "language"
                 /\ gLang' = [done |-> i, ifField |-> ifField, elseIfs |-> elseIfs]
         /\ UNCHANGED <<diskVars, gArgs, gCur, gStacks, gOptions, gLogo>>
    BY <1>1, <1>2, <1>3, <1>4, <1>5, <1>6, <1>7, <1>8, <1>9, Zenon DEF GenLanguageFile
  <1>11. /\ ItemStep(line, joined, block)
         /\ gArgs' = gArgs /\ gCur' = gCur /\ gStacks' = gStacks
    BY <1>10, Zenon DEF ItemStep, Embed
  <1>12. /\ Tree(gArrays) /\ Done \in Nat /\ line = AllLines[Done + 1]
         /\ gpc \in {"lines", "language"} /\ gLang.done \in Nat
         /\ gpc = "lines" => gLang.done = 0 /\ Pending = 0
         /\ gpc = "language" => Pending = Done + 1 - gLang.done
         /\ Done' = Done + 1
    BY <1>1, LanguageNext DEF BothInv, BehindLine
  <1>13. ItemStep(AllLines[Done + 1], joined, block)
    BY <1>11, <1>12
  <1>15. CASE gpc = "lines"
    <2>1. PICK at : at = Len(begun)
      OBVIOUS
    <2>2. at = Len(gArrays) + 1 /\ begun = Append(gArrays, NewArray("SISElseIf"))
      <3>1. begun = Append(gArrays, NewArray("SISElseIf"))
        BY <1>3, <1>15
      <3>2. PICK a : a = NewArray("SISElseIf")
        OBVIOUS
      <3>3. Len(Append(gArrays, a)) = Len(gArrays) + 1
        BY <1>12, AppendIs DEF Tree
      <3> QED BY <2>1, <3>1, <3>2, <3>3
    <2>3. /\ i = 1 /\ elseIfs = at /\ block = InstallBlock(at)
          /\ ifField = SISIf(LanguageIs(Languages[1]), InstallBlock(at), at)
      BY <1>2, <1>4, <1>5, <1>6, <1>7, <1>12, <1>15, <2>1
    <2>4. PICK x : x = Append(gArrays, NewArray("SISElseIf")) \o BlockArrays
      OBVIOUS
    <2>5. chained = x
      BY <1>8, <1>15, <2>2, <2>4
    <2>6. FirstLanguage(Languages, gArrays, gCur, at, ifField, x, 1 = Len(Languages), joined)
      <3>1. joined = IF 1 = Len(Languages) THEN AddTo(x, gCur.ifs, ifField) ELSE x
        BY <1>9, <2>3, <2>5
      <3> QED BY <2>2, <2>3, <2>4, <3>1, Zenon DEF FirstLanguage
    <2>7. PICK late : late = IF 1 = Len(Languages) THEN 0 ELSE Done + 1
      OBVIOUS
    <2>8. Pending' = late
      <3>1. CASE 1 = Len(Languages)
        BY <1>10, <2>3, <2>7, <3>1 DEF Pending
      <3>2. CASE 1 # Len(Languages)
        <4>1. gpc' = "language" /\ gLang'.done = 1
          BY <1>10, <2>3, <3>2
        <4>2. Pending' = Done' + 1 - 1
          BY <4>1 DEF Pending
        <4> QED BY <1>12, <2>7, <3>2, <4>2
      <3> QED BY <3>1, <3>2
    <2>9. LanguageStep(1, ifField, at, late)
      BY <1>10, <1>11, <2>3, <2>8 DEF LanguageStep
    <2>10. ItemStep(AllLines[Done + 1], joined, InstallBlock(at))
      BY <1>13, <2>3
    <2> QED BY <1>15, <2>6, <2>7, <2>9, <2>10, FirstLanguageBuilds
  <1>16. CASE gpc = "language"
    <2>1. PICK at : at = Len(gArrays)
      OBVIOUS
    <2>2. begun = gArrays /\ block = InstallBlock(at)
      BY <1>3, <1>5, <1>16, <2>1
    <2>3. elseIfs = gLang.elseIfs /\ ifField = gLang.ifField
      BY <1>4, <1>7, <1>16
    <2>4. PICK e : e = SISElseIf(LanguageIs(Languages[gLang.done + 1]), InstallBlock(at))
      OBVIOUS
    <2>5. PICK y : y = AddTo(gArrays \o BlockArrays, gLang.elseIfs, e)
      OBVIOUS
    <2>6. chained = y
      BY <1>2, <1>6, <1>8, <1>16, <2>2, <2>3, <2>4, <2>5
    <2>7. OtherLanguage(Languages, gArrays, gCur, gLang, at, e, y,
                        gLang.done + 1 = Len(Languages), joined)
      <3>1. joined = IF gLang.done + 1 = Len(Languages)
                     THEN AddTo(y, gCur.ifs, gLang.ifField) ELSE y
        BY <1>2, <1>9, <2>3, <2>6
      <3> QED BY <2>1, <2>4, <2>5, <3>1, Zenon DEF OtherLanguage
    <2>8. PICK late : late = IF gLang.done + 1 = Len(Languages) THEN 0 ELSE Pending
      OBVIOUS
    <2>9. Pending' = late
      <3>1. CASE gLang.done + 1 = Len(Languages)
        BY <1>2, <1>10, <2>8, <3>1 DEF Pending
      <3>2. CASE gLang.done + 1 # Len(Languages)
        <4>1. gpc' = "language" /\ gLang'.done = gLang.done + 1
          BY <1>2, <1>10, <3>2
        <4>2. Pending' = Done' + 1 - (gLang.done + 1)
          BY <4>1 DEF Pending
        <4> QED BY <1>12, <1>16, <2>8, <3>2, <4>2
      <3> QED BY <3>1, <3>2
    <2>10. LanguageStep(gLang.done + 1, gLang.ifField, gLang.elseIfs, late)
      BY <1>2, <1>10, <1>11, <2>3, <2>9 DEF LanguageStep
    <2>11. ItemStep(AllLines[Done + 1], joined, InstallBlock(at))
      BY <1>13, <2>2
    <2> QED BY <1>16, <2>7, <2>8, <2>10, <2>11, OtherLanguageBuilds
  <1> QED BY <1>12, <1>15, <1>16

(* The root block, before the first line. *)
LEMMA InfoBuilds ==
  ASSUME GenInv, GenInfo
  PROVE  BuiltInv'
  <1>1. /\ gpc = "info" /\ gpc' = "lines" /\ gArgs' = gArgs
        /\ gArrays' = BlockArrays
        /\ gCur' = [files |-> 1, embedded |-> 2, ifs |-> 3, elseIfs |-> 0]
        /\ gLines' = AllLines
        /\ gStacks' = gStacks /\ gLang' = gLang
    BY Zenon DEF GenInfo, AllLines
  <1>2. /\ GenShape /\ AtRest
    BY <1>1 DEF GenInv, Running
  <1>3. Len(AllLines) \in Nat
    BY <1>1, <1>2, PackageLists
  <1>4. AllLines' = AllLines
    BY <1>1 DEF AllLines
  <1>5. Done' = 0 /\ Pending' = 0
    BY <1>1, <1>3, <1>4 DEF Done, Pending
  <1>6. gStacks = EmptyStacks /\ Level(gStacks) = 0
    BY <1>2, EmptyList DEF AtRest, EmptyStacks, Level
  <1>7. PICK cur : cur = gCur'
    OBVIOUS
  <1>8. RootOf(cur) = InstallBlock(0)
    BY <1>1, <1>7 DEF RootOf, InstallBlock
  <1>9. Built(AllLines, 0, Languages, What, BlockArrays, cur, gStacks, gLang, 0,
              [k \in Nat |-> 0], << >>, << >>, << >>, [k \in Nat |-> 0], << >>)
    BY <1>3, <1>6, <1>8, BuiltFirst
  <1>10. Built(AllLines, 0, Languages, What, gArrays', gCur', gStacks', gLang', 0,
               [k \in Nat |-> 0], << >>, << >>, << >>, [k \in Nat |-> 0], << >>)
    BY <1>1, <1>7, <1>9
  <1> QED BY <1>1, <1>5, <1>10, BuiltStays

LEMMA BuiltNext == BothInv /\ UidInv /\ BuiltInv /\ [Next]_allVars => BuiltInv'
  <1> SUFFICES ASSUME BothInv, UidInv, BuiltInv, [Next]_allVars PROVE BuiltInv'
    OBVIOUS
  <1>1. GenInv
    BY DEF BothInv
  <1>2. CASE ~ Running'
    BY <1>2 DEF BuiltInv
  <1>3. CASE UNCHANGED genVars
    <2>1. /\ gpc' = gpc /\ gArgs' = gArgs /\ gLines' = gLines /\ gArrays' = gArrays
          /\ gCur' = gCur /\ gStacks' = gStacks /\ gLang' = gLang
      BY <1>3 DEF genVars, treeVars
    <2>2. /\ Running' <=> Running
          /\ AllLines' = AllLines /\ Languages' = Languages /\ What' = What
      BY <2>1, SamePackage DEF Running
    <2>3. Done' = Done /\ Pending' = Pending
      BY <2>1, <2>2 DEF Done, Pending
    <2>4. CASE Running
      <3>1. PICK base, home, chain, branches, stack, opener :
              BuiltNow(base, home, chain, branches, stack, opener)
        BY <2>4, Zenon DEF BuiltInv
      <3>2. BuiltNow(base, home, chain, branches, stack, opener)'
        BY <2>1, <2>2, <2>3, <3>1 DEF BuiltNow
      <3> QED BY <3>2, Zenon DEF BuiltInv
    <2> QED BY <2>2, <2>4 DEF BuiltInv
  <1>4. CASE GenInfo
    BY <1>1, <1>4, InfoBuilds
  <1>5. CASE GenFile \/ GenComponent \/ GenLanguageFile \/ GenIf \/ GenElse \/ GenEndIf
             \/ GenOption
    BY <1>1, <1>5, FileBuilds, ComponentBuilds, LanguageBuilds, IfBuilds, ElseBuilds,
       EndIfBuilds, OptionBuilds
  <1>6. CASE GenInfoFails \/ GenFileFails \/ GenOptionDies \/ GenSignFails \/ GenWrite
    <2>1. gpc' = "idle"
      BY <1>6 DEF GenInfoFails, GenFileFails, GenOptionDies, GenSignFails, GenWrite, GenFail
    <2> QED BY <1>2, <2>1 DEF Running
  <1>7. ASSUME NEW pkg \in Packages, NEW target \in File, GenOpen(pkg, target)
        PROVE  ~ Running'
    BY <1>7 DEF GenOpen, Running
  <1>8. CASE GenCannotOpen
    BY <1>3, <1>8 DEF GenCannotOpen
  <1>9. UNCHANGED allVars => UNCHANGED genVars
    BY DEF allVars
  <1> QED
    BY <1>2, <1>3, <1>4, <1>5, <1>6, <1>7, <1>8, <1>9 DEF Next, GenNext, GenStep

-----------------------------------------------------------------------------
(***************************************************************************)
(* The finished tree means what the lines mean.                            *)
(***************************************************************************)
LEMMA BlockTakenIs ==
  ASSUME NEW lines, NEW k \in Headers(lines), NEW languages, NEW v
  PROVE  FirstTrue(lines, languages, k, v) <=> BlockTaken(lines, k, v)
  <1>1. ASSUME NEW j \in Headers(lines)
        PROVE  Holds(CondOf(lines, j, languages), v) <=> LineHolds(lines[j], v)
    <2>1. lines[j].kind \in {"If", "ElseIf", "Else"}
      BY DEF Headers
    <2>2. CASE lines[j].kind = "Else"
      BY <2>2 DEF CondOf, LineHolds, Holds
    <2>3. CASE lines[j].kind # "Else"
      <3>1. CondOf(lines, j, languages) = lines[j].cond
        BY <2>1, <2>3 DEF CondOf
      <3> QED BY <2>3, <3>1 DEF LineHolds
    <2> QED BY <2>2, <2>3
  <1>2. Prior(lines, k, languages) = Earlier(lines, k)
    BY DEF Prior, Headers
  <1>3. \A j \in Earlier(lines, k) : j \in Headers(lines)
    BY DEF Earlier
  <1> QED BY <1>1, <1>2, <1>3 DEF FirstTrue, BlockTaken

LEMMA LineTakenIs ==
  ASSUME NEW arrays, NEW lines, NEW n, n \in Nat, n = Len(lines), NEW languages,
         Len(languages) \in Nat, Len(languages) > 0,
         NEW base, NEW home, NEW chain, NEW branches,
         Skeleton(arrays, lines, n, languages, base, home, chain, branches, 0),
         NEW v, \A i \in 1 .. Len(languages) : LanguageIs(languages[i]) \notin v.true,
         NEW m \in 1 .. n
  PROVE  LineTaken(lines, m, languages, v) <=>
           \E p \in Entered(lines, n, languages, v) : m \in HeldBy(lines, n, home, p)
  <1>1. \A k \in Around(lines, m) :
          FirstTrue(lines, languages, k, v) <=> BlockTaken(lines, k, v)
    <2>1. \A k \in Around(lines, m) : k \in Headers(lines)
      BY DEF Around
    <2> QED BY <2>1, BlockTakenIs
  <1>2. CASE lines[m].kind = "File"
    <2>1. /\ home[m] \in 0 .. m - 1 /\ home[m] \in {0} \cup Headers(lines)
          /\ Around(lines, m) = Inside(lines, home[m])
      BY <1>2 DEF Skeleton, Homes
    <2>2. home[m] \in Blocks(lines, n)
      BY <2>1 DEF Blocks, Headers
    <2>3. home[m] \in Entered(lines, n, languages, v) <=>
            \A k \in Around(lines, m) : FirstTrue(lines, languages, k, v)
      BY <2>1, <2>2 DEF Entered
    <2>4. \A p : m \in HeldBy(lines, n, home, p) <=> home[m] = p
      BY <1>2 DEF HeldBy
    <2>5. LineTaken(lines, m, languages, v) <=>
            \A k \in Around(lines, m) : BlockTaken(lines, k, v)
      BY <1>2 DEF LineTaken
    <2> QED BY <1>1, <2>3, <2>4, <2>5
  <1>3. CASE lines[m].kind = "LanguageFile"
    <2>1. PICK slot : slot = LanguageSlot(lines, m, languages)
      OBVIOUS
    <2>2. FirstTrue(lines, languages, m, v) <=> SlotTaken(languages, slot, v)
      <3>1. Branched(arrays, lines, n, languages, base, chain, branches)
        BY DEF Skeleton
      <3>2. FirstTrue(lines, languages, m, v) <=> FirstNamed(languages, slot, v)
        BY <1>3, <2>1, <3>1, LanguageFirstTrue
      <3> QED BY <3>2 DEF SlotTaken, FirstNamed
    <2>3. m \in Blocks(lines, n) /\ Inside(lines, m) = Around(lines, m) \cup {m}
      BY <1>3 DEF Blocks, Inside
    <2>4. m \in Entered(lines, n, languages, v) <=>
            /\ FirstTrue(lines, languages, m, v)
            /\ \A k \in Around(lines, m) : FirstTrue(lines, languages, k, v)
      BY <2>3 DEF Entered
    <2>5. \A p : m \in HeldBy(lines, n, home, p) <=> m = p
      BY <1>3 DEF HeldBy
    <2>6. LineTaken(lines, m, languages, v) <=>
            /\ SlotTaken(languages, slot, v)
            /\ \A k \in Around(lines, m) : BlockTaken(lines, k, v)
      BY <1>3, <2>1 DEF LineTaken
    <2> QED BY <1>1, <2>2, <2>4, <2>5, <2>6
  <1>4. CASE lines[m].kind \notin {"File", "LanguageFile"}
    BY <1>4 DEF LineTaken, HeldBy
  <1> QED BY <1>2, <1>3, <1>4

(* The generator's own conditions are none of the package's.               *)
LEMMA LanguagesApart ==
  ASSUME GenShape, gpc # "idle"
  PROVE  \A i \in 1 .. Len(Languages) : LanguageIs(Languages[i]) \notin Conditions
  <1>1. gArgs.pkg \in Packages
    BY DEF GenShape
  <1>2. /\ IsList(gArgs.pkg.languages)
        /\ \A i \in 1 .. Len(gArgs.pkg.languages) :
             LanguageIs(gArgs.pkg.languages[i]) \notin Conditions
    BY <1>1, PackagesAssumption, ConditionsAssumption
  <1>3. PICK n : n = Len(gArgs.pkg.languages)
    OBVIOUS
  <1>4. /\ n \in Nat /\ Len(Languages) = n
        /\ \A i \in 1 .. n : Languages[i] = gArgs.pkg.languages[(n - i) + 1]
    BY <1>2, <1>3, ReverseIs DEF Languages, IsList
  <1>5. \A i \in 1 .. n : (n - i) + 1 \in 1 .. n
    BY <1>4
  <1> QED BY <1>2, <1>3, <1>4, <1>5

LEMMA BuiltMeansLines ==
  ASSUME GenInv, BuiltInv, AllLinesDone
  PROVE  InstallsAsWritten
  <1>1. Running /\ gpc = "lines" /\ gLines = << >>
    BY DEF AllLinesDone, Running
  <1>2. GenShape /\ LinesInv /\ TreeInv
    BY <1>1 DEF GenInv
  <1>3. /\ Len(AllLines) \in Nat /\ Len(Languages) \in Nat /\ Len(Languages) > 0
        /\ WellNested(AllLines)
    BY <1>1, <1>2, PackageLists
  <1>4. PICK n \in Nat : n = Len(AllLines)
    BY <1>3
  <1>5. Done = n /\ Pending = 0
    BY <1>1, <1>3, <1>4, EmptyList DEF Done, Pending
  <1>6. Tree(gArrays) /\ Level(gStacks) = 0
    BY <1>2, <1>3, <1>4, <1>5 DEF TreeInv, WellNested
  <1>7. PICK base, home, chain, branches, stack, opener :
          BuiltNow(base, home, chain, branches, stack, opener)
    BY <1>1, Zenon DEF BuiltInv
  <1>8. Built(AllLines, n, Languages, What, gArrays, gCur, gStacks, gLang, 0,
              base, home, chain, branches, stack, opener)
    BY <1>5, <1>7 DEF BuiltNow
  <1>9. /\ Skeleton(gArrays, AllLines, n, Languages, base, home, chain, branches, 0)
        /\ Holding(gArrays, AllLines, n, base, home, What)
        /\ Stacked(AllLines, n, Level(gStacks), stack)
        /\ InHand(gCur, gStacks, base, home, chain, stack, opener)
    BY <1>8, Zenon DEF Built
  <1>10. base[0] = 0 /\ stack[0] = 0
    BY <1>9 DEF Skeleton, Allocated, Stacked
  <1>11. CurrentRoot = InstallBlock(0)
    BY <1>6, <1>9, <1>10 DEF InHand, RootOf, CurrentRoot
  <1>12. ASSUME NEW v \in Valuations(Languages)
         PROVE  InstalledByTree(gArrays, CurrentRoot, v)
                  = InstalledByLines(AllLines, Languages, v)
    <2>1. \A i \in 1 .. Len(Languages) : LanguageIs(Languages[i]) \notin v.true
      <3>1. v.true \subseteq Conditions
        BY DEF Valuations
      <3>2. \A i \in 1 .. Len(Languages) : LanguageIs(Languages[i]) \notin Conditions
        BY <1>1, <1>2, LanguagesApart
      <3> QED BY <3>1, <3>2
    <2>2. InstalledByTree(gArrays, InstallBlock(0), v)
            = {What[m] : m \in {j \in 1 .. n :
                 \E p \in Entered(AllLines, n, Languages, v) : j \in HeldBy(AllLines, n, home, p)}}
      BY <1>6, <1>9, InstalledByTreeIs
    <2>3. \A m \in 1 .. n :
            LineTaken(AllLines, m, Languages, v) <=>
              \E p \in Entered(AllLines, n, Languages, v) : m \in HeldBy(AllLines, n, home, p)
      BY <1>3, <1>4, <1>9, <2>1, LineTakenIs
    <2>4. InstalledByLines(AllLines, Languages, v)
            = {Installs(AllLines[m]) : m \in {j \in 1 .. n : LineTaken(AllLines, j, Languages, v)}}
      BY <1>4 DEF InstalledByLines
    <2>5. \A m \in 1 .. n : What[m] = Installs(AllLines[m])
      BY <1>4 DEF What
    <2> QED BY <1>11, <2>2, <2>3, <2>4, <2>5
  <1> QED BY <1>12 DEF InstallsAsWritten

-----------------------------------------------------------------------------
(***************************************************************************)
(* The options are offered in the order of the PKG file.                   *)
(***************************************************************************)
LEMMA ReverseOf ==
  ASSUME NEW k \in Nat, NEW f, f = [o \in 1 .. k |-> f[o]]
  PROVE  Reverse(f) = [o \in 1 .. k |-> f[(k - o) + 1]]
  <1>1. Len(f) = k
    BY FunctionIsList
  <1> QED BY <1>1 DEF Reverse

(* Where the name of option o in language l is among the strings, newest   *)
(* first: the same place whether it is looked for from the front or behind.*)
LEMMA NamePlace ==
  ASSUME NEW n \in Nat, n > 0, NEW k \in Nat, NEW o \in 1 .. k, NEW l \in 1 .. n,
         NEW q, q = (k - o) + 1
  PROVE  /\ q \in 1 .. k
         /\ (q - 1) * n + 1 \in Int /\ q * n \in Int
         /\ 1 <= (q - 1) * n + 1 /\ q * n <= k * n /\ (q - 1) * n + 1 <= q * n
         /\ q * n - ((q - 1) * n + 1) + 1 = n
         /\ (n - l) + 1 \in 1 .. n
         /\ ((q - 1) * n + 1) + ((n - l) + 1) - 1 = (k * n - ((o - 1) * n + l)) + 1
         /\ (o - 1) * n + l \in 1 .. k * n
  <1>1. q \in 1 .. k /\ q - 1 \in Nat /\ q \in Nat /\ o - 1 \in Nat
    OBVIOUS
  <1>2. PICK kn \in Nat : kn = k * n
    OBVIOUS
  <1>3. PICK on \in Nat : on = (o - 1) * n
    BY <1>1
  <1>4. PICK qn \in Nat : qn = (q - 1) * n
    BY <1>1
  <1>5. q * n = qn + n
    BY <1>1, <1>4
  <1>6. kn = qn + n + on
    BY <1>1, <1>2, <1>3, <1>4
  <1>7. l \in Nat /\ 1 <= l /\ l <= n
    OBVIOUS
  <1>8. /\ (q - 1) * n + 1 = qn + 1 /\ k * n = kn /\ (o - 1) * n + l = on + l
    BY <1>2, <1>3, <1>4
  <1>9. /\ qn + 1 \in Int /\ qn + n \in Int
        /\ 1 <= qn + 1 /\ qn + n <= kn /\ qn + 1 <= qn + n
        /\ (qn + n) - (qn + 1) + 1 = n
        /\ (n - l) + 1 \in 1 .. n
        /\ (qn + 1) + ((n - l) + 1) - 1 = (kn - (on + l)) + 1
        /\ on + l \in 1 .. kn
    BY <1>6, <1>7
  <1> QED BY <1>1, <1>5, <1>8, <1>9

LEMMA NamesInOrder ==
  ASSUME NEW n \in Nat, n > 0, NEW k \in Nat, NEW s, IsList(s), Len(s) = k * n
  PROVE  Reverse([o \in 1 .. k |-> Reverse(SubSeq(s, (o - 1) * n + 1, o * n))])
           = [o \in 1 .. k |-> [l \in 1 .. n |-> Reverse(s)[(o - 1) * n + l]]]
  <1>1. PICK f : f = [o \in 1 .. k |-> Reverse(SubSeq(s, (o - 1) * n + 1, o * n))]
    OBVIOUS
  <1>2. f = [o \in 1 .. k |-> f[o]]
    BY <1>1
  <1>3. Reverse(f) = [o \in 1 .. k |-> f[(k - o) + 1]]
    BY <1>2, ReverseOf
  <1>4. PICK S : S = ElementsOf(s)
    OBVIOUS
  <1>5. ASSUME NEW o \in 1 .. k
        PROVE  f[(k - o) + 1] = [l \in 1 .. n |-> Reverse(s)[(o - 1) * n + l]]
    <2>1. PICK q : q = (k - o) + 1
      OBVIOUS
    <2>2. q \in 1 .. k /\ f[q] = Reverse(SubSeq(s, (q - 1) * n + 1, q * n))
      BY <1>1, <2>1
    <2>3. PICK a, b : a = (q - 1) * n + 1 /\ b = q * n
      OBVIOUS
    <2>4. 1 \in 1 .. n
      OBVIOUS
    <2>5. a \in Int /\ b \in Int /\ 1 <= a /\ b <= k * n /\ a <= b /\ b - a + 1 = n
      BY <2>1, <2>3, <2>4, NamePlace
    <2>6. \A i \in a .. b : s[i] \in S
      <3>1. \A i \in a .. b : i \in 1 .. Len(s)
        BY <2>5
      <3> QED BY <1>4, <3>1 DEF ElementsOf
    <2>7. PICK t : t = SubSeq(s, a, b)
      OBVIOUS
    <2>8. t \in Seq(S) /\ Len(t) = n /\ \A i \in 1 .. n : t[i] = s[a + i - 1]
      <3>1. /\ SubSeq(s, a, b) \in Seq(S)
            /\ Len(SubSeq(s, a, b)) = IF a <= b THEN b - a + 1 ELSE 0
            /\ \A i \in 1 .. b - a + 1 : SubSeq(s, a, b)[i] = s[a + i - 1]
        BY <2>5, <2>6, SubSeqProperties
      <3> QED BY <2>5, <2>7, <3>1
    <2>9. t = [i \in 1 .. n |-> t[i]]
      BY <2>8, SeqIsList DEF IsList
    <2>10. Reverse(t) = [l \in 1 .. n |-> t[(n - l) + 1]]
      BY <2>9, ReverseOf
    <2>11. ASSUME NEW l \in 1 .. n
           PROVE  t[(n - l) + 1] = Reverse(s)[(o - 1) * n + l]
      <3>1. PICK x : x = (n - l) + 1
        OBVIOUS
      <3>2. x \in 1 .. n /\ a + x - 1 = (k * n - ((o - 1) * n + l)) + 1
        BY <2>1, <2>3, <3>1, NamePlace
      <3>3. PICK y : y = (o - 1) * n + l
        OBVIOUS
      <3>4. y \in 1 .. k * n
        BY <2>1, <3>3, NamePlace
      <3>5. t[x] = s[a + x - 1]
        BY <2>8, <3>2
      <3>6. Reverse(s)[y] = s[(Len(s) - y) + 1]
        BY <3>4, ReverseIs
      <3>7. (Len(s) - y) + 1 = a + x - 1
        BY <3>2, <3>3
      <3> QED BY <3>1, <3>3, <3>5, <3>6, <3>7
    <2>12. f[q] = Reverse(t)
      BY <2>2, <2>3, <2>7
    <2> QED BY <2>1, <2>10, <2>11, <2>12
  <1>6. [o \in 1 .. k |-> f[(k - o) + 1]]
          = [o \in 1 .. k |-> [l \in 1 .. n |-> Reverse(s)[(o - 1) * n + l]]]
    BY <1>5
  <1> QED BY <1>1, <1>3, <1>6

(* What the parser says of an option line. *)
LEMMA OptionLineIs ==
  ASSUME GenShape, gpc # "idle", NEW m \in 1 .. Len(AllLines),
         NEW line, line = AllLines[m], line.kind = "Option"
  PROVE  /\ line.numOptions \in Nat /\ IsList(line.strings)
         /\ Len(line.strings) \in {0, line.numOptions * Len(Languages)}
  <1>1. gArgs.pkg \in Packages
    BY DEF GenShape
  <1>2. /\ IsList(gArgs.pkg.lines) /\ IsList(gArgs.pkg.languages)
        /\ \A i \in 1 .. Len(gArgs.pkg.lines) :
             gArgs.pkg.lines[i].kind = "Option" =>
               /\ gArgs.pkg.lines[i].numOptions \in Nat /\ IsList(gArgs.pkg.lines[i].strings)
               /\ Len(gArgs.pkg.lines[i].strings) \in
                    {0, gArgs.pkg.lines[i].numOptions * Len(gArgs.pkg.languages)}
    BY <1>1, PackagesAssumption
  <1>3. PICK n : n = Len(gArgs.pkg.lines)
    OBVIOUS
  <1>4. /\ n \in Nat /\ Len(AllLines) = n
        /\ \A i \in 1 .. n : AllLines[i] = gArgs.pkg.lines[(n - i) + 1]
    BY <1>2, <1>3, ReverseIs DEF AllLines, IsList
  <1>5. PICK i : i = (n - m) + 1
    OBVIOUS
  <1>6. i \in 1 .. n /\ line = gArgs.pkg.lines[i]
    BY <1>4, <1>5
  <1>7. Len(Languages) = Len(gArgs.pkg.languages)
    BY <1>2, ReverseIs DEF Languages
  <1> QED BY <1>2, <1>3, <1>6, <1>7

LEMMA OptionNamesAre ==
  ASSUME GenShape, gpc # "idle", NEW m \in 1 .. Len(AllLines),
         NEW line, line = AllLines[m], line.kind = "Option", EnoughNames(line)
  PROVE  OptionNames(line) = OptionsOf(line)
  <1>1. /\ line.numOptions \in Nat /\ IsList(line.strings)
        /\ Len(line.strings) \in {0, line.numOptions * Len(Languages)}
    BY OptionLineIs
  <1>2. PICK n : n = Len(Languages)
    OBVIOUS
  <1>3. n \in Nat /\ n > 0
    BY <1>2, PackageLists
  <1>4. PICK k \in Nat : k = line.numOptions
    BY <1>1
  <1>5. PICK s : s = line.strings
    OBVIOUS
  <1>6. Len(s) >= k * n
    BY <1>2, <1>4, <1>5 DEF EnoughNames
  <1>7. k > 0 => k * n > 0
    BY <1>3
  <1>8. Len(s) = k * n
    <2>1. k = 0 => k * n = 0
      BY <1>3
    <2>2. PICK kn : kn = k * n
      OBVIOUS
    <2>3. kn \in Nat
      BY <1>3, <2>2
    <2>4. Len(s) \in {0, kn}
      BY <1>1, <1>2, <1>4, <1>5, <2>2
    <2> QED BY <1>6, <1>7, <2>1, <2>2, <2>3, <2>4
  <1>9. Reverse([o \in 1 .. k |-> Reverse(SubSeq(s, (o - 1) * n + 1, o * n))])
          = [o \in 1 .. k |-> [l \in 1 .. n |-> Reverse(s)[(o - 1) * n + l]]]
    BY <1>1, <1>3, <1>5, <1>8, NamesInOrder
  <1>10. OptionNames(line)
           = Reverse([o \in 1 .. k |-> Reverse(SubSeq(s, (o - 1) * n + 1, o * n))])
    BY <1>2, <1>4, <1>5 DEF OptionNames
  <1>11. OptionsOf(line) = [o \in 1 .. k |-> [l \in 1 .. n |-> Reverse(s)[(o - 1) * n + l]]]
    BY <1>2, <1>4, <1>5 DEF OptionsOf, SourceName
  <1> QED BY <1>9, <1>10, <1>11

Parts == [m \in 1 .. Len(AllLines) |-> OptionsOf(AllLines[m])]

(* The options of the lines that are done, one line after another.         *)
OptionsSoFar(options, parts, n) == \E f : OneByOne(f, parts, n) /\ options = f[n]

OptInv ==
  /\ ~ Running => gOptions = << >>
  /\ Running => IsList(gOptions) /\ OptionsSoFar(gOptions, Parts, Done)

LEMMA SameParts ==
  ASSUME gArgs' = gArgs
  PROVE  Parts' = Parts
  BY SamePackage DEF Parts, OptionsOf, SourceName, Languages

LEMMA OptionsAreLists ==
  ASSUME GenShape, gpc # "idle"
  PROVE  IsList(Parts) /\ Len(Parts) = Len(AllLines)
         /\ \A m \in 1 .. Len(AllLines) : IsList(Parts[m])
  <1>1. PICK n \in Nat : n = Len(AllLines)
    BY PackageLists
  <1>2. Parts = [m \in 1 .. n |-> Parts[m]]
    BY <1>1 DEF Parts
  <1>3. IsList(Parts) /\ Len(Parts) = n
    BY <1>2, FunctionIsList
  <1>4. ASSUME NEW m \in 1 .. n PROVE IsList(Parts[m])
    <2>1. PICK line : line = AllLines[m]
      OBVIOUS
    <2>2. Parts[m] = OptionsOf(line)
      BY <1>1, <2>1 DEF Parts
    <2>3. CASE line.kind # "Option"
      BY <2>2, <2>3, EmptyList DEF OptionsOf
    <2>4. CASE line.kind = "Option"
      <3>1. PICK k \in Nat : k = line.numOptions
        BY <1>1, <2>1, <2>4, OptionLineIs
      <3>2. PICK s : s = OptionsOf(line)
        OBVIOUS
      <3>3. s = [o \in 1 .. k |-> [l \in 1 .. Len(Languages) |-> SourceName(line, o, l)]]
        BY <2>4, <3>1, <3>2 DEF OptionsOf
      <3>4. s = [o \in 1 .. k |-> s[o]]
        BY <3>3
      <3> QED BY <2>2, <3>2, <3>4, FunctionIsList
    <2> QED BY <2>3, <2>4
  <1> QED BY <1>1, <1>3, <1>4

(* One more line is done, and its options are added. *)
LEMMA OptionsFurther ==
  ASSUME GenShape, LinesLeft, Running, gLines # << >>, OptInv,
         gArgs' = gArgs, gLines' = Tail(gLines), Running',
         gOptions' = gOptions \o Parts[Done + 1]
  PROVE  OptInv'
  <1>1. gpc # "idle"
    BY DEF Running
  <1>2. PICK n : n = Done
    OBVIOUS
  <1>3. n \in Nat /\ n + 1 \in 1 .. Len(AllLines) /\ Done' = n + 1
    BY <1>1, <1>2, TakesLine
  <1>4. PICK parts : parts = Parts
    OBVIOUS
  <1>5. Parts' = parts
    BY <1>4, SameParts
  <1>6. PICK options : options = gOptions
    OBVIOUS
  <1>7. IsList(options) /\ \E f : OneByOne(f, parts, n) /\ options = f[n]
    BY <1>2, <1>4, <1>6 DEF OptInv, OptionsSoFar
  <1>8. \E f : OneByOne(f, parts, n + 1) /\ options \o parts[n + 1] = f[n + 1]
    BY <1>3, <1>7, OneByOneFurther
  <1>9. gOptions' = options \o parts[n + 1]
    BY <1>2, <1>4, <1>6
  <1>10. IsList(parts[n + 1])
    BY <1>1, <1>3, <1>4, OptionsAreLists
  <1>11. IsList(gOptions')
    BY <1>7, <1>9, <1>10, ConcatIs
  <1>12. OptionsSoFar(gOptions', Parts', Done')
    BY <1>3, <1>5, <1>8, <1>9, Zenon DEF OptionsSoFar
  <1> QED BY <1>11, <1>12 DEF OptInv

(* A line of another kind has no options. *)
LEMMA OtherLineOptions ==
  ASSUME GenShape, LinesLeft, Running, gLines # << >>, OptInv,
         gArgs' = gArgs, gLines' = Tail(gLines), Running',
         Head(gLines).kind # "Option", gOptions' = gOptions
  PROVE  OptInv'
  <1>1. gpc # "idle"
    BY DEF Running
  <1>2. Done + 1 \in 1 .. Len(AllLines) /\ Head(gLines) = AllLines[Done + 1]
    BY <1>1, TakesLine
  <1>3. Parts[Done + 1] = << >>
    BY <1>2 DEF Parts, OptionsOf
  <1>4. IsList(gOptions)
    BY DEF OptInv
  <1>5. gOptions \o << >> = gOptions
    BY <1>4, EmptyConcat
  <1> QED BY <1>3, <1>5, OptionsFurther

LEMMA OptionLineOptions ==
  ASSUME GenInv, OptInv, GenOption
  PROVE  OptInv'
  <1>1. /\ AtLine({"Option"}) /\ EnoughNames(Head(gLines))
        /\ gOptions' = gOptions \o OptionNames(Head(gLines))
        /\ gLines' = Tail(gLines) /\ gpc' = gpc /\ gArgs' = gArgs
    BY DEF GenOption
  <1>2. /\ gpc = "lines" /\ gLines # << >> /\ Head(gLines).kind = "Option"
        /\ Running /\ Running'
    BY <1>1 DEF AtLine, Running
  <1>3. GenShape /\ LinesLeft
    BY <1>2 DEF GenInv, LinesInv
  <1>4. Done + 1 \in 1 .. Len(AllLines) /\ Head(gLines) = AllLines[Done + 1]
    BY <1>2, <1>3, TakesLine
  <1>5. OptionNames(Head(gLines)) = OptionsOf(Head(gLines))
    BY <1>1, <1>2, <1>3, <1>4, OptionNamesAre
  <1>6. Parts[Done + 1] = OptionsOf(Head(gLines))
    BY <1>4 DEF Parts
  <1> QED BY <1>1, <1>2, <1>3, <1>5, <1>6, OptionsFurther

LEMMA OptNext == BothInv /\ OptInv /\ [Next]_allVars => OptInv'
  <1> SUFFICES ASSUME BothInv, OptInv, [Next]_allVars PROVE OptInv'
    OBVIOUS
  <1>1. GenInv
    BY DEF BothInv
  <1>2. CASE UNCHANGED genVars
    <2>1. /\ gpc' = gpc /\ gArgs' = gArgs /\ gLines' = gLines /\ gOptions' = gOptions
      BY <1>2 DEF genVars
    <2>2. /\ Running' <=> Running
          /\ AllLines' = AllLines /\ Parts' = Parts
      BY <2>1, SamePackage, SameParts DEF Running
    <2>3. Done' = Done
      BY <2>1, <2>2 DEF Done
    <2> QED BY <2>1, <2>2, <2>3 DEF OptInv, OptionsSoFar
  <1>3. CASE GenInfo
    <2>1. ~ Running /\ gOptions = << >> /\ gArgs' = gArgs /\ gOptions' = << >>
          /\ gLines' = AllLines /\ Running'
      BY <1>3 DEF GenInfo, OptInv, Running, AllLines
    <2>2. GenInv'
      BY <1>1, <1>3, GenInfoStep
    <2>3. AllLines' = AllLines
      BY <2>1, SamePackage
    <2>4. PICK n : n = Len(AllLines)
      OBVIOUS
    <2>5. n \in Nat
      <3>1. GenShape /\ gpc # "idle"
        BY <1>1, <1>3 DEF GenInv, GenInfo
      <3> QED BY <2>4, <3>1, PackageLists
    <2>6. Done' = 0
      BY <2>1, <2>3, <2>4, <2>5 DEF Done
    <2>7. PICK f : f = [m \in {0} |-> << >>]
      OBVIOUS
    <2>8. OneByOne(f, Parts', 0) /\ f[0] = << >>
      BY <2>7 DEF OneByOne
    <2>9. OptionsSoFar(gOptions', Parts', Done')
      BY <2>1, <2>6, <2>8 DEF OptionsSoFar
    <2> QED BY <2>1, <2>9, EmptyList DEF OptInv
  <1>4. CASE GenOption
    BY <1>1, <1>4, OptionLineOptions
  <1>5. CASE GenFile \/ GenComponent \/ GenIf \/ GenElse \/ GenEndIf
    <2>1. /\ AtLine({"File"}) \/ AtLine({"If"}) \/ AtLine({"ElseIf", "Else"})
             \/ AtLine({"EndIf"})
          /\ gLines' = Tail(gLines) /\ gpc' = gpc /\ gArgs' = gArgs /\ gOptions' = gOptions
      BY <1>5 DEF GenFile, GenComponent, GenIf, GenElse, GenEndIf
    <2>2. /\ gpc = "lines" /\ gLines # << >> /\ Head(gLines).kind # "Option"
          /\ Running /\ Running'
      BY <2>1 DEF AtLine, Running
    <2>3. GenShape /\ LinesLeft
      BY <1>1, <2>2 DEF GenInv, LinesInv
    <2> QED BY <2>1, <2>2, <2>3, OtherLineOptions
  <1>6. CASE GenLanguageFile
    <2>1. /\ gpc \in {"lines", "language"} /\ gLines # << >>
          /\ Head(gLines).kind = "LanguageFile" /\ gpc' \in {"lines", "language"}
      BY <1>1, <1>6, LanguageLineTaken
    <2>2. gLines' = Tail(gLines) /\ gArgs' = gArgs /\ gOptions' = gOptions
      BY <1>6 DEF GenLanguageFile
    <2>3. Running /\ Running'
      BY <2>1 DEF Running
    <2>4. GenShape /\ LinesLeft
      BY <1>1, <2>3 DEF GenInv, LinesInv
    <2> QED BY <2>1, <2>2, <2>3, <2>4, OtherLineOptions
  <1>7. CASE GenInfoFails \/ GenFileFails \/ GenOptionDies \/ GenSignFails \/ GenWrite
    <2>1. gpc' = "idle" /\ gOptions' = << >>
      BY <1>7 DEF GenInfoFails, GenFileFails, GenOptionDies, GenSignFails, GenWrite, GenFail,
                  NoGenRun
    <2> QED BY <2>1 DEF OptInv, Running
  <1>8. ASSUME NEW pkg \in Packages, NEW target \in File, GenOpen(pkg, target)
        PROVE  OptInv'
    BY <1>8 DEF GenOpen, OptInv, Running
  <1>9. CASE GenCannotOpen
    BY <1>2, <1>9 DEF GenCannotOpen
  <1>10. UNCHANGED allVars => UNCHANGED genVars
    BY DEF allVars
  <1> QED
    BY <1>2, <1>3, <1>4, <1>5, <1>6, <1>7, <1>8, <1>9, <1>10 DEF Next, GenNext, GenStep

LEMMA OptionsMeanLines ==
  ASSUME GenInv, OptInv, AllLinesDone
  PROVE  OffersAsWritten
  <1>1. Running /\ gpc # "idle" /\ GenShape
    BY DEF AllLinesDone, Running, GenInv
  <1>2. PICK n \in Nat : n = Len(AllLines)
    BY <1>1, PackageLists
  <1>3. Done = n
    BY <1>2, EmptyList DEF AllLinesDone, Done
  <1>4. PICK f : OneByOne(f, Parts, n) /\ gOptions = f[n]
    BY <1>1, <1>3 DEF OptInv, OptionsSoFar
  <1>5. PICK parts : parts = Parts
    OBVIOUS
  <1>6. /\ IsList(parts) /\ Len(parts) = n
        /\ \A m \in 1 .. n : IsList(parts[m])
    BY <1>1, <1>2, <1>5, OptionsAreLists
  <1>7. f[n] = FlattenSeq(parts)
    BY <1>4, <1>5, <1>6, OneByOneIsFlat
  <1>8. FlattenSeq(Parts) = FlattenSeq([m \in 1 .. Len(AllLines) |-> OptionsOf(AllLines[m])])
    BY DEF Parts
  <1> QED BY <1>4, <1>5, <1>7, <1>8, Zenon DEF OffersAsWritten

-----------------------------------------------------------------------------
(* For every package, whatever nesting of conditions, languages, embedded  *)
(* packages and options it has, GenerateSISFile (sisfilegen.cpp) builds an *)
(* install block that installs what the lines of the package say and       *)
(* options in the order of the package, and AddElement never aborts.       *)
(* Embedded packages are known by their UID, and so the SIS files that are *)
(* there at the beginning must name the same package outside and inside.   *)
THEOREM TreeAlwaysFollowsLines == UidsAgree /\ Spec => []TreeFollowsLines
  <1>1. UidsAgree /\ Init => BothInv /\ UidInv /\ BuiltInv /\ OptInv
    <2> SUFFICES ASSUME UidsAgree, Init PROVE BothInv /\ UidInv /\ BuiltInv /\ OptInv
      OBVIOUS
    <2>1. ~ Running /\ gOptions = << >>
      BY DEF Init, GenInit, Running
    <2> QED BY <2>1, BothInit, UidInit DEF BuiltInv, OptInv
  <1>2. BothInv /\ UidInv /\ BuiltInv /\ OptInv /\ [Next]_allVars
          => BothInv' /\ UidInv' /\ BuiltInv' /\ OptInv'
    BY BothNext, UidNext, BuiltNext, OptNext
  <1>3. BothInv /\ BuiltInv /\ OptInv => TreeFollowsLines
    <2> SUFFICES ASSUME BothInv, BuiltInv, OptInv PROVE TreeFollowsLines
      OBVIOUS
    <2>1. GenInv
      BY DEF BothInv
    <2>2. GenTypeOK
      BY <2>1, GenTyped
    <2>3. AllLinesDone => InstallsAsWritten
      BY <2>1, BuiltMeansLines
    <2>4. AllLinesDone => OffersAsWritten
      BY <2>1, OptionsMeanLines
    <2> QED BY <2>2, <2>3, <2>4 DEF TreeFollowsLines
  <1> QED
    BY <1>1, <1>2, <1>3, PTL DEF Spec

=============================================================================
