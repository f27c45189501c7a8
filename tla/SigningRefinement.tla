-------------------------- MODULE SigningRefinement --------------------------
(***************************************************************************)
(* signsis implements PackageStore.  A name stands for the body of its     *)
(* package and for the keys of those of its signatures that verify, in     *)
(* order; a change is decided when the list of elements in memory is       *)
(* edited (signsis.cpp 207-211 and 269-300).  Loading, failing to sign,    *)
(* displaying, compressing and refreshing checksums are stuttering steps.  *)
(***************************************************************************)
EXTENDS SignSis

(* The elements of c that are chosen, in their order. *)
Kept(c, chosen) ==
  LET upTo[n \in 0 .. Len(c)] ==
        IF n = 0 THEN << >>
        ELSE IF chosen[n] THEN Append(upTo[n - 1], c[n]) ELSE upTo[n - 1]
  IN  upTo[Len(c)]

(* Which elements are signatures that cover what stands in front of them. *)
Verifies(c) ==
  [i \in 1 .. Len(c) |-> c[i].id = SigChain /\ c[i].over = SubSeq(c, 1, i - 1)]

Signers(c) ==
  LET v == Kept(c, Verifies(c)) IN [i \in 1 .. Len(v) |-> v[i].key]

(* A controller but for its signatures. *)
Unsigned(c) == Kept(c, [i \in 1 .. Len(c) |-> c[i].id # SigChain])

PackageOf(uid, c, units) ==
  [is      |-> "package",
   body    |-> [uid |-> uid, fields |-> Unsigned(c), units |-> units],
   signers |-> Signers(c)]

(* What a name stands for. *)
Meaning(f) ==
  CASE IsSis(f) -> PackageOf(f.uid, ControllerOf(f), UnitsOf(f))
    [] f.kind = "partial" -> [is |-> "torn"]
    [] OTHER -> [is |-> "missing"]

StoreNow == [f \in File |-> Meaning(disk[f])]

JobNow ==
  IF spc \in {"rebuild", "open", "write"}
  THEN [state  |-> IF spc = "write" THEN "torn" ELSE "decided",
        to     |-> sArgs.output,
        result |-> PackageOf(sUid, sController.iField,
                             FindElement(sContents, "SISData").units)]
  ELSE [state |-> "none"]

P == INSTANCE PackageStore WITH
       Name <- File, Signer <- Key, store <- StoreNow, job <- JobNow

(* Whatever signsis is asked to do, a package on disk changes only as a    *)
(* whole: from one version of the input that was read, by one signer more  *)
(* or the last signer less, with the body as it was; and a file that was   *)
(* torn for that is completed.                                             *)
SigningPromise == P!StoreSpec

=============================================================================
