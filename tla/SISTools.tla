------------------------------ MODULE SISTools -----------------------------
(***************************************************************************)
(* makesis and signsis at work in the same directory, as a makefile runs   *)
(* them: packages are built, embedded in other packages, signed, signed    *)
(* again, unsigned, rebuilt.  A parallel make may run the two at the same  *)
(* time; they share nothing but the files.                                 *)
(***************************************************************************)
EXTENDS SISFileGen, SignSis

CONSTANT MaxNesting      (* bound: how deep nested packages are looked at *)

ASSUME NestingAssumption == MaxNesting \in Nat

allVars == <<diskVars, genVars, signVars>>

Init == DiskInit /\ GenInit /\ SignInit

Next ==
  \/ GenNext /\ UNCHANGED signVars
  \/ SignNext /\ UNCHANGED genVars

Spec ==
  /\ Init /\ [][Next]_allVars
  /\ WF_allVars(GenStep /\ UNCHANGED signVars)
  /\ WF_allVars(SignStep /\ UNCHANGED genVars)

-----------------------------------------------------------------------------
(***************************************************************************)
(* An installer finds the files of an embedded package by adding up the    *)
(* data indices of the controllers on the way to it: each index counts     *)
(* from the data of the package around it.  Nested(c)[n] holds the         *)
(* controllers at depth n with the sum for each.                           *)
(***************************************************************************)
Nested(c) ==
  LET level[n \in 0 .. MaxNesting] ==
        IF n = 0 THEN {<<c, DataIndexOf(c)>>}
        ELSE LET above == level[n - 1]
             IN  UNION {{<<e, x[2] + DataIndexOf(e)>> : e \in Embedded(x[1])} :
                          x \in above}
  IN  UNION {level[n] : n \in 0 .. MaxNesting}

(* At every depth of every file, each description leads to the stored file *)
(* whose hash it holds, and each signature covers what is in front of it:  *)
(* LoadEmbeddedSis changes one data index, and need not change more.       *)
NestedPackagesSound ==
  \A f \in SisFiles : \A x \in Nested(ControllerOf(f)) :
    /\ SignaturesCoverPrefix(x[1])
    /\ DataIndexLast(x[1])
    /\ x[2] + 1 <= Len(UnitsOf(f))
    /\ FilesResolve(x[1], PlainUnits(UnitsOf(f))[x[2] + 1])

(* Both programs always come to an end, also when each meets files that    *)
(* the other is about to write.                                            *)
BothTerminate ==
  /\ gpc # "idle" ~> gpc = "idle"
  /\ spc # "idle" ~> spc = "idle"

=============================================================================
