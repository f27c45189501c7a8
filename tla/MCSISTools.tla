----------------------------- MODULE MCSISTools ----------------------------
(***************************************************************************)
(* makesis and signsis on two files, in three scenes that are chosen at    *)
(* the start:                                                              *)
(*   together   both at the same time, on packages that embed others;      *)
(*   packages   makesis alone, on packages with everything that a package  *)
(*              may hold and everything that may be wrong with one;        *)
(*   scripts    one run of makesis on every well-nested script of          *)
(*              conditions, files and language blocks up to a length.      *)
(***************************************************************************)
EXTENDS SISTools, PkgSemantics, MCPackages

CONSTANTS
  MaxLines,      (* bound: lines of a script *)
  Kinds          (* the sorts of line that the scripts use *)

CondLine(k, c) == [kind |-> k, cond |-> c]

(* Lines, or groups of lines, that open and close nothing. *)
SimpleLines ==
  UNION {IF "file"   \in Kinds THEN {<<FileLine("Simple", s)>> : s \in Sources} ELSE {},
         IF "null"   \in Kinds THEN {<<FileLine("Null", NoSource)>>} ELSE {},
         IF "comp"   \in Kinds THEN {<<CompLine(f, "u")>> : f \in File} ELSE {},
         IF "lang"   \in Kinds THEN {<<LangLine(x), LangLine(y)>>} ELSE {},
         IF "option" \in Kinds THEN {<<OptionLine>>} ELSE {}}

RECURSIVE Scripts(_), Chains(_)

(* Well-nested scripts of at most n lines. *)
Scripts(n) ==
  {<< >>} \cup
  UNION {{z \o s : s \in Scripts(n - Len(z))} : z \in {l \in SimpleLines : Len(l) <= n}} \cup
  (IF n < 2 THEN {}
   ELSE UNION {{<<CondLine("If", c)>> \o z \o s : s \in Scripts(n - 1 - Len(z))} :
                 c \in Conditions, z \in Chains(n - 1)})

(* The inside of a condition up to its ENDIF. *)
Chains(n) ==
  UNION {{w \o <<[kind |-> "EndIf"]>>} \cup
         {w \o <<[kind |-> "Else"]>> \o d \o <<[kind |-> "EndIf"]>> :
            d \in IF n - Len(w) >= 2 THEN Scripts(n - Len(w) - 2) ELSE {}} \cup
         {w \o <<CondLine("ElseIf", c)>> \o z :
            c \in Conditions,
            z \in IF n - Len(w) >= 2 THEN Chains(n - Len(w) - 1) ELSE {}} :
           w \in Scripts(n - 1)}

ScriptPackages ==
  {Pkg(<< >>, s, FALSE, FALSE) : s \in {t \in Scripts(MaxLines) : Len(t) <= MaxLines}}

MCPackages == AllPackages \cup ScriptPackages

VARIABLE scene

(* Bound: what is built in a scene, under which names, in how many runs. *)
Scene(s) ==
  CASE s = "together" -> [builds |-> EmbeddingPackages, targets |-> File, runs |-> MaxRuns]
    [] s = "packages" -> [builds |-> AllPackages, targets |-> File, runs |-> 2]
    [] s = "scripts"  -> [builds |-> ScriptPackages, targets |-> {a}, runs |-> 1]

MCInit ==
  /\ Init
  /\ scene \in {"together", "packages", "scripts"}
  /\ scene = "together" => IsSis(disk[a])
  /\ scene = "scripts" => \A f \in File : disk[f] = NoFile

MCNext ==
  /\ UNCHANGED scene
  /\ \/ /\ runs < Scene(scene).runs
        /\ \E pkg \in Scene(scene).builds, target \in Scene(scene).targets :
             GenOpen(pkg, target)
        /\ UNCHANGED signVars
     \/ (GenCannotOpen \/ GenStep) /\ UNCHANGED signVars
     \/ scene = "together" /\ SignNext /\ UNCHANGED genVars

MCSpec ==
  /\ MCInit /\ [][MCNext]_<<allVars, scene>>
  /\ WF_<<allVars, scene>>(GenStep /\ UNCHANGED <<signVars, scene>>)
  /\ WF_<<allVars, scene>>(SignStep /\ UNCHANGED <<genVars, scene>>)

=============================================================================
