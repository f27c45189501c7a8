----------------------------- MODULE MCMakeSis -----------------------------
(***************************************************************************)
(* Two runs of makesis at once, after one that is over: it only displayed  *)
(* the help, or was killed when it had just made the first directory.      *)
(* Both are states that MSpec reaches; in the second, the directories run  *)
(* out for one of the others.                                              *)
(***************************************************************************)
EXTENDS MakeSis

CONSTANT Before      \* the run that is over

After(killed, there, else) ==
  [p \in Proc |-> IF killed /\ p = Before THEN there ELSE else]

MCInit ==
  \E killed \in BOOLEAN :
    /\ dirs = IF killed THEN {0} ELSE {}
    /\ entry = [s \in Slots |-> [x \in Suffixes |-> None]]
    /\ data = [f \in Proc |-> NoPieces]
    /\ mpc = [After(killed, "killed", "idle") EXCEPT
                ![Before] = IF killed THEN "killed" ELSE "done"]
    /\ mSlot = After(killed, 0, NoSlot)
    /\ mOwn = After(killed, TRUE, FALSE)
    /\ mRet = After(killed, "probe", "idle")
    /\ mSuffix = [p \in Proc |-> 0]
    /\ mFile = [p \in Proc |-> None]
    /\ mOff = [p \in Proc |-> 0]
    /\ mRead = [p \in Proc |-> NoPieces]
    /\ mErr = [p \in Proc |-> "none"]

MCSpec == MCInit /\ [][MNext]_mVars /\ \A p \in Proc : WF_mVars(MStep(p))

=============================================================================
