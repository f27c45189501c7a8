---------------------------- MODULE PackageStore ----------------------------
(***************************************************************************)
(* What signing promises, without the format of SIS files: a directory of  *)
(* packages, each a body that is installed and the list of those who       *)
(* signed it.  A change of a package is decided at one moment, from one    *)
(* version of one file; then the target may be torn for a while, and then  *)
(* it holds the whole result.  There is no other step.                     *)
(***************************************************************************)
EXTENDS Naturals, Sequences

CONSTANTS
  Name,      (* the names of files *)
  Signer     (* those who can sign *)

VARIABLES
  store,     (* what each name stands for *)
  job        (* the change that has been decided and is not yet done *)

Missing == [is |-> "missing"]
Torn    == [is |-> "torn"]

IsPackage(x) == x.is = "package"

NoJob == [state |-> "none"]

WithSigner(p, s) == [p EXCEPT !.signers = Append(@, s)]

WithoutLast(p) ==
  IF p.signers = << >> THEN p
  ELSE [p EXCEPT !.signers = SubSeq(@, 1, Len(@) - 1)]

StoreInit ==
  /\ \A n \in Name : store[n] = Missing \/ IsPackage(store[n])
  /\ job = NoJob

Decide(to, p) ==
  /\ job = NoJob
  /\ job' = [state |-> "decided", to |-> to, result |-> p]
  /\ UNCHANGED store

DecideSign(from, to, s) ==
  IsPackage(store[from]) /\ Decide(to, WithSigner(store[from], s))

DecideUnsign(from, to) ==
  IsPackage(store[from]) /\ Decide(to, WithoutLast(store[from]))

Tear ==
  /\ job.state = "decided"
  /\ store' = [store EXCEPT ![job.to] = Torn]
  /\ job' = [job EXCEPT !.state = "torn"]

Complete ==
  /\ job.state = "torn"
  /\ store' = [store EXCEPT ![job.to] = job.result]
  /\ job' = NoJob

StoreNext ==
  \/ \E from, to \in Name : \/ \E s \in Signer : DecideSign(from, to, s)
                            \/ DecideUnsign(from, to)
  \/ Tear
  \/ Complete

storeVars == <<store, job>>

StoreSafety == StoreInit /\ [][StoreNext]_storeVars

(* What is decided is done. *)
StoreSpec == StoreSafety /\ WF_storeVars(Tear \/ Complete)

=============================================================================
