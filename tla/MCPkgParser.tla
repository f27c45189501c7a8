---------------------------- MODULE MCPkgParser ----------------------------
(***************************************************************************)
(* PKG files of a few items, for packages in no, one or two languages.     *)
(***************************************************************************)
EXTENDS PkgParser

CONSTANTS
  Sorts,         (* the sorts of item that a file is made of *)
  Nesting,       (* the sorts that longer files are made of *)
  MaxSorts       (* bound: items of a file that is not made of Nesting alone *)

(* The file x.sis holds a package with UID 1. *)
MCExisting == {"x", "x.sis"}
MCSisNames == {"x.sis"}
MCUidOf(f) == IF f = "x.sis" THEN 1 ELSE 0

Names(n) == [i \in 1 .. n |-> "n"]

AllItems ==
  {[item |-> "languages", langs |-> l] : l \in {<<"FR">>, <<"FR", "EN">>, <<"??">>}} \cup
  {[item |-> "header", names |-> Names(n), uid |-> 1] : n \in {1, 2}} \cup
  {[item |-> i, names |-> Names(n)] :
     i \in {"localizedVendor", "dependency", "platformDependency"}, n \in {1, 2}} \cup
  {[item |-> "options", groups |-> g] :
     g \in {<<Names(0)>>, <<Names(1)>>, <<Names(2), Names(2)>>}} \cup
  {[item |-> "file", src |-> s, type |-> t, options |-> FALSE, dest |-> "c:"] :
     s \in {"", "x", "gone"}, t \in {"Simple", "Null"}} \cup
  {[item |-> "file", src |-> "x", type |-> "Simple", options |-> o, dest |-> ":"] :
     o \in BOOLEAN} \cup
  {[item |-> "file", src |-> "x", type |-> t, options |-> TRUE, dest |-> "c:"] :
     t \in {"Null", "Run"}} \cup
  {[item |-> "package", src |-> s, uid |-> u] : s \in {"x", "x.sis"}, u \in {0, 1}} \cup
  {[item |-> "langFiles", srcs |-> s, type |-> t, options |-> FALSE] :
     s \in {<<"x">>, <<"x", "x">>, <<"x", "gone">>}, t \in {"Run", "Null"}} \cup
  {[item |-> "langPackages", srcs |-> s, uid |-> 0] :
     s \in {<<"x.sis">>, <<"x.sis", "x.sis">>}} \cup
  {[item |-> "logo", src |-> "x"], [item |-> "capability", pairs |-> <<1, 2>>]} \cup
  {[item |-> i, cond |-> "c"] : i \in {"if", "elseif"}} \cup
  {[item |-> i] : i \in {"vendor", "signature", "else", "endif", "comment", "unknown"}}

MCItems == {it \in AllItems : it.item \in Sorts \cup Nesting}

(* Short files of all sorts, and long ones of conditions. *)
VARIABLE long

MCInit == PInit /\ long \in BOOLEAN

MCNext ==
  /\ UNCHANGED long
  /\ \/ /\ long \/ pRead < MaxSorts
        /\ \E it \in MCItems :
             /\ it.item \in IF long THEN Nesting ELSE Sorts
             /\ ParseItem(it)
     \/ ParseEnds
     \/ ParseEndsInside

MCSpec == MCInit /\ [][MCNext]_<<pVars, long>>

=============================================================================
