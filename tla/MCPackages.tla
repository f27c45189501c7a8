---------------------------- MODULE MCPackages -----------------------------
(***************************************************************************)
(* Some packages for makesis to build out of two files, and a package of   *)
(* another tool to begin with.                                             *)
(***************************************************************************)
EXTENDS SISFileGen

CONSTANTS
  a, b,          (* the files *)
  x, y,          (* the contents that exist *)
  missing        (* a source that does not exist *)

(* Content x is worth deflating, y is not; controllers are, once signed. *)
MCShrinks(bytes) ==
  LET f == LoadOneField(bytes)
  IN  IF f \in {x, y} THEN f = x ELSE HasElement(f, SigChain)

FileLine(type, src) == [kind |-> "File", type |-> type, src |-> src]
CompLine(f, uid)    == [kind |-> "File", type |-> "Component", src |-> f, uid |-> uid]
LangLine(src)       == [kind |-> "LanguageFile", type |-> "Simple", src |-> src]
LangComp(f)         == [kind |-> "LanguageFile", type |-> "Component", src |-> f, uid |-> "u"]

OptionLine ==
  [kind |-> "Option", numOptions |-> 2, strings |-> <<"2fr", "2en", "1fr", "1en">>]

Pkg(logos, lines, selfsign, noCompress) ==
  [uid |-> "u", vendorName |-> TRUE, localizedVendor |-> TRUE,
   languages |-> <<"fr", "en">>, logos |-> logos, lines |-> Reverse(lines),
   selfsign |-> selfsign, noCompress |-> noCompress, stub |-> FALSE]

(* Two files, the first of them without data. *)
Plain1 == Pkg(<< >>, <<FileLine("Null", NoSource), FileLine("Simple", x)>>, FALSE, FALSE)

(* Embeds file a behind a file of its own, and is self-signed. *)
Embeds == Pkg(<< >>, <<FileLine("Simple", y), CompLine(a, "u")>>, TRUE, FALSE)

(* Two logos; embeds file b twice, once for a language; not compressed. *)
EmbedsMore ==
  Pkg(<<x, y>>, <<CompLine(b, "u"), FileLine("Run", x), LangComp(b), LangLine(y)>>,
      FALSE, TRUE)

(* Two lines of options around a file. *)
Options ==
  Pkg(<< >>, <<OptionLine, FileLine("Simple", y),
               [OptionLine EXCEPT !.numOptions = 1, !.strings = <<"3fr", "3en">>]>>,
      FALSE, FALSE)

EmbeddingPackages == {Embeds, EmbedsMore}

(* What can go wrong with a package. *)
Broken ==
  { [Plain1 EXCEPT !.vendorName = FALSE],
    [Plain1 EXCEPT !.localizedVendor = FALSE],
    Pkg(<<missing>>, << >>, FALSE, FALSE),
    Pkg(<< >>, <<FileLine("Simple", x), FileLine("Simple", missing)>>, FALSE, FALSE),
    Pkg(<< >>, <<LangLine(x), LangLine(missing)>>, FALSE, FALSE),
    Pkg(<< >>, <<CompLine(a, "v")>>, FALSE, FALSE),
    Pkg(<< >>, <<[OptionLine EXCEPT !.strings = << >>]>>, FALSE, FALSE) }

(* One language twice. *)
Twice ==
  [Pkg(<< >>, <<LangLine(x), LangLine(y)>>, FALSE, FALSE) EXCEPT !.languages = <<"en", "en">>]

AllPackages ==
  {Plain1, Embeds, EmbedsMore, Options, Twice, [Embeds EXCEPT !.stub = TRUE]} \cup Broken

(* A package of another tool, signed, whose files are not compressed. *)
ForeignBody ==
  << SISInfo("u"),
     [id |-> "SISInstallBlock",
      arrays |-> << [type |-> "SISFileDescription",
                     elems |-> <<FileDescription(EmbedsMore, x, 0)>>],
                    NewArray("SISController"), NewArray("SISIf") >>,
      root |-> InstallBlock(0)] >>

ForeignController ==
  ForeignBody \o <<SISSignatureCertificateChain("other", ForeignBody), SISDataIndex(0)>>

ForeignContents ==
  LET c == CopyFieldData(NewCompressed(ForeignController, ECompressAuto))
      d == SISData(<< <<FileData(EmbedsMore, x)>> >>)
  IN  <<SISDataChecksum(crcSlow(d)), c, d>>

MCForeign == {SisFile("u", ForeignContents)}

=============================================================================
