---- MODULE MCLibraryRepair ----
(* Libraries of two files: a comic at the root, or where another comic     *)
(* belongs, and a file in a folder it may not belong to; and libraries of  *)
(* one: a file of any other kind, or one as some decision was published.   *)
EXTENDS LibraryRepair, TLC

Comic == [library |-> "Comics", container |-> "cbz", comicinfo |-> TRUE, creators |-> TRUE,
          series |-> "A", title |-> "", format |-> "", number |-> "1", volume |-> ""]
Book == [Comic EXCEPT !.library = "Books", !.container = "epub", !.series = "", !.title = "T",
                      !.number = ""]

ComicPdf == [Comic EXCEPT !.container = "pdf", !.series = "", !.number = ""]

Annual == [Comic EXCEPT !.format = "annual", !.number = ""]
TitledAnnual == [Annual EXCEPT !.title = "T"]

Together ==
  {Comic,
   [Comic EXCEPT !.container = "cbr"],
   [Comic EXCEPT !.format = "trade paperback", !.title = "T"],
   [Comic EXCEPT !.format = "one-shot", !.number = ""],
   [Comic EXCEPT !.series = "B"],
   [Book EXCEPT !.series = "A", !.number = "1"]}
ByThemselves ==
  {[Comic EXCEPT !.format = "trade paperback", !.number = "1.5"],
   [Comic EXCEPT !.format = "trade paperback", !.container = "cbr"],
   TitledAnnual,
   [Comic EXCEPT !.title = "deluxe edition"],
   ComicPdf,
   [Comic EXCEPT !.container = "unreadable"],
   Book, [Book EXCEPT !.title = ""], [Book EXCEPT !.creators = FALSE],
   [Book EXCEPT !.container = "pdf"]}

FolderA == << <<"A">> >>
FolderB == << <<"B">> >>
Odd == <<"A", "1">>
Lying(c, folder, name) ==
  [library |-> c.library, folder |-> folder, name |-> name,
   ext |-> IF c.container = "unreadable" THEN "cbz" ELSE c.container]

Shelved1 ==
  {[path |-> Lying(c, <<>>, Odd), content |-> c] :
     c \in {Comic, [Comic EXCEPT !.format = "trade paperback", !.container = "cbr"]}}
  \cup {[path |-> Lying(c, FolderA, <<"A", "#1">>), content |-> c] :
          c \in {[Comic EXCEPT !.series = "B"]}}

Shelved2 == {[path |-> Lying(c, FolderB, Odd), content |-> c] : c \in Together \cup ByThemselves}

As(c, i) == c @@ [id |-> i, rev |-> 0]

Library(s, t) ==
  [p \in {s.path, t.path} |-> IF p = s.path THEN As(s.content, 1) ELSE As(t.content, 2)]

(* Decisions: candidates, overrides that go past what was derived from the *)
(* candidate, and manual identities.                                       *)
IssueFound ==
  [record |-> "comic_issue", media |-> "comic", type |-> "issue", series |-> "A",
   year |-> " (1)", title |-> "", creators |-> TRUE, number |-> "1", volume |-> ""]
TradeFound == [IssueFound EXCEPT !.record = "comic_collection", !.type = "trade", !.title = "T"]
BookFound == [IssueFound EXCEPT !.record = "book_edition", !.media = "book", !.title = "T"]
NoOverrides == <<>>
Accepted(c) == [manual |-> FALSE, fields |-> c, overrides |-> NoOverrides]
Entered(c) == [manual |-> TRUE, fields |-> c, overrides |-> NoOverrides]

MCDecided ==
  {Accepted(c) : c \in {IssueFound, [IssueFound EXCEPT !.title = "T"], [IssueFound EXCEPT !.year = ""],
                        [IssueFound EXCEPT !.number = "1.5", !.type = "annual"],
                        [IssueFound EXCEPT !.number = "0002"],
                        [IssueFound EXCEPT !.number = "", !.type = "graphic-novel"],
                        TradeFound, [TradeFound EXCEPT !.number = "1.5", !.type = "omnibus"],
                        [TradeFound EXCEPT !.number = ""],
                        BookFound, [BookFound EXCEPT !.series = ""]}}
  \cup {Entered(c) : c \in {[IssueFound EXCEPT !.type = "one-shot", !.title = "T"],
                             [TradeFound EXCEPT !.volume = "2"], BookFound}}
  \cup {[Accepted(IssueFound) EXCEPT !.overrides = [type |-> "trade"]],
        [Accepted(TradeFound) EXCEPT !.overrides = [number |-> "2"]]}

MCSources ==
  {[Comic EXCEPT !.title = "deluxe edition", !.volume = "1"], [Comic EXCEPT !.container = "cbr"],
   ComicPdf, [Book EXCEPT !.container = "pdf"],
   [Book EXCEPT !.series = "B", !.number = "2"]}

Publication(d, s) == [path |-> Destination(Resolved(d), s), content |-> Written(Resolved(d), s)]
MCPublications ==
  {Publication(x[1], x[2]) : x \in {y \in MCDecided \X MCSources : Publishable(Resolved(y[1]), y[2])}}

(* A file lies where another belongs, whose name lacks what its own has.   *)
Misnamed ==
  Library([path |-> Lying(Annual, FolderA \o <<Specials>>, <<"A">>),
           content |-> TitledAnnual],
          [path |-> Lying(Annual, FolderB, <<"A">>), content |-> Annual])

(* Two files that may want one place or one folder, the other kinds by     *)
(* themselves, and every publication by itself.                            *)
MCLibraries ==
  {Library(s, t) : s \in {x \in Shelved1 : x.content = Comic},
                   t \in {x \in Shelved2 : x.content \in Together}}
  \cup {Library(s, t) : s \in Shelved1, t \in {x \in Shelved2 : x.content = Comic}}
  \cup {Library(s, s) : s \in MCPublications \cup {x \in Shelved2 : x.content \in ByThemselves}}
  \cup {Misnamed}

(* A book of a series, published with every part of its name.              *)
PublishedBooks ==
  {Publication(x[1], x[2]) : x \in {y \in MCDecided \X MCSources :
      LET id == Resolved(y[1])
      IN Publishable(id, y[2]) /\ id.media = "book" /\ id.series # "" /\ id.number # ""}}
MCShelvedBooks == {Library(x, [path |-> Lying(Comic, FolderB, Odd), content |-> Comic]) : x \in PublishedBooks}

(* "Warnings mean the media ... does not match what kavita-ingest would    *)
(* publish today": library-fix plans nothing for a book that lies as it    *)
(* was published.  It does for a PDF: the check does not read the series   *)
(* the writer put into its XMP.                                            *)
PublishedBookStays ==
  \A f \in Fixers : At(f, "next") =>
    \A a \in fixer[f].todo :
      [path |-> a.source, content |-> Unmarked(a.content)] \notin PublishedBooks

(* No fixer is told from another but by the name of its directory.         *)
FixersAlike == Permutations(Fixers)

MCScopes == {WholeLibrary, [libraries |-> {"Comics"}, folder |-> <<"B">>]}
MCEdits == {[number |-> "2", volume |-> ""], [number |-> "", volume |-> "1"]}
MCIncoming == [library |-> "Incoming", folder |-> <<>>, name |-> Odd, ext |-> "cbz"]
====
