--------------------------- MODULE MCAuditSession ---------------------------
(***************************************************************************)
(* AuditSession for three runs named "a", one named "b", and batches that  *)
(* mix their issues, one-shots, a series decorated with its writer's name, *)
(* one whose run only a user can know, a book and a collection.            *)
(***************************************************************************)
EXTENDS AuditSession

MCKeys == {"a", "a by x", "a new", "b"}
MCRank == [r \in Runs |-> IF r = "r1" THEN 1 ELSE IF r = "r2" THEN 2 ELSE 3]
MCNameOf == [r \in Runs |-> IF r = "s" THEN "b" ELSE "a"]
MCDated == {"r1", "r2", "s"}

MCLikeness == [k \in MCKeys |-> [n \in {"a", "b"} |->
                 IF k = n THEN "exact"
                 ELSE IF k = "b" \/ n = "b" THEN "unlike"
                 ELSE IF k = "a new" THEN "close" ELSE "other"]]

MCIssueOf == [r \in Runs |-> [n \in 1..2 |->
                [id |-> r \o (IF n = 1 THEN "-1" ELSE "-2"),
                 year |-> IF r = "r2" THEN 2016 ELSE 2011]]]

AnIssue(key, base, number, year, titled, writes) ==
  [id |-> "issue", kind |-> "issue", key |-> key, base |-> base, number |-> number,
   year |-> year, sure |-> TRUE, titled |-> titled, writes |-> writes,
   isbn |-> FALSE, series |-> TRUE]

Plain1 == AnIssue("a", "a", 1, 0, {}, {})
Plain2 == AnIssue("a", "a", 2, 2011, {}, {"r1"})
Titled1 == AnIssue("a", "a", 1, 0, {"r3"}, {"r3"})
Unnumbered == AnIssue("a", "a", 0, 2011, {}, {"r1"})
Credited == AnIssue("a by x", "a", 1, 2016, {}, {"r2"})
Renamed == AnIssue("a new", "a new", 1, 2016, {}, {"r2"})
AOneShot == [AnIssue("a", "a", 0, 2011, {"r3"}, {"r3"}) EXCEPT !.kind = "one-shot"]
NumberedOneShot == [AOneShot EXCEPT !.number = 1]
Other == AnIssue("b", "b", 1, 2011, {}, {})

ABook == [Plain1 EXCEPT !.id = "book", !.kind = "book", !.key = "b", !.base = "b",
            !.number = 0, !.year = 2011, !.writes = {"x"}, !.isbn = TRUE, !.series = FALSE]
ANamelessBook == [ABook EXCEPT !.writes = {}, !.isbn = FALSE]
ACollection == [Plain1 EXCEPT !.id = "collection", !.kind = "collection", !.year = 2016,
                  !.writes = {"x"}, !.isbn = TRUE]

MCBatches == {<<Plain1, Plain2, Other>>, <<Other, Titled1, Plain2>>, <<Renamed, Plain2>>,
              <<Credited, Plain1>>, <<Plain1, Credited>>, <<Unnumbered, Plain1, Other>>,
              <<AOneShot, NumberedOneShot>>, <<ABook, ANamelessBook>>, <<ACollection, Plain1>>}

MCCatalogues ==
  {c \cup {<<"s", 1>>} : c \in SUBSET {<<"r1", 1>>, <<"r1", 2>>, <<"r2", 1>>,
                                       <<"r2", 2>>, <<"r3", 1>>}}

Selected(a, credited, new) ==
  [k \in MCKeys |-> CASE k = "a" -> a [] k = "a by x" -> credited
                      [] k = "a new" -> new [] OTHER -> "none"]
MCSelections == {Selected("none", "none", "none"), Selected("r1", "none", "none"),
                 Selected("none", "none", "r2"), Selected("r1", "none", "r2"),
                 Selected("none", "r2", "none"), Selected("r1", "r3", "none")}

Record(id, seller, record, title) ==
  [id |-> id, shop |-> seller, record |-> record, title |-> title, issueTitle |-> "none",
   creators |-> "overlap", publisher |-> "none", qualifiers |-> NoQualifiers,
   isbn |-> "none", number |-> 0, source |-> "none", year |-> 2011,
   run |-> "none", dated |-> FALSE]

Bound(id, seller, title, year, publisher) ==
  [Record(id, seller, "edition", title) EXCEPT
     !.number = 1, !.source = "provider_title", !.year = year, !.publisher = publisher,
     !.qualifiers = [NoQualifiers EXCEPT !["same"] = 1]]

MCShelf ==
  [i \in {"issue", "book", "collection"} |->
     CASE i = "issue" -> {}
       [] i = "book" ->
            {Record("g1", "google_books", "edition", "same"),
             Record("g2", "google_books", "edition", "unlike"),
             [Record("o1", "open_library", "work", "close") EXCEPT !.isbn = "same"],
             [Record("o2", "open_library", "edition", "unlike") EXCEPT !.isbn = "other"]}
       [] i = "collection" ->
            {Bound("g3", "google_books", "same", 2016, "same"),
             Bound("g4", "google_books", "same", 2011, "unsure"),
             [Bound("g5", "google_books", "close", 2016, "same") EXCEPT !.record = "single"],
             Bound("o3", "open_library", "same", 2016, "other"),
             [Bound("o4", "open_library", "unlike", 2016, "none") EXCEPT !.number = 2]}]

MCRejected == [i \in {"issue", "book", "collection"} |-> IF i = "issue" THEN {"r2-1"} ELSE {}]
MCShops == <<"google_books", "open_library">>
=============================================================================
