---------------------------- MODULE LibraryCheck ----------------------------
(***************************************************************************)
(* The read-only audit of the Kavita libraries (library_check) and the     *)
(* repair plan derived from it (library_repair.plan_library_repairs), as   *)
(* operators over the files of a library: a function from paths to what a  *)
(* file holds.                                                             *)
(*                                                                         *)
(* A name is the sequence of the parts the policy puts " - " between, of a *)
(* folder as of a file: what was rendered into it cannot be told apart     *)
(* again but by how a part reads.  A path is a library, the names of the   *)
(* folders below it, the name of the file and its extension.  What a file  *)
(* holds is its container and the metadata the naming policy reads, each a *)
(* text of one part; "" is absent metadata.  Numbers are "1" and "2"       *)
(* (digits) or "1.5": any text that is not blank is a sequence number, so  *)
(* none of them is refused as such.                                        *)
(***************************************************************************)
EXTENDS Naturals, Sequences, SequencesExt, FiniteSets

CollectionFormats == {"trade paperback", "omnibus"}
SpecialFormats == CollectionFormats \cup {"annual", "special", "one-shot", "graphic novel"}
Digits == {"1", "2"}
Numbers == Digits \cup {"1.5"}
EditionLabels == {"deluxe edition"}
Specials == <<"Specials">>

Part(text) == IF text = "" THEN <<>> ELSE <<text>>

(* The padding that tells an issue from a volume is all that is kept of    *)
(* render_sequence and of v{volume:02d}.                                   *)
Issue(n)  == "#" \o n
Volume(n) == "v" \o n

(***************************************************************************)
(* Reading a name                                                          *)
(***************************************************************************)

IssueParts   == {Issue(n) : n \in Numbers}
VolumeParts  == {Volume(n) : n \in Digits}
VolumeTitle(n) == "Volume " \o n
VolumeTitles == {VolumeTitle(n) : n \in Digits}

Holds(name, parts) == \E i \in DOMAIN name : name[i] \in parts
FirstOf(name, parts) ==
  CHOOSE i \in DOMAIN name : name[i] \in parts /\ \A j \in 1..(i - 1) : name[j] \notin parts
Before(name, parts) == SubSeq(name, 1, FirstOf(name, parts) - 1)
EndsIn(name, parts) == Len(name) > 1 /\ Last(name) \in parts

(* What precedes the number of an issue, but for the volume of the run.    *)
RunIn(name) ==
  LET IsName(part) == part \notin VolumeParts \cup VolumeTitles IN SelectSeq(name, IsName)

(* A part names the volume of a run, one a word in it, and more follows.   *)
NamesRun(name, i) ==
  i > 1 /\ i + 1 < Len(name) /\ name[i] \in VolumeParts /\ name[i + 1] \notin IssueParts

(* _comic_hypothesis: what the name of a comic says, with numbered telling *)
(* that ComicInfo has a series and a number.  How a part reads decides,    *)
(* not what it was rendered from; most names are read as a title whole.    *)
ComicReading(name, numbered) ==
  LET Says(series, number, title) == [series |-> series, number |-> number, title |-> title]
      runs == {i \in DOMAIN name : NamesRun(name, i)}
  IN IF EndsIn(name, IssueParts)
     THEN Says(RunIn(Front(name)), Last(name), <<>>)
     ELSE IF Holds(name, VolumeTitles)
     THEN LET part == name[FirstOf(name, VolumeTitles)]
              n    == CHOOSE n \in Digits : VolumeTitle(n) = part
          IN Says(Before(name, VolumeTitles), Issue(n), <<part>>)
     ELSE IF Holds(name, EditionLabels) THEN Says(Before(name, EditionLabels), "", name)
     ELSE IF EndsIn(name, VolumeParts)
     THEN LET n == CHOOSE n \in Digits : Volume(n) = Last(name)
          IN Says(Front(name), Issue(n), <<VolumeTitle(n)>>)
     ELSE IF runs # {}
     THEN LET i == CHOOSE i \in runs : \A j \in runs : i <= j
              n == name[i + 1]
          IN Says(SubSeq(name, 1, i - 1), IF n \in Numbers THEN Issue(n) ELSE n,
                  SubSeq(name, i + 2, Len(name)))
     ELSE IF EndsIn(name, Numbers) THEN Says(Front(name), Issue(Last(name)), <<>>)
     ELSE IF numbered THEN Says(<<>>, "", <<>>)
     ELSE Says(name, "", name)

Parent(path) == IF path.folder = <<>> THEN <<path.library>> ELSE Last(path.folder)

(* What ComicInfo lacks is read from the name, and a series that is not    *)
(* there either is the folder.                                             *)
Reading(path, c) == ComicReading(path.name, c.series # "" /\ c.number # "")
SeriesOf(path, c) ==
  IF c.series # "" THEN <<c.series>>
  ELSE IF Reading(path, c).series # <<>> THEN Reading(path, c).series
  ELSE Parent(path)
TitleOf(path, c) == IF c.title # "" THEN <<c.title>> ELSE Reading(path, c).title

(* Of a PDF the check reads title and author only.  One that looks like a  *)
(* comic, by a #1 in its name or folder, is read as one; any other book is *)
(* of no series but that of its metadata.                                  *)
LooksLikeComic(path, c) ==
  c.container = "pdf" /\ (Holds(path.name, IssueParts) \/ Holds(Parent(path), IssueParts))
BookSeries(path, c) == IF LooksLikeComic(path, c) THEN SeriesOf(path, c) ELSE Part(c.series)
BookNumber(path, c) ==
  IF LooksLikeComic(path, c) THEN Part(Reading(path, c).number)
  ELSE IF c.number # "" THEN <<Issue(c.number)>> ELSE <<>>
BookTitle(path, c) == IF c.title # "" THEN <<c.title>> ELSE path.name

(***************************************************************************)
(* Naming                                                                  *)
(***************************************************************************)

(* A collected edition with an issue number and no volume, and the volume  *)
(* that number stands for (inferred_volume).                               *)
UsesNumber(c)   == c.format \in CollectionFormats /\ c.volume = "" /\ c.number # ""
InfersVolume(c) == UsesNumber(c) /\ c.number \in Digits

(* number_rendered, the part of the name it is, and the slot it claims.    *)
Rendered(c) ==
  IF c.volume \in Digits THEN <<Volume(c.volume)>>
  ELSE IF c.volume # "" THEN <<c.volume>>
  ELSE IF InfersVolume(c) THEN <<Volume(c.number)>>
  ELSE IF c.number # "" THEN <<Issue(c.number)>>
  ELSE IF c.format = "one-shot" THEN <<Issue("1")>> ELSE <<>>

Slot(c) == IF c.volume \in Digits \cup {""} THEN Rendered(c) ELSE <<>>

ComicFolder(path, c) ==
  <<SeriesOf(path, c)>> \o (IF c.format \in SpecialFormats THEN <<Specials>> ELSE <<>>)

(* expected_relative: the path the publisher would give the file today.    *)
CanonicalComic(path, c) ==
  [library |-> path.library, folder |-> ComicFolder(path, c),
   name |-> SeriesOf(path, c) \o Rendered(c) \o TitleOf(path, c),
   ext |-> "cbz"]

CanonicalBook(path, c) ==
  LET series == BookSeries(path, c)
      title  == BookTitle(path, c)
  IN [library |-> path.library,
      folder |-> <<IF series # <<>> THEN series ELSE title>>,
      name |-> IF series # <<>> THEN series \o BookNumber(path, c) \o title ELSE title,
      ext |-> path.ext]

Canonical(path, c) ==
  IF path.library = "Books" THEN CanonicalBook(path, c) ELSE CanonicalComic(path, c)

TopFolder(path) == IF path.folder = <<>> THEN <<>> ELSE path.folder[1]

(***************************************************************************)
(* Findings about one file                                                 *)
(***************************************************************************)

If(condition, code) == IF condition THEN {code} ELSE {}

BookCodes(path, c) ==
  If(c.title = "", "book_title_metadata_missing")
  \cup If(~c.creators, "book_creator_metadata_missing")
  \cup If(path # CanonicalBook(path, c), "noncanonical_book_path")

(* A comic PDF carries no metadata to rebuild its path from: only the      *)
(* series prefix of its name and its nesting are looked at.                *)
ComicPdfCodes(path) ==
  LET depth == Len(path.folder)
      inSpecials == depth > 0 /\ path.folder[depth] = Specials
      seriesFolder == IF ~inSpecials THEN TopFolder(path)
                      ELSE IF depth > 1 THEN path.folder[depth - 1] ELSE <<>>
  IN IF depth = 0 THEN {}
     ELSE If(~IsPrefix(seriesFolder, path.name), "comic_pdf_series_prefix_mismatch")
          \cup If(depth > 2 \/ (depth = 2 /\ ~inSpecials), "noncanonical_comic_pdf_nesting")

SequenceCodes(c) ==
  If(UsesNumber(c), "collection_format_uses_issue_number")
  \cup If(c.volume \notin Digits \cup {""}, "noninteger_collection_volume")
  \cup If(c.volume # "" /\ c.number # "", "comic_number_and_volume_set")
  \cup If(c.volume = "" /\ c.number = "" /\ c.format \notin SpecialFormats, "comic_sequence_missing")

(* Where the file lies, against where the publisher would put it.          *)
PlaceCodes(path, c) ==
  LET expected == CanonicalComic(path, c)
  IN If(TopFolder(path) # expected.folder[1], "comic_series_folder_mismatch")
     \cup If(TopFolder(path) = expected.folder[1] /\ path.folder # expected.folder,
             "noncanonical_comic_folder")
     \cup If(path # expected, "noncanonical_comic_path")

ArchiveCodes(path, c) ==
  If(~c.comicinfo, "comicinfo_missing")
  \cup If(TitleOf(path, c) \in {<<label>> : label \in EditionLabels}, "comic_title_is_only_edition_label")
  \cup If(c.volume # "" /\ c.format = "", "collection_volume_without_format")
  \cup IF SeriesOf(path, c) = <<>> THEN {"comic_series_unresolved"}
       ELSE If(c.container = "cbr", "noncanonical_cbr_container")
            \cup If(c.format \notin SpecialFormats \cup {""}, "noncanonical_comic_format")
            \cup SequenceCodes(c) \cup PlaceCodes(path, c)

(* _check_media_file: a file that cannot be read, recognised or inspected  *)
(* is reported as that and looked at no further.                           *)
LocalCodes(path, c) ==
  If(path.folder = <<>>, "media_at_library_root")
  \cup IF c.container = "unreadable" THEN {"inspection_failed"}
       ELSE If(path.ext # c.container, "extension_signature_mismatch")
            \cup If(c.container # "pdf" /\ c.library # path.library, "library_kind_mismatch")
            \cup (IF path.library = "Books" THEN BookCodes(path, c)
                  ELSE IF c.container = "pdf" THEN ComicPdfCodes(path)
                  ELSE ArchiveCodes(path, c))

(***************************************************************************)
(* Findings across files                                                   *)
(***************************************************************************)

(* The files that reach the cross-file bookkeeping of _check_comic. *)
Shelved(path, c) ==
  /\ path.library = "Comics" /\ c.container \notin {"unreadable", "pdf"}
  /\ SeriesOf(path, c) # <<>>

(* The slot claims one library, series, format and number. *)
SameSlot(p, c, q, d) ==
  /\ c.format = d.format /\ Slot(c) # <<>> /\ Slot(c) = Slot(d)
  /\ Shelved(p, c) /\ Shelved(q, d) /\ SeriesOf(p, c) = SeriesOf(q, d)

Duplicated(files, scanned, path) ==
  \E q \in scanned \ {path} : SameSlot(path, files[path], q, files[q])

(* scan_root: the files of a scope, everything below one folder of one     *)
(* library.                                                                *)
Scanned(files, scope) ==
  {p \in DOMAIN files :
     /\ p.library \in scope.libraries
     /\ scope.folder = <<>> \/ TopFolder(p) = scope.folder}

(* Mutant: only files where the policy would nest them are looked at, so   *)
(* what lies in a directory of its own below them is skipped.              *)
CodesOfNested(files, scope, path) ==
  IF Len(path.folder) > Len(Canonical(path, files[path]).folder) THEN {}
  ELSE LocalCodes(path, files[path])

(* The codes of the findings whose path is the file.  mixed_series_folder  *)
(* and series_split_across_folders are about a folder and a library, so no *)
(* file carries them.                                                      *)
Codes(files, scope, path) ==
  LocalCodes(path, files[path])
  \cup If(Duplicated(files, Scanned(files, scope), path), "duplicate_comic_slot")

WholeLibrary == [libraries |-> {"Books", "Comics"}, folder |-> <<>>]

(***************************************************************************)
(* The repair plan                                                         *)
(***************************************************************************)

SafePathCodes ==
  {"media_at_library_root", "comic_series_folder_mismatch", "noncanonical_book_path",
   "noncanonical_comic_folder", "noncanonical_comic_path"}
SafeCodes ==
  SafePathCodes \cup {"collection_format_uses_issue_number", "noncanonical_cbr_container"}

(* Mutant: Volume is set and Number stays. *)
MigratedKeepingNumber(action, c) ==
  IF action.migrates THEN [c EXCEPT !.volume = action.content.number] ELSE c

(* _collection_number_migration: what was planned for sets Volume and      *)
(* clears Number in what is written.                                       *)
Migrated(action, c) ==
  IF action.migrates THEN [c EXCEPT !.volume = action.content.number, !.number = ""] ELSE c

(* What the writers make of a file: the migrated metadata, as a CBZ, which *)
(* is a comic whatever the file was.                                       *)
Rewritten(action, c) == [Migrated(action, c) EXCEPT !.container = "cbz", !.library = "Comics"]

Repaired(action) ==
  IF action.kind = "move" THEN action.content ELSE Rewritten(action, action.content)

(* The writer of CBZ reads any zip file, the one that repacks CBR only RAR. *)
Readable(kind) == IF kind = "repack_cbr" THEN {"cbr"} ELSE {"cbz", "epub"}

(* A file may be repaired when every finding about it is safe and one says *)
(* where the file belongs.                                                 *)
Repairable(files, scope, path) ==
  LET codes == Codes(files, scope, path)
  IN /\ codes # {} /\ codes \subseteq SafeCodes
     /\ codes \cap {"noncanonical_book_path", "noncanonical_comic_path"} # {}

(* check_library: where these files belong, by what they hold now.         *)
Findings(files, scope) ==
  {[source |-> p, destination |-> Canonical(p, files[p]), checked |-> files[p]] :
     p \in {q \in Scanned(files, scope) : Repairable(files, scope, q)}}

(* The action for a finding, bound to the hash of the file as it is by now, *)
(* which is looked into again.                                             *)
Action(files, finding) ==
  LET c == files[finding.source]
  IN [source |-> finding.source, destination |-> finding.destination,
      checked |-> finding.checked, content |-> c, migrates |-> UsesNumber(finding.checked),
      kind |-> IF "cbr" \in {finding.checked.container, c.container} THEN "repack_cbr"
               ELSE IF UsesNumber(finding.checked) THEN "rewrite_cbz" ELSE "move"]

(* plan_library_repairs, of the findings about files that are still there: *)
(* the issue number of a collected edition must be able to become its      *)
(* volume.  _remove_colliding_actions: no two actions for one destination, *)
(* none for a path that is taken.                                          *)
PlanRepairs(files, findings) ==
  LET actions == {Action(files, x) :
                    x \in {y \in findings :
                            /\ y.source \in DOMAIN files
                            /\ UsesNumber(y.checked) => InfersVolume(files[y.source])}}
  IN {a \in actions :
        /\ a.destination \notin DOMAIN files
        /\ \A b \in actions \ {a} : b.destination # a.destination}
=============================================================================
