----------------------------- MODULE Projection -----------------------------
(***************************************************************************)
(* What a publication writes and where: the identity a decision stands for *)
(* (resolution.resolve_explicit_identity), what keeps it out of a plan     *)
(* (CanonicalIdentity.planning_blocks), its projection to metadata and a   *)
(* path (projection.py), and what the writers make of a source with it.    *)
(* The publisher renders names by the policy the check of LibraryCheck     *)
(* implements a second time.                                               *)
(*                                                                         *)
(* A decision carries the fields of a provider's candidate or of a manual  *)
(* identity, and overrides, a function from some fields to new values.  "" *)
(* is an absent field.                                                     *)
(***************************************************************************)
EXTENDS LibraryCheck

CollectionTypes == {"trade", "collected-edition", "omnibus"}
RunTypes == {"issue", "annual", "special"}
ItemTypes == CollectionTypes \cup RunTypes \cup {"one-shot", "graphic-novel"}

(***************************************************************************)
(* The identity                                                            *)
(***************************************************************************)

(* SequenceNumber.parse keeps the width a number was written with beside   *)
(* its normalized form; "0002" is wider than the padding of the policy.    *)
Normalized(n) == IF n = "0002" THEN "2" ELSE n

IdentityFields ==
  {"media", "type", "series", "year", "title", "creators", "number", "volume"}

(* Only a numbered collection has a volume. *)
CandidateVolume(c) ==
  IF c.record = "comic_collection" /\ c.type \in CollectionTypes /\ Normalized(c.number) \in Digits
  THEN Normalized(c.number) ELSE ""

OfCandidate(c) == [f \in IdentityFields |-> IF f = "volume" THEN CandidateVolume(c) ELSE c[f]]

(* The review asks for the fields a type has; the number of a book it asks *)
(* for as series_index, a key that is not read.                            *)
OfManual(m) ==
  [f \in IdentityFields |->
     CASE f = "number" -> IF m.media = "comic" /\ m.type \in RunTypes \cup CollectionTypes
                          THEN Normalized(m.number) ELSE ""
       [] f = "volume" -> IF m.media = "comic" /\ m.type \in CollectionTypes THEN m.volume ELSE ""
       [] f = "year"   -> IF m.type \in RunTypes THEN m.year ELSE ""
       [] OTHER        -> m[f]]

(* The volume is not derived again from an overridden number. *)
Resolved(d) ==
  LET derived == IF d.manual THEN OfManual(d.fields) ELSE OfCandidate(d.fields)
  IN [f \in IdentityFields |-> IF f \in DOMAIN d.overrides THEN d.overrides[f] ELSE derived[f]]

Plannable(id) ==
  IF id.media = "book" THEN id.title # "" /\ id.creators
  ELSE /\ id.series # "" /\ id.type \in ItemTypes
       /\ id.type \in RunTypes => id.year # "" /\ id.number # ""

(***************************************************************************)
(* The projection                                                          *)
(***************************************************************************)

FormatOf(type) ==
  CASE type \in {"trade", "collected-edition"} -> "trade paperback"
    [] type = "graphic-novel"                  -> "graphic novel"
    [] type = "issue"                          -> ""
    [] OTHER                                   -> type

Dated(id) == id.series \o id.year
IsCollection(id) == id.type \in CollectionTypes

NumberTag(id) ==
  IF IsCollection(id) /\ id.volume # "" THEN ""
  ELSE IF id.number # "" THEN Normalized(id.number)
  ELSE IF IsCollection(id) THEN "" ELSE "1"

NumberInName(id) ==
  IF id.media = "comic" /\ id.volume # "" THEN <<Volume(id.volume)>>
  ELSE IF id.number # "" THEN <<Issue(id.number)>> ELSE <<>>

ComicPath(id, ext) ==
  [library |-> "Comics",
   folder |-> <<Part(Dated(id))>> \o (IF FormatOf(id.type) # "" THEN <<Specials>> ELSE <<>>),
   name |-> Part(Dated(id)) \o NumberInName(id) \o Part(id.title),
   ext |-> ext]

BookPath(id, ext) ==
  [library |-> "Books",
   folder |-> <<Part(IF id.series # "" THEN id.series ELSE id.title)>>,
   name |-> IF id.series # ""
            THEN Part(id.series) \o NumberInName(id) \o Part(id.title)
            ELSE Part(id.title),
   ext |-> ext]

(***************************************************************************)
(* The publication                                                         *)
(***************************************************************************)

(* The format of the destination: a CBR is repacked. *)
PublishedAs(container) == IF container = "cbr" THEN "cbz" ELSE container

Destination(id, source) ==
  IF id.media = "book" THEN BookPath(id, source.container)
  ELSE ComicPath(id, PublishedAs(source.container))

(* Mutant: what the identity lacks stays as the source has it. *)
WrittenOverOld(id, source) ==
  [source EXCEPT !.container = PublishedAs(source.container), !.comicinfo = TRUE,
                 !.series = Dated(id),
                 !.title  = IF id.title # "" THEN id.title ELSE @,
                 !.number = IF NumberTag(id) # "" THEN NumberTag(id) ELSE @,
                 !.volume = IF id.volume # "" THEN id.volume ELSE @,
                 !.format = IF FormatOf(id.type) # "" THEN FormatOf(id.type) ELSE @]

(* patch_comicinfo: Number, Volume and Format are set or cleared, Title is *)
(* set or stays as the source has it.                                      *)
WrittenComic(id, source) ==
  [source EXCEPT !.container = PublishedAs(source.container), !.comicinfo = TRUE,
                 !.series = Dated(id),
                 !.title  = IF id.title # "" THEN id.title ELSE @,
                 !.number = NumberTag(id),
                 !.volume = id.volume,
                 !.format = FormatOf(id.type)]

(* What the identity of a book lacks stays as the source has it.  Series   *)
(* and number go into the XMP of a PDF, where the check does not look.     *)
WrittenBook(id, source) ==
  LET titled == [source EXCEPT !.title = id.title, !.creators = TRUE]
  IN IF source.container = "pdf" THEN titled
     ELSE [titled EXCEPT !.series = IF id.series # "" THEN id.series ELSE @,
                         !.number = IF id.number # "" THEN Normalized(id.number) ELSE @]

(* The metadata a PDF comic carries is not looked at again.                *)
Written(id, source) ==
  IF id.media = "book" THEN WrittenBook(id, source)
  ELSE IF source.container = "pdf" THEN source
  ELSE WrittenComic(id, source)

(* The pairs that reach a plan, for a decision of the source's own kind.   *)
Publishable(id, source) ==
  /\ Plannable(id)
  /\ source.library = IF id.media = "book" THEN "Books" ELSE "Comics"
=============================================================================
