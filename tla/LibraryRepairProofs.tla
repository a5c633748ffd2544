------------------------- MODULE LibraryRepairProofs -------------------------
(***************************************************************************)
(* What holds of repairs of any libraries by any number of processes, with *)
(* any number of edits, arrivals, failures and deaths: no version of a     *)
(* user's file is lost, a file that is repaired needs no repair, what a    *)
(* repair leaves behind is reported, and a publication is where the check  *)
(* expects it.                                                             *)
(***************************************************************************)
EXTENDS LibraryRepair, SequenceTheorems, TLAPS

----------------------------------------------------------------------------
(* The inductive invariant, in parts *)

Pcs ==
  {"idle", "checked", "next", "move", "stage", "staged", "sealed", "published", "recheck", "unlink"}

Busy(f) == fixer[f].pc \notin {"idle", "checked", "next"}

(* A finding as the check makes it from a file, and an action as           *)
(* plan_library_repairs makes it from a finding and what lies there now.   *)
Mendable(p, c) ==
  /\ LocalCodes(p, c) \subseteq SafeCodes
  /\ LocalCodes(p, c) \cap {"noncanonical_book_path", "noncanonical_comic_path"} # {}

Found(x) ==
  /\ x.source.library \in Roots /\ x.checked \in File
  /\ x.destination = Canonical(x.source, x.checked)
  /\ Mendable(x.source, x.checked)

KindFor(checked, content) ==
  IF "cbr" \in {checked.container, content.container} THEN "repack_cbr"
  ELSE IF UsesNumber(checked) THEN "rewrite_cbz" ELSE "move"

Planned(a) ==
  /\ a = [source |-> a.source, destination |-> a.destination, checked |-> a.checked,
          content |-> a.content, migrates |-> a.migrates, kind |-> a.kind]
  /\ Found(a)
  /\ a.content \in File /\ a.content.rev <= meddling
  /\ a.migrates = UsesNumber(a.checked) /\ (a.migrates => InfersVolume(a.content))
  /\ a.kind = KindFor(a.checked, a.content)

FixerShape ==
  fixer = [f \in Fixers |->
             [pc |-> fixer[f].pc, todo |-> fixer[f].todo, action |-> fixer[f].action]]

(* The files, the lists and the actions are of revisions that exist.       *)
WellPlanned ==
  /\ FixerShape /\ meddling \in Nat
  /\ \A p \in DOMAIN files : files[p] \in File /\ files[p].rev <= meddling
  /\ \A f \in Fixers :
       /\ fixer[f].pc \in Pcs
       /\ \A a \in fixer[f].todo : IF At(f, "checked") THEN Found(a) ELSE Planned(a)
       /\ IF Busy(f) THEN Planned(Cur(f)) ELSE Cur(f) = NoAction
       /\ fixer[f].pc = "move" => Cur(f).kind = "move"
       /\ fixer[f].pc \in {"stage", "staged", "sealed", "published", "recheck"}
            => Cur(f).kind # "move"

(* What goes with the next system call of a repair, what a repair may      *)
(* remove when it stops, and what the reset replaces.                      *)
Condemns(f, p) == At(f, "unlink") /\ p = Cur(f).source
Stages(f, p) == fixer[f].pc \in {"staged", "sealed", "published"} /\ p = Staging(f, Cur(f))
Doomed(p) ==
  \/ \E f \in Fixers : Condemns(f, p) \/ Stages(f, p)
  \/ reset.pc = "verified" /\ p = Incoming

(* A version lies, in one of some forms, where nobody is about to take it. *)
Lies(v, S) ==
  \E p \in DOMAIN files : ~Doomed(p) /\ files[p] \in S /\ Version(files[p]) = v

(* A repair that rewrites a file leaves it less to be rewritten: repacked, *)
(* it is no CBR, and migrated, it has no number for its volume.            *)
Weight(c) == IF c.container = "cbr" THEN 2 ELSE IF InfersVolume(c) THEN 1 ELSE 0
Lighter(c) == {d \in File : Weight(d) < Weight(c)}

(* What is staged is lighter and of the planned version if its source is   *)
(* still, or was when it was hashed, what was planned, unless that has     *)
(* come back in between, and is recorded.                                  *)
StagedFor(f) ==
  \A p \in DOMAIN files :
    fixer[f].pc \in {"staged", "sealed"} /\ Stages(f, p) /\ (At(f, "sealed") \/ Unchanged(f)) =>
      \/ files[p] \in Lighter(Cur(f).content) /\ Version(files[p]) = Version(Cur(f).content)
      \/ Version(Cur(f).content) \in raced

(* Once it is published, a lighter copy of the version lies elsewhere: the *)
(* source that is about to go is not lighter than itself.                  *)
MendedFor(f) ==
  \A v \in current \ raced :
    fixer[f].pc \in {"published", "recheck"} /\ v = Version(Cur(f).content) =>
      Lies(v, Lighter(Cur(f).content))

StagedAsPlanned == \A f \in Fixers : StagedFor(f)
MendedBeforeRemoval == \A f \in Fixers : MendedFor(f)
KeptSomewhere == \A v \in current \ raced : Lies(v, File)

IInv == TypeOK /\ WellPlanned /\ StagedAsPlanned /\ MendedBeforeRemoval /\ KeptSomewhere

(* The planned file comes back to its path between the moment its repair   *)
(* was staged from what lay there instead and the moment it is hashed only *)
(* on record.                                                              *)
ReturnsRecorded ==
  /\ raced \subseteq raced'
  /\ \A f \in Fixers :
       At(f, "staged") /\ At(f, "staged")' /\ Unchanged(f)' =>
         Unchanged(f) \/ Version(Cur(f).content) \in raced'

----------------------------------------------------------------------------
(* Paths and contents *)

(* The folders of a canonical place: a series, or the specials below it.   *)
LEMMA Folders ==
  ASSUME NEW p, NEW c
  PROVE  \E x : /\ Canonical(p, c).folder \in Seq({x, Specials})
                /\ Len(Canonical(p, c).folder) > 0
                /\ \/ Len(Canonical(p, c).folder) = 1
                   \/ Canonical(p, c).folder[Len(Canonical(p, c).folder)] = Specials
<1>1. ASSUME NEW x, NEW F, F = <<x>>
      PROVE  F \in Seq({x, Specials}) /\ Len(F) = 1
  BY <1>1
<1>2. ASSUME NEW x PROVE /\ <<x>> \o <<Specials>> \in Seq({x, Specials})
                         /\ Len(<<x>> \o <<Specials>>) = 2
                         /\ (<<x>> \o <<Specials>>)[2] = Specials
  <2>1. <<x>> \in Seq({x, Specials}) /\ <<Specials>> \in Seq({x, Specials})
        /\ Len(<<x>>) = 1 /\ Len(<<Specials>>) = 1
    OBVIOUS
  <2> QED  BY <2>1, ConcatProperties
<1>3. ASSUME NEW x PROVE <<x>> \o <<>> = <<x>>
  <2>1. <<x>> \in Seq({x})
    OBVIOUS
  <2> QED  BY <2>1, ConcatEmptySeq
<1>4. CASE p.library = "Books"
  <2>1. \E x : Canonical(p, c).folder = <<x>>
    BY <1>4 DEF Canonical, CanonicalBook
  <2> QED  BY <1>1, <2>1
<1>5. CASE p.library # "Books"
  <2>1. Canonical(p, c).folder = ComicFolder(p, c)
    BY <1>5 DEF Canonical, CanonicalComic
  <2> DEFINE x == SeriesOf(p, c)
  <2>2. CASE c.format \in SpecialFormats
    <3>1. ComicFolder(p, c) = <<x>> \o <<Specials>>
      BY <2>2 DEF ComicFolder
    <3> HIDE DEF x
    <3> QED  BY <1>2, <2>1, <3>1
  <2>3. CASE c.format \notin SpecialFormats
    <3>1. ComicFolder(p, c) = <<x>> \o <<>>
      BY <2>3 DEF ComicFolder
    <3> HIDE DEF x
    <3> QED  BY <1>1, <1>3, <2>1, <3>1
  <2> QED  BY <2>2, <2>3
<1> QED  BY <1>4, <1>5

(* The canonical place of a file is in its library, and no repair stages   *)
(* anything there.                                                         *)
LEMMA Places ==
  ASSUME NEW a, Planned(a), NEW f \in Fixers
  PROVE  /\ a.destination.library = a.source.library
         /\ Len(a.destination.folder) = 1
              \/ a.destination.folder[Len(a.destination.folder)] = Specials
         /\ Staging(f, a).library = a.source.library /\ a.source.library \in Roots
         /\ Staging(f, a).name = a.destination.name /\ Staging(f, a).ext = a.destination.ext
         /\ Staging(f, a).folder # <<>>
         /\ Staging(f, a).folder[Len(Staging(f, a).folder)] = <<f>>
         /\ Len(Staging(f, a).folder) > 1
<1> DEFINE d == a.destination
<1>1. d = Canonical(a.source, a.checked) /\ a.source.library \in Roots
  BY DEF Planned, Found
<1>2. /\ d.library = a.source.library
      /\ d = [library |-> d.library, folder |-> d.folder, name |-> d.name, ext |-> d.ext]
  <2>1. CASE a.source.library = "Books"
    <3> DEFINE n == CanonicalBook(a.source, a.checked).name
               F == CanonicalBook(a.source, a.checked).folder
    <3>1. d = [library |-> a.source.library, folder |-> F, name |-> n, ext |-> a.source.ext]
      <4>1. d = CanonicalBook(a.source, a.checked)
        BY <1>1, <2>1 DEF Canonical
      <4> QED  BY <4>1 DEF CanonicalBook
    <3> HIDE DEF n, F
    <3> QED  BY <3>1
  <2>2. CASE a.source.library # "Books"
    <3>1. d = CanonicalComic(a.source, a.checked)
      BY <1>1, <2>2 DEF Canonical
    <3> HIDE DEF d
    <3> QED  BY <3>1 DEF CanonicalComic
  <2> QED  BY <2>1, <2>2
<1>3. PICK x : /\ d.folder \in Seq({x, Specials}) /\ Len(d.folder) > 0
               /\ Len(d.folder) = 1 \/ d.folder[Len(d.folder)] = Specials
  <2>1. \E x : /\ Canonical(a.source, a.checked).folder \in Seq({x, Specials})
               /\ Len(Canonical(a.source, a.checked).folder) > 0
               /\ \/ Len(Canonical(a.source, a.checked).folder) = 1
                  \/ Canonical(a.source, a.checked).folder
                       [Len(Canonical(a.source, a.checked).folder)] = Specials
    BY Folders
  <2> QED  BY <1>1, <2>1
<1>4. Staging(f, a) = [library |-> d.library, folder |-> Append(d.folder, <<f>>),
                       name |-> d.name, ext |-> d.ext]
  <2>1. Staging(f, a) = [d EXCEPT !.folder = Append(d.folder, <<f>>)]
    BY DEF Staging
  <2> HIDE DEF d
  <2> QED  BY <1>2, <2>1
<1> HIDE DEF d
<1>5. d.folder \in Seq({x, Specials, <<f>>})
  BY <1>3
<1>6. /\ Append(d.folder, <<f>>) \in Seq({x, Specials, <<f>>})
      /\ Len(Append(d.folder, <<f>>)) = Len(d.folder) + 1 /\ Len(d.folder) \in Nat
      /\ Append(d.folder, <<f>>)[Len(d.folder) + 1] = <<f>>
  BY <1>5, AppendProperties, LenProperties
<1>7. Append(d.folder, <<f>>) # <<>>
  BY <1>3, <1>6, EmptySeq
<1> QED  BY <1>1, <1>2, <1>3, <1>4, <1>6, <1>7 DEF d

LEMMA Apart ==
  ASSUME NEW a, Planned(a), NEW f \in Fixers
  PROVE  /\ Staging(f, a) # Incoming
         /\ \A b : Planned(b) => b.destination # Staging(f, a)
         /\ \A b, g : Planned(b) /\ g \in Fixers /\ g # f => Staging(g, b) # Staging(f, a)
<1>1. /\ Staging(f, a).library \in Roots
      /\ Staging(f, a).folder[Len(Staging(f, a).folder)] = <<f>>
      /\ Len(Staging(f, a).folder) > 1
  BY Places
<1>2. ASSUME NEW b, Planned(b) PROVE b.destination # Staging(f, a)
  <2>1. \/ Len(b.destination.folder) = 1
        \/ b.destination.folder[Len(b.destination.folder)] = Specials
    BY <1>2, Places
  <2> QED  BY <1>1, <2>1, LibraryRepairAssumption DEF LibraryRepairAssumption, Specials
<1>3. ASSUME NEW b, NEW g, Planned(b), g \in Fixers, g # f PROVE Staging(g, b) # Staging(f, a)
  BY <1>1, <1>3, Places
<1> QED  BY <1>1, <1>2, <1>3, LibraryRepairAssumption DEF LibraryRepairAssumption

(* What the writers make of a file they can read is a comic archive of the *)
(* same version; of the planned file, it is lighter.                       *)
LEMMA RepairsAreLighter ==
  ASSUME NEW a, Planned(a), NEW c \in File, a.kind # "move"
  PROVE  /\ Rewritten(a, c) \in File
         /\ Version(Rewritten(a, c)) = Version(c)
         /\ Rewritten(a, c).container = "cbz"
         /\ c = a.content /\ c.container \in Readable(a.kind)
              => Rewritten(a, c) \in Lighter(c)
<1> DEFINE m == Migrated(a, c)
           r == Rewritten(a, c)
<1>1. /\ a.content \in File /\ a.migrates = UsesNumber(a.checked)
      /\ a.migrates => InfersVolume(a.content)
      /\ a.kind = KindFor(a.checked, a.content)
  BY DEF Planned
<1>2. /\ m.id = c.id /\ m.rev = c.rev
      /\ m \in [container : Containers, library : Roots, comicinfo : BOOLEAN,
               creators : BOOLEAN, series : STRING, title : STRING, format : STRING,
               number : STRING, volume : STRING, id : Nat, rev : Nat]
  <2>1. CASE a.migrates
    <3>1. m = [c EXCEPT !.volume = a.content.number, !.number = ""]
      BY <2>1 DEF Migrated
    <3>2. a.content.number \in STRING
      BY <1>1 DEF File
    <3>4. "" \in STRING
      <4>1. a.content.volume \in STRING
        BY <1>1 DEF File
      <4>2. a.content.volume = ""
        BY <1>1, <2>1, Zenon DEF InfersVolume, UsesNumber
      <4> QED  BY <4>1, <4>2, Zenon
    <3>3. ASSUME NEW v \in STRING, NEW n \in STRING, NEW d, d = [c EXCEPT !.volume = v, !.number = n]
          PROVE  /\ d.id = c.id /\ d.rev = c.rev
                 /\ d \in [container : Containers, library : Roots, comicinfo : BOOLEAN,
                          creators : BOOLEAN, series : STRING, title : STRING, format : STRING,
                          number : STRING, volume : STRING, id : Nat, rev : Nat]
      BY <3>3 DEF File
    <3> QED  BY <3>1, <3>2, <3>3, <3>4, Zenon
  <2>2. CASE ~a.migrates
    <3>1. m = c
      BY <2>2 DEF Migrated
    <3> QED  BY <3>1 DEF File
  <2> QED  BY <2>1, <2>2
<1>3. r = [m EXCEPT !.container = "cbz", !.library = "Comics"]
  BY DEF Rewritten
<1>4. a.migrates => ~InfersVolume(r)
  <2>1. ASSUME a.migrates PROVE m = [c EXCEPT !.volume = a.content.number, !.number = ""]
    BY <2>1 DEF Migrated
  <2> HIDE DEF m
  <2>2. ASSUME a.migrates PROVE r.number = ""
    BY <1>2, <1>3, <2>1, <2>2 DEF File
  <2> HIDE DEF r
  <2> QED  BY <2>2, Zenon DEF InfersVolume, UsesNumber
<1>5. ~a.migrates => (InfersVolume(r) <=> InfersVolume(c))
  <2>1. ASSUME ~a.migrates PROVE m = c
    BY <2>1 DEF Migrated
  <2> HIDE DEF m
  <2> QED  BY <1>2, <1>3, <2>1 DEF InfersVolume, UsesNumber
<1> HIDE DEF m, r
<1>6. /\ r.container = "cbz" /\ r.library = "Comics" /\ r.id = m.id /\ r.rev = m.rev
      /\ r \in [container : Containers, library : Roots, comicinfo : BOOLEAN,
               creators : BOOLEAN, series : STRING, title : STRING, format : STRING,
               number : STRING, volume : STRING, id : Nat, rev : Nat]
  BY <1>2, <1>3 DEF Containers, Roots
<1>7. r \in File
  BY <1>6 DEF File
<1>8. ASSUME c = a.content, c.container \in Readable(a.kind) PROVE Weight(r) < Weight(c)
  <2>1. CASE c.container = "cbr"
    BY <1>6, <2>1 DEF Weight
  <2>2. CASE c.container # "cbr"
    <3>1. a.kind = "rewrite_cbz"
      BY <1>1, <1>8, <2>2 DEF KindFor, Readable
    <3>2. a.migrates /\ InfersVolume(c)
      BY <1>1, <1>8, <3>1 DEF KindFor
    <3> QED  BY <1>4, <1>6, <2>2, <3>2 DEF Weight
  <2> QED  BY <2>1, <2>2
<1> QED  BY <1>2, <1>6, <1>7, <1>8 DEF r, Lighter, Version

----------------------------------------------------------------------------
(* What is planned and what lies there *)

LEMMA PlannedStill ==
  ASSUME NEW a, Planned(a), meddling \in Nat, meddling' \in Nat, meddling <= meddling'
  PROVE  Planned(a)'
<1>1. a.content.rev \in Nat
  BY DEF Planned, File
<1> QED  BY <1>1 DEF Planned

(* What is found is mendable, and a plan is a set of planned actions.      *)
LEMMA FindingsFound ==
  ASSUME WellPlanned, NEW scope \in Scopes, NEW x \in Findings(files, scope)
  PROVE  Found(x)
<1>1. PICK p \in Scanned(files, scope) :
        /\ Repairable(files, scope, p)
        /\ x = [source |-> p, destination |-> Canonical(p, files[p]), checked |-> files[p]]
  BY DEF Findings
<1>2. p \in DOMAIN files /\ p.library \in Roots /\ files[p] \in File
  BY <1>1, LibraryRepairAssumption DEF LibraryRepairAssumption, Scanned, WellPlanned
<1>3. LocalCodes(p, files[p]) \subseteq Codes(files, scope, p)
      /\ \A code : code \in Codes(files, scope, p) =>
           code \in LocalCodes(p, files[p]) \/ code = "duplicate_comic_slot"
  BY DEF Codes, If
<1>4. Mendable(p, files[p])
  <2>1. /\ Codes(files, scope, p) \subseteq SafeCodes
        /\ Codes(files, scope, p) \cap {"noncanonical_book_path", "noncanonical_comic_path"} # {}
    BY <1>1 DEF Repairable
  <2>2. PICK code \in {"noncanonical_book_path", "noncanonical_comic_path"} :
          code \in Codes(files, scope, p)
    BY <2>1
  <2>3. code \in LocalCodes(p, files[p])
    BY <1>3, <2>2
  <2> QED  BY <1>3, <2>1, <2>2, <2>3 DEF Mendable
<1> QED  BY <1>1, <1>2, <1>4 DEF Found

LEMMA PlansPlan ==
  ASSUME WellPlanned, NEW findings, \A x \in findings : Found(x),
         NEW a \in PlanRepairs(files, findings)
  PROVE  Planned(a)
<1>1. PICK x \in findings :
        /\ x.source \in DOMAIN files /\ (UsesNumber(x.checked) => InfersVolume(files[x.source]))
        /\ a = Action(files, x)
  BY DEF PlanRepairs
<1> DEFINE c == files[x.source]
<1>2. /\ Found(x) /\ c \in File /\ c.rev <= meddling
  BY <1>1 DEF WellPlanned
<1>3. /\ a.source = x.source /\ a.destination = x.destination /\ a.checked = x.checked
      /\ a.content = c /\ a.migrates = UsesNumber(x.checked)
      /\ a.kind = KindFor(x.checked, c)
      /\ a = [source |-> a.source, destination |-> a.destination, checked |-> a.checked,
              content |-> a.content, migrates |-> a.migrates, kind |-> a.kind]
  BY <1>1 DEF Action, KindFor
<1>4. Found(a)
  BY <1>2, <1>3 DEF Found
<1> HIDE DEF c
<1> QED  BY <1>1, <1>2, <1>3, <1>4 DEF Planned, c

(* One repair moves on; the others do not. *)
Alike(f) == FixerShape' /\ \A g \in Fixers : g # f => fixer'[g] = fixer[g]

LEMMA MovedOn ==
  ASSUME FixerShape, NEW f \in Fixers
  PROVE  /\ \A pc : GoTo(f, pc) => /\ Alike(f) /\ fixer'[f].pc = pc
                                   /\ fixer'[f].todo = fixer[f].todo
                                   /\ fixer'[f].action = fixer[f].action
         /\ Quit(f) => Alike(f) /\ fixer'[f] = IdleFixer
         /\ \A r : /\ fixer' = [fixer EXCEPT ![f] = r]
                   /\ r = [pc |-> r.pc, todo |-> r.todo, action |-> r.action]
                   => Alike(f) /\ fixer'[f] = r
<1>1. DOMAIN fixer = Fixers
      /\ \A g \in Fixers :
           fixer[g] = [pc |-> fixer[g].pc, todo |-> fixer[g].todo, action |-> fixer[g].action]
  BY DEF FixerShape
<1>2. ASSUME NEW r, fixer' = [fixer EXCEPT ![f] = r],
             r = [pc |-> r.pc, todo |-> r.todo, action |-> r.action]
      PROVE  Alike(f) /\ fixer'[f] = r
  BY <1>1, <1>2 DEF Alike, FixerShape
<1>3. IdleFixer = [pc |-> IdleFixer.pc, todo |-> IdleFixer.todo, action |-> IdleFixer.action]
  BY DEF IdleFixer
<1>4. Quit(f) => Alike(f) /\ fixer'[f] = IdleFixer
  BY <1>2, <1>3 DEF Quit
<1>5. ASSUME NEW pc, GoTo(f, pc)
      PROVE  /\ Alike(f) /\ fixer'[f].pc = pc /\ fixer'[f].todo = fixer[f].todo
             /\ fixer'[f].action = fixer[f].action
  <2> DEFINE r == [pc |-> pc, todo |-> fixer[f].todo, action |-> fixer[f].action]
  <2>1. fixer' = [fixer EXCEPT ![f] = r]
    <3>1. ASSUME NEW old, old = [pc |-> old.pc, todo |-> old.todo, action |-> old.action]
          PROVE  [old EXCEPT !.pc = pc] = [pc |-> pc, todo |-> old.todo, action |-> old.action]
      BY <3>1
    <3>2. [fixer[f] EXCEPT !.pc = pc] = r
      BY <1>1, <3>1
    <3>3. fixer' = [fixer EXCEPT ![f] = [fixer[f] EXCEPT !.pc = pc]]
      BY <1>1, <1>5 DEF GoTo
    <3> QED  BY <3>2, <3>3
  <2>2. r = [pc |-> r.pc, todo |-> r.todo, action |-> r.action]
    OBVIOUS
  <2>3. Alike(f) /\ fixer'[f] = r
    <3> HIDE DEF r
    <3> QED  BY <1>2, <2>1, <2>2
  <2> QED  BY <2>3
<1> QED  BY <1>2, <1>4, <1>5

(* The files, the lists and the actions stay well planned if the new file  *)
(* and the new action are.                                                 *)
FilesWell == \A p \in DOMAIN files : files[p] \in File /\ files[p].rev <= meddling

FixerWell(f) ==
  /\ fixer[f].pc \in Pcs
  /\ \A a \in fixer[f].todo : IF At(f, "checked") THEN Found(a) ELSE Planned(a)
  /\ IF Busy(f) THEN Planned(Cur(f)) ELSE Cur(f) = NoAction
  /\ fixer[f].pc = "move" => Cur(f).kind = "move"
  /\ fixer[f].pc \in {"stage", "staged", "sealed", "published", "recheck"} => Cur(f).kind # "move"

LEMMA WellParts ==
  WellPlanned <=> /\ FixerShape /\ meddling \in Nat /\ FilesWell
                  /\ \A f \in Fixers : FixerWell(f)
BY DEF WellPlanned, FilesWell, FixerWell

LEMMA WellPartsAfter ==
  WellPlanned' <=> /\ FixerShape' /\ meddling' \in Nat /\ FilesWell'
                   /\ \A f \in Fixers : FixerWell(f)'
BY DEF WellPlanned, FilesWell, FixerWell

LEMMA FixerWellStill ==
  ASSUME WellPlanned, NEW f \in Fixers, fixer'[f] = fixer[f],
         meddling' \in Nat, meddling <= meddling'
  PROVE  FixerWell(f)'
<1>1. FixerWell(f) /\ meddling \in Nat
  BY WellParts
<1>2. \A a : Planned(a) => Planned(a)'
  BY <1>1, PlannedStill
<1> QED  BY <1>1, <1>2 DEF FixerWell, Busy, Cur, At

LEMMA WellStep ==
  ASSUME WellPlanned, NEW f \in Fixers, Alike(f), FixerWell(f)',
         meddling' \in Nat, meddling <= meddling',
         \A p \in DOMAIN files' : \/ p \in DOMAIN files /\ files'[p] = files[p]
                                  \/ files'[p] \in File /\ files'[p].rev <= meddling'
  PROVE  WellPlanned'
<1>1. \A g \in Fixers : FixerWell(g)'
  BY FixerWellStill DEF Alike
<1>2. FilesWell'
  <2>1. FilesWell /\ meddling \in Nat
    BY WellParts
  <2>2. \A p \in DOMAIN files : files[p].rev \in Nat
    BY <2>1 DEF FilesWell, File
  <2> QED  BY <2>1, <2>2 DEF FilesWell
<1> QED  BY <1>1, <1>2, WellPartsAfter DEF Alike

(* The types and the plans, through a step of one repair and any other.    *)
Typed == TypeOK /\ WellPlanned

FilesStill ==
  \A p \in DOMAIN files' : \/ p \in DOMAIN files /\ files'[p] = files[p]
                           \/ files'[p] \in File /\ files'[p].rev <= meddling'

LEMMA TypedStep ==
  ASSUME Typed, NEW f \in Fixers, Alike(f), FixerWell(f)',
         Busy(f)' => Cur(f)' \notin fixer'[f].todo,
         verified' = verified, reset' = reset,
         meddling' \in 0..MaxMeddling, meddling <= meddling', FilesStill
  PROVE  Typed'
<1>1. meddling' \in Nat
  BY LibraryRepairAssumption DEF LibraryRepairAssumption
<1>2. WellPlanned'
  BY <1>1, WellStep DEF Typed, FilesStill
<1>3. TypeOK'
  <2>1. \A g \in Fixers : fixer'[g].pc \in Pcs
    BY <1>2 DEF WellPlanned
  <2>2. \A g \in Fixers : fixer'[g].pc \notin {"idle", "checked", "next"} => Cur(g)' \notin fixer'[g].todo
    BY DEF Alike, Typed, TypeOK, Cur, Busy
  <2>3. \A p \in DOMAIN files' : files'[p] \in File
    BY <1>2 DEF WellPlanned
  <2> QED  BY <2>1, <2>2, <2>3 DEF Typed, TypeOK, Pcs
<1> QED  BY <1>2, <1>3 DEF Typed

LEMMA TypedQuietly ==
  ASSUME Typed, fixer' = fixer, verified' = verified, reset'.pc \in {"idle", "verified"},
         meddling' \in 0..MaxMeddling, meddling <= meddling', FilesStill
  PROVE  Typed'
<1>1. meddling' \in Nat /\ WellPlanned
  BY LibraryRepairAssumption DEF LibraryRepairAssumption, Typed
<1>2. \A g \in Fixers : FixerWell(g)'
  BY <1>1, FixerWellStill
<1>3. FilesWell'
  <2>1. FilesWell /\ meddling \in Nat
    BY <1>1, WellParts
  <2>2. \A p \in DOMAIN files : files[p].rev \in Nat
    BY <2>1 DEF FilesWell, File
  <2> QED  BY <1>1, <2>1, <2>2 DEF FilesWell, FilesStill
<1>4. FixerShape'
  BY <1>1, WellParts DEF FixerShape
<1>5. WellPlanned'
  BY <1>1, <1>2, <1>3, <1>4, WellPartsAfter
<1>6. TypeOK'
  BY <1>5 DEF Typed, TypeOK, WellPlanned, Cur
<1> QED  BY <1>5, <1>6 DEF Typed

LEMMA TypedInit ==
  ASSUME Init
  PROVE  Typed
<1>1. /\ files \in [DOMAIN files -> File] /\ \A p \in DOMAIN files : files[p].rev = 0
      /\ MaxMeddling \in Nat
  BY LibraryRepairAssumption DEF LibraryRepairAssumption, Init
<1>2. PICK p \in DOMAIN files : verified = [path |-> p, content |-> files[p]]
  BY DEF Init
<1>3. verified.content \in File
  BY <1>1, <1>2
<1>4. fixer = [f \in Fixers |-> IdleFixer] /\ meddling = 0 /\ reset.pc = "idle"
  BY DEF Init, IdleReset
<1>5. IdleFixer.pc = "idle" /\ IdleFixer.todo = {} /\ IdleFixer.action = NoAction
      /\ IdleFixer = [pc |-> IdleFixer.pc, todo |-> IdleFixer.todo, action |-> IdleFixer.action]
  BY DEF IdleFixer
<1>6. FixerShape
  BY <1>4, <1>5 DEF FixerShape
<1>7. \A f \in Fixers : FixerWell(f)
  BY <1>4, <1>5 DEF FixerWell, Busy, Cur, At, Pcs
<1>8. FilesWell
  BY <1>1, <1>4 DEF FilesWell
<1>9. WellPlanned
  BY <1>4, <1>6, <1>7, <1>8, WellParts
<1>10. TypeOK
  BY <1>1, <1>3, <1>4, <1>5 DEF TypeOK, Cur
<1> QED  BY <1>9, <1>10 DEF Typed

(* What a landing leaves, and what a removal leaves. *)
LEMMA Landed ==
  ASSUME NEW p, NEW c
  PROVE  /\ DOMAIN With(p, c) = DOMAIN files \cup {p}
         /\ With(p, c)[p] = c
         /\ \A q \in DOMAIN files : q # p => With(p, c)[q] = files[q]
         /\ DOMAIN Without(p) = DOMAIN files \ {p}
         /\ \A q \in DOMAIN Without(p) : Without(p)[q] = files[q]
BY DEF With, Without

(* The steps of a repair that go from one place to the next. *)
LEMMA TypedGoTo ==
  ASSUME Typed, NEW f \in Fixers, NEW pc \in Pcs \ {"idle", "checked", "next"}, GoTo(f, pc), Busy(f),
         \/ pc = "unlink"
         \/ pc \notin {"move", "unlink"}
            /\ fixer[f].pc \in {"stage", "staged", "sealed", "published", "recheck"},
         verified' = verified, reset' = reset, meddling' = meddling, FilesStill
  PROVE  Typed'
<1>1. /\ Alike(f) /\ fixer'[f].pc = pc
      /\ fixer'[f].todo = fixer[f].todo /\ fixer'[f].action = fixer[f].action
  BY MovedOn DEF Typed, WellPlanned
<1>2. FixerWell(f) /\ meddling \in Nat
  BY WellParts DEF Typed
<1>3. \A a : Planned(a) => Planned(a)'
  BY <1>2, PlannedStill
<1>4. FixerWell(f)'
  BY <1>1, <1>2, <1>3 DEF FixerWell, Busy, Cur, At
<1>5. meddling \in 0..MaxMeddling /\ Cur(f) \notin fixer[f].todo
  BY DEF Typed, TypeOK, Busy
<1> QED  BY <1>1, <1>2, <1>4, <1>5, TypedStep DEF Cur

LEMMA EditsAreFiles ==
  ASSUME NEW c \in File, NEW edit, edit.number \in STRING, edit.volume \in STRING,
         meddling \in Nat
  PROVE  /\ Edited(c, edit) \in File
         /\ Edited(c, edit).id = c.id /\ Edited(c, edit).rev = meddling + 1
         /\ Edited(c, edit).library = c.library /\ Edited(c, edit).container = c.container
         /\ Edited(c, edit).series = c.series
<1> DEFINE d == [c EXCEPT !.rev = meddling + 1]
<1>1. meddling + 1 \in Nat
  OBVIOUS
<1>2. d \in File /\ d.id = c.id /\ d.rev = meddling + 1 /\ d.container = c.container
      /\ d.library = c.library /\ d.series = c.series
  BY <1>1 DEF File
<1> HIDE DEF d
<1>3. CASE c.container = "pdf"
  BY <1>2, <1>3 DEF Edited, d
<1>4. CASE c.container # "pdf"
  <2> DEFINE e == [d EXCEPT !.number = edit.number, !.volume = edit.volume]
  <2>1. e \in File /\ e.id = d.id /\ e.rev = d.rev /\ e.container = d.container
        /\ e.library = d.library /\ e.series = d.series
    BY <1>2, <1>4 DEF File
  <2>2. Edited(c, edit) = e
    BY <1>4 DEF Edited, d
  <2> QED  BY <1>2, <2>1, <2>2
<1> QED  BY <1>3, <1>4

LEMMA TypedNext ==
  ASSUME Typed, [Next]_vars
  PROVE  Typed'
<1> USE DEF Others, Alone
<1>1. /\ meddling \in 0..MaxMeddling /\ meddling \in Nat /\ MaxMeddling \in Nat
      /\ FixerShape /\ reset.pc \in {"idle", "verified"}
      /\ \A p \in DOMAIN files : files[p] \in File /\ files[p].rev <= meddling
      /\ \A f \in Fixers : FixerWell(f)
  BY WellParts, LibraryRepairAssumption DEF LibraryRepairAssumption, Typed, TypeOK, FilesWell
<1>2. ASSUME UNCHANGED files PROVE FilesStill
  BY <1>2 DEF FilesStill
<1>3. ASSUME NEW p, files' = Without(p) PROVE FilesStill
  BY <1>3, Landed DEF FilesStill
<1>4. ASSUME NEW p, NEW c, files' = With(p, c), c \in File, c.rev <= meddling'
      PROVE  FilesStill
  <2>1. /\ DOMAIN files' = DOMAIN files \cup {p} /\ files'[p] = c
        /\ \A q \in DOMAIN files : q # p => files'[q] = files[q]
    BY <1>4 DEF With
  <2> QED  BY <1>4, <2>1 DEF FilesStill
<1>5. ASSUME NEW a, Planned(a), meddling' = meddling PROVE Planned(a)'
  BY <1>1, <1>5, PlannedStill
<1>6. ASSUME NEW f \in Fixers, Quit(f), verified' = verified, reset' = reset,
             meddling' = meddling, FilesStill
      PROVE  Typed'
  <2>1. Alike(f) /\ fixer'[f] = IdleFixer
    BY <1>1, <1>6, MovedOn
  <2>2. FixerWell(f)' /\ ~Busy(f)'
    BY <2>1 DEF FixerWell, Busy, Cur, At, Pcs, IdleFixer
  <2> QED  BY <1>1, <1>6, <2>1, <2>2, TypedStep
<1>7. ASSUME NEW f \in Fixers, NEW pc \in {"checked", "next"}, NEW todo,
             fixer' = [fixer EXCEPT ![f] = [pc |-> pc, todo |-> todo, action |-> NoAction]],
             \A x \in todo : IF pc = "checked" THEN Found(x) ELSE Planned(x),
             Check(f) \/ Plan(f)
      PROVE  Typed'
  <2> DEFINE r == [pc |-> pc, todo |-> todo, action |-> NoAction]
  <2>3. fixer' = [fixer EXCEPT ![f] = r]
    BY <1>7
  <2>4. Alike(f) /\ fixer'[f] = r
    <3>1. r = [pc |-> r.pc, todo |-> r.todo, action |-> r.action]
      OBVIOUS
    <3> HIDE DEF r
    <3> QED  BY <1>1, <2>3, <3>1, MovedOn
  <2>5. meddling' \in 0..MaxMeddling /\ meddling <= meddling'
    BY <1>1, <1>7 DEF Check, Plan
  <2>6. \A x \in todo : IF pc = "checked" THEN Found(x)' ELSE Planned(x)'
    BY <1>1, <1>7, <2>5, PlannedStill DEF Found
  <2>7. FixerWell(f)' /\ ~Busy(f)'
    BY <2>4, <2>6 DEF FixerWell, Busy, Cur, At, Pcs
  <2> QED  BY <1>2, <1>7, <2>4, <2>5, <2>7, TypedStep DEF Check, Plan
<1>24. ASSUME NEW f \in Fixers, Check(f) PROVE Typed'
  <2>1. PICK scope \in Scopes :
          fixer' = [fixer EXCEPT ![f] = [pc |-> "checked", todo |-> Findings(files, scope),
                                         action |-> NoAction]]
    BY <1>24 DEF Check
  <2>2. \A x \in Findings(files, scope) : Found(x)
    BY FindingsFound DEF Typed
  <2> QED  BY <1>7, <1>24, <2>1, <2>2
<1>25. ASSUME NEW f \in Fixers, Plan(f) PROVE Typed'
  <2>1. \A x \in fixer[f].todo : Found(x)
    BY <1>1, <1>25 DEF FixerWell, Plan
  <2>2. \A a \in PlanRepairs(files, fixer[f].todo) : Planned(a)
    BY <2>1, PlansPlan DEF Typed
  <2>3. fixer' = [fixer EXCEPT ![f] = [pc |-> "next", todo |-> PlanRepairs(files, fixer[f].todo),
                                       action |-> NoAction]]
    BY <1>25 DEF Plan
  <2> QED  BY <1>7, <1>25, <2>2, <2>3
<1>8. ASSUME NEW f \in Fixers, Finish(f) PROVE Typed'
  BY <1>2, <1>6, <1>8 DEF Finish
<1>9. ASSUME NEW f \in Fixers, Validate(f) PROVE Typed'
  <2>1. PICK a \in fixer[f].todo :
          fixer' = [fixer EXCEPT ![f] = [pc |-> IF a.kind = "move" THEN "move" ELSE "stage",
                                         todo |-> @.todo \ {a}, action |-> a]]
    BY <1>9 DEF Validate
  <2> DEFINE r == [pc |-> IF a.kind = "move" THEN "move" ELSE "stage",
                   todo |-> fixer[f].todo \ {a}, action |-> a]
  <2>2. fixer' = [fixer EXCEPT ![f] = r]
    BY <1>1, <2>1 DEF FixerShape
  <2>3. Alike(f) /\ fixer'[f] = r
    <3>1. r = [pc |-> r.pc, todo |-> r.todo, action |-> r.action]
      OBVIOUS
    <3> HIDE DEF r
    <3> QED  BY <1>1, <2>2, <3>1, MovedOn
  <2>4. \A b \in fixer[f].todo : Planned(b)'
    BY <1>1, <1>5, <1>9 DEF FixerWell, Validate, At
  <2>5. FixerWell(f)'
    BY <2>3, <2>4 DEF FixerWell, Busy, Cur, At, Pcs
  <2>6. Cur(f)' \notin fixer'[f].todo
    BY <2>3 DEF Cur
  <2> QED  BY <1>1, <1>2, <1>9, <2>3, <2>5, <2>6, TypedStep DEF Validate
<1>10. ASSUME NEW f \in Fixers, LinkMove(f) PROVE Typed'
  <2>1. FilesStill
    BY <1>1, <1>4, <1>10 DEF LinkMove, Land
  <2> QED  BY <1>10, <2>1, TypedGoTo DEF LinkMove, Busy, At, Pcs
<1>11. ASSUME NEW f \in Fixers, Stage(f) PROVE Typed'
  <2>1. /\ Planned(Cur(f)) /\ Cur(f).kind # "move" /\ files[Cur(f).source] \in File
        /\ files[Cur(f).source].rev <= meddling
    BY <1>1, <1>11 DEF FixerWell, Busy, Stage, At
  <2> DEFINE c == Rewritten(Cur(f), files[Cur(f).source])
  <2>2. c \in File /\ Version(c) = Version(files[Cur(f).source])
    BY <2>1, RepairsAreLighter
  <2>3. files' = With(Staging(f, Cur(f)), c)
    BY <1>11 DEF Stage, Land
  <2> HIDE DEF c
  <2>4. c.rev <= meddling
    BY <2>1, <2>2 DEF Version
  <2>5. FilesStill
    BY <1>4, <1>11, <2>2, <2>3, <2>4 DEF Stage
  <2> QED  BY <1>11, <2>5, TypedGoTo DEF Stage, Busy, At, Pcs
<1>12. ASSUME NEW f \in Fixers, Seal(f) PROVE Typed'
  BY <1>2, <1>12, TypedGoTo DEF Seal, Busy, At, Pcs
<1>13. ASSUME NEW f \in Fixers, Publish(f) PROVE Typed'
  <2>1. FilesStill
    BY <1>1, <1>4, <1>13 DEF Publish, Land
  <2> QED  BY <1>13, <2>1, TypedGoTo DEF Publish, Busy, At, Pcs
<1>14. ASSUME NEW f \in Fixers, Unstage(f) PROVE Typed'
  BY <1>3, <1>14, TypedGoTo DEF Unstage, Busy, At, Pcs
<1>15. ASSUME NEW f \in Fixers, Recheck(f) PROVE Typed'
  BY <1>2, <1>15, TypedGoTo DEF Recheck, Busy, At, Pcs
<1>16. ASSUME NEW f \in Fixers, Unlink(f) PROVE Typed'
  <2> DEFINE r == [pc |-> "next", todo |-> fixer[f].todo, action |-> NoAction]
  <2>1. fixer' = [fixer EXCEPT ![f] = r]
    BY <1>1, <1>16 DEF Unlink, FixerShape
  <2>2. Alike(f) /\ fixer'[f] = r
    BY <1>1, <2>1, MovedOn
  <2>3. FixerWell(f)' /\ ~Busy(f)'
    BY <1>1, <1>5, <1>16, <2>2 DEF FixerWell, Busy, Cur, At, Pcs, Unlink
  <2> QED  BY <1>1, <1>3, <1>16, <2>2, <2>3, TypedStep DEF Unlink
<1>17. ASSUME NEW f \in Fixers, Stop(f) PROVE Typed'
  BY <1>2, <1>3, <1>6, <1>17 DEF Stop
<1>18. ASSUME NEW f \in Fixers, Die(f) PROVE Typed'
  BY <1>2, <1>6, <1>18 DEF Die
<1>19. CASE Verify \/ ResetStops
  BY <1>1, <1>2, <1>19, TypedQuietly DEF Verify, ResetStops, IdleReset
<1>20. CASE Replace
  <2>1. FilesStill
    BY <1>1, <1>20 DEF Replace, FilesStill
  <2> QED  BY <1>1, <1>20, <2>1, TypedQuietly DEF Replace, IdleReset
<1>21. CASE Edit
  <2>1. PICK p \in DOMAIN files \ Temporary, edit \in Edits : Land(p, Edited(files[p], edit))
    BY <1>21 DEF Edit
  <2>2. meddling' = meddling + 1 /\ meddling' \in 0..MaxMeddling
    BY <1>1, <1>21 DEF Edit
  <2>3. edit.number \in STRING /\ edit.volume \in STRING /\ files[p] \in File
    BY <1>1, LibraryRepairAssumption DEF LibraryRepairAssumption
  <2> DEFINE c == Edited(files[p], edit)
  <2>4. c \in File /\ c.rev = meddling'
    BY <1>1, <2>2, <2>3, EditsAreFiles
  <2>5. files' = With(p, c)
    BY <2>1 DEF Land
  <2> HIDE DEF c
  <2>6. FilesStill
    BY <1>1, <1>4, <2>2, <2>4, <2>5
  <2> QED  BY <1>1, <1>21, <2>2, <2>6, TypedQuietly DEF Edit
<1>22. CASE Arrive
  <2> DEFINE c == [verified.content EXCEPT !.id = 0, !.rev = meddling + 1]
  <2>1. PICK p : Land(p, c)
    BY <1>22 DEF Arrive
  <2>2. meddling' = meddling + 1 /\ meddling' \in 0..MaxMeddling
    BY <1>1, <1>22 DEF Arrive
  <2>3. verified.content \in File
    BY DEF Typed, TypeOK
  <2>4. c \in File /\ c.rev = meddling'
    <3>1. meddling + 1 \in Nat
      BY <1>1
    <3> QED  BY <2>2, <2>3, <3>1 DEF File
  <2>5. files' = With(p, c)
    BY <2>1 DEF Land
  <2> HIDE DEF c
  <2>6. FilesStill
    BY <1>1, <1>4, <2>2, <2>4, <2>5
  <2> QED  BY <1>1, <1>22, <2>2, <2>6, TypedQuietly DEF Arrive
<1>23. CASE UNCHANGED vars
  BY <1>1, <1>2, <1>23, TypedQuietly DEF vars
<1> QED  BY <1>24, <1>25, <1>8, <1>9, <1>10, <1>11, <1>12, <1>13, <1>14, <1>15, <1>16, <1>17, <1>18,
            <1>19, <1>20, <1>21, <1>22, <1>23 DEF Next

(* Every file, record, plan and repair has its type at every moment.       *)
THEOREM TypeCorrect == Spec => []TypeOK
<1>1. Init => Typed
  BY TypedInit
<1>2. Typed /\ [Next]_vars => Typed'
  BY TypedNext
<1>3. Typed => TypeOK
  BY DEF Typed
<1> QED  BY <1>1, <1>2, <1>3, PTL DEF Spec

----------------------------------------------------------------------------
(* What a step leaves where it is *)

LEMMA CondemnedIs ==
  ASSUME NEW p
  PROVE  p \in Condemned <=> \/ \E f \in Fixers : Condemns(f, p)
                             \/ reset.pc = "verified" /\ p = Incoming
BY DEF Condemned, Condemns, At, Cur

(* A place that is doomed after a step of one repair was doomed before, or *)
(* the repair has just doomed it.                                          *)
LEMMA DoomedLess ==
  ASSUME NEW f \in Fixers, Alike(f), reset' = reset, NEW p, Doomed(p)'
  PROVE  \/ \E g \in Fixers : g # f /\ (Condemns(g, p) \/ Stages(g, p))
         \/ reset.pc = "verified" /\ p = Incoming
         \/ Condemns(f, p)' \/ Stages(f, p)'
<1>1. \A g \in Fixers : g # f => /\ Condemns(g, p)' <=> Condemns(g, p)
                                 /\ Stages(g, p)' <=> Stages(g, p)
  BY DEF Alike, Condemns, Stages, At, Cur
<1> QED  BY <1>1 DEF Doomed

LEMMA DoomedStays ==
  ASSUME fixer' = fixer, NEW p, Doomed(p)'
  PROVE  \/ Doomed(p)
         \/ reset'.pc = "verified" /\ p = Incoming
BY DEF Doomed, Condemns, Stages, At, Cur

(* A step that takes nothing which is not doomed, and dooms nothing else.  *)
Spares ==
  \A p \in DOMAIN files : ~Doomed(p) => p \in DOMAIN files' /\ files'[p] = files[p] /\ ~Doomed(p)'

LEMMA Spared ==
  ASSUME Spares, NEW v, NEW S, Lies(v, S)
  PROVE  Lies(v, S)'
BY DEF Lies, Spares

(* What has to be seen of a step: the repairs that do not move find their  *)
(* staged copies untouched, the versions that were there lie somewhere,    *)
(* and new versions, which nobody has planned for, do as well.             *)
Untouched(g) ==
  \A p \in DOMAIN files' : Stages(g, p) => p \in DOMAIN files /\ files'[p] = files[p]

Sorts == {File} \cup {Lighter(c) : c \in File}

LEMMA KeptStep ==
  ASSUME IInv, Typed', ReturnsRecorded, NEW G \in SUBSET Fixers,
         \A g \in G : fixer'[g] = fixer[g] /\ Untouched(g),
         \A f \in Fixers \ G : StagedFor(f)' /\ MendedFor(f)',
         NEW N, current' \ raced' \subseteq (current \ raced) \cup N,
         \A g \in G : fixer[g].pc \in {"published", "recheck"} => Version(Cur(g).content) \notin N,
         \A v \in (current' \ raced') \ N : \A S \in Sorts : Lies(v, S) => Lies(v, S)',
         \A v \in (current' \ raced') \cap N : Lies(v, File)'
  PROVE  IInv'
<1>1. ASSUME NEW g \in G PROVE StagedFor(g)'
  <2>1. StagedFor(g) /\ g \in Fixers /\ fixer'[g] = fixer[g] /\ Untouched(g)
    BY DEF IInv, StagedAsPlanned
  <2>2. Cur(g)' = Cur(g) /\ fixer'[g].pc = fixer[g].pc
        /\ \A p : Stages(g, p)' <=> Stages(g, p)
    BY <2>1 DEF Cur, Stages
  <2>3. /\ raced \subseteq raced'
        /\ fixer[g].pc = "staged" /\ Unchanged(g)' =>
             Unchanged(g) \/ Version(Cur(g).content) \in raced'
    BY <2>1, <2>2 DEF ReturnsRecorded, At
  <2>4. ASSUME NEW p \in DOMAIN files', fixer'[g].pc \in {"staged", "sealed"}, Stages(g, p)',
               At(g, "sealed")' \/ Unchanged(g)'
        PROVE  \/ files'[p] \in Lighter(Cur(g)'.content) /\ Version(files'[p]) = Version(Cur(g)'.content)
               \/ Version(Cur(g)'.content) \in raced'
    <3>1. p \in DOMAIN files /\ files'[p] = files[p]
      BY <2>1, <2>2, <2>4 DEF Untouched
    <3>2. At(g, "sealed") \/ Unchanged(g) =>
            \/ files[p] \in Lighter(Cur(g).content) /\ Version(files[p]) = Version(Cur(g).content)
            \/ Version(Cur(g).content) \in raced
      BY <2>1, <2>2, <2>4, <3>1 DEF StagedFor
    <3>3. At(g, "sealed") \/ Unchanged(g) \/ Version(Cur(g).content) \in raced'
      BY <2>2, <2>3, <2>4 DEF At
    <3> QED  BY <2>2, <2>3, <3>1, <3>2, <3>3
  <2> QED  BY <2>4 DEF StagedFor
<1>2. ASSUME NEW g \in G PROVE MendedFor(g)'
  <2>1. MendedFor(g) /\ g \in Fixers /\ fixer'[g] = fixer[g]
    BY DEF IInv, MendedBeforeRemoval
  <2>2. ASSUME NEW v \in current' \ raced', fixer'[g].pc \in {"published", "recheck"},
               v = Version(Cur(g)'.content)
        PROVE  Lies(v, Lighter(Cur(g).content))'
    <3>1. /\ v = Version(Cur(g).content) /\ v \notin N /\ v \in current \ raced
          /\ Cur(g)' = Cur(g)
      BY <2>1, <2>2 DEF Cur
    <3>2. Lies(v, Lighter(Cur(g).content))
      BY <2>1, <2>2, <3>1 DEF MendedFor
    <3>3. Lighter(Cur(g).content) \in Sorts
      BY <2>1, <2>2 DEF IInv, WellPlanned, Busy, Planned, Sorts
    <3>4. PICK L : L = Lighter(Cur(g).content)
      OBVIOUS
    <3>5. Lies(v, L)'
      BY <2>2, <3>1, <3>2, <3>3, <3>4
    <3> QED  BY <3>1, <3>4, <3>5 DEF Lies, Lighter
  <2> QED  BY <2>2 DEF MendedFor
<1>3. ASSUME NEW v \in current' \ raced' PROVE Lies(v, File)'
  <2>1. CASE v \in N
    BY <2>1
  <2>2. CASE v \notin N
    <3>1. Lies(v, File)
      BY <2>2 DEF IInv, KeptSomewhere
    <3> QED  BY <2>2, <3>1 DEF Sorts
  <2> QED  BY <2>1, <2>2
<1> QED  BY <1>1, <1>2, <1>3 DEF IInv, StagedAsPlanned, MendedBeforeRemoval, KeptSomewhere, Typed

(* A step of one repair makes no new versions. *)
LEMMA KeptByOne ==
  ASSUME IInv, Typed', ReturnsRecorded, NEW f \in Fixers, Alike(f),
         \A g \in Fixers : g # f => Untouched(g),
         StagedFor(f)', MendedFor(f)',
         current' \ raced' \subseteq current \ raced,
         \A v \in current' \ raced' : \A S \in Sorts : Lies(v, S) => Lies(v, S)'
  PROVE  IInv'
<1> DEFINE G == Fixers \ {f}
           N == {}
<1>1. G \in SUBSET Fixers /\ \A g \in G : fixer'[g] = fixer[g] /\ Untouched(g)
  BY DEF Alike
<1>2. \A g \in Fixers \ G : StagedFor(g)' /\ MendedFor(g)'
  OBVIOUS
<1>3. /\ current' \ raced' \subseteq (current \ raced) \cup N
      /\ \A g \in G : fixer[g].pc \in {"published", "recheck"} => Version(Cur(g).content) \notin N
      /\ \A v \in (current' \ raced') \ N : \A S \in Sorts : Lies(v, S) => Lies(v, S)'
      /\ \A v \in (current' \ raced') \cap N : Lies(v, File)'
  OBVIOUS
<1> HIDE DEF G, N
<1> QED  BY <1>1, <1>2, <1>3, KeptStep

(* The steps that change no file but doomed ones, and make no version.     *)
LEMMA KeptQuietly ==
  ASSUME IInv, Typed', ReturnsRecorded, NEW f \in Fixers, Alike(f),
         \A g \in Fixers : g # f => Untouched(g),
         StagedFor(f)', MendedFor(f)', Spares,
         current' \ raced' \subseteq current \ raced
  PROVE  IInv'
BY KeptByOne, Spared

LEMMA SparesStep ==
  ASSUME NEW f \in Fixers, Alike(f), reset' = reset,
         \A p \in DOMAIN files : ~Doomed(p) =>
           p \in DOMAIN files' /\ files'[p] = files[p] /\ ~Condemns(f, p)' /\ ~Stages(f, p)'
  PROVE  Spares
<1>1. ASSUME NEW p \in DOMAIN files, ~Doomed(p), Doomed(p)' PROVE FALSE
  <2>1. \/ \E g \in Fixers : g # f /\ (Condemns(g, p) \/ Stages(g, p))
        \/ reset.pc = "verified" /\ p = Incoming
        \/ Condemns(f, p)' \/ Stages(f, p)'
    BY <1>1, DoomedLess
  <2> QED  BY <1>1, <2>1 DEF Doomed
<1> QED  BY <1>1 DEF Spares

(* Nobody stages where another publishes, or in Incoming. *)
LEMMA StagedApart ==
  ASSUME WellPlanned, NEW g \in Fixers, NEW p, Stages(g, p)
  PROVE  /\ p # Incoming
         /\ \A b : Planned(b) => p # b.destination
         /\ \A b, h : Planned(b) /\ h \in Fixers /\ h # g => p # Staging(h, b)
         /\ p.folder # <<>> /\ p.folder[Len(p.folder)] \in {<<f>> : f \in Fixers}
<1>1. Planned(Cur(g)) /\ p = Staging(g, Cur(g))
  BY DEF WellPlanned, Stages, Busy
<1> QED  BY <1>1, Apart, Places

LEMMA UntouchedBy ==
  ASSUME NEW g \in Fixers
  PROVE  /\ UNCHANGED files => Untouched(g)
         /\ \A p : files' = Without(p) => Untouched(g)
         /\ \A p, c : files' = With(p, c) /\ ~Stages(g, p) => Untouched(g)
<1>1. UNCHANGED files => Untouched(g)
  BY DEF Untouched
<1>2. ASSUME NEW p, files' = Without(p) PROVE Untouched(g)
  BY <1>2 DEF Untouched, Without
<1>3. ASSUME NEW p, NEW c, files' = With(p, c), ~Stages(g, p) PROVE Untouched(g)
  BY <1>3 DEF Untouched, With
<1> QED  BY <1>1, <1>2, <1>3

(* What lands is recorded as raced if somebody has looked at its path for  *)
(* the last time; nobody else is about to take it, where nobody stages.    *)
LEMMA LandedSafely ==
  ASSUME NEW p, NEW c, Land(p, c), Version(c) \notin raced',
         \A g \in Fixers : ~Stages(g, p)
  PROVE  ~Doomed(p)
<1>1. p \notin Condemned
  BY DEF Land
<1> QED  BY <1>1, CondemnedIs DEF Doomed

LEMMA LandLess ==
  ASSUME NEW p, NEW c, Land(p, c)
  PROVE  raced \subseteq raced'
BY DEF Land

----------------------------------------------------------------------------
(* The steps of a repair *)

(* A repair that ends, is refused or dies, or begins. *)
LEMMA Resting ==
  ASSUME NEW f \in Fixers, fixer'[f].pc \in {"idle", "checked", "next", "move", "stage"}
  PROVE  StagedFor(f)' /\ MendedFor(f)' /\ \A p : ~Condemns(f, p)' /\ ~Stages(f, p)'
BY DEF StagedFor, MendedFor, Condemns, Stages, At

LEMMA KeptByResting ==
  ASSUME IInv, Typed', ReturnsRecorded, NEW f \in Fixers, Alike(f),
         fixer'[f].pc \in {"idle", "checked", "next", "move", "stage"},
         UNCHANGED files \/ \E p : files' = Without(p) /\ Doomed(p),
         reset' = reset, current' = current, raced' = raced
  PROVE  IInv'
<1>1. \A g \in Fixers : Untouched(g)
  BY UntouchedBy
<1>2. Spares
  <2>1. \A p \in DOMAIN files : ~Doomed(p) => p \in DOMAIN files' /\ files'[p] = files[p]
    BY DEF Without
  <2>2. \A p : ~Condemns(f, p)' /\ ~Stages(f, p)'
    BY Resting
  <2> QED  BY <2>1, <2>2, SparesStep
<1> QED  BY <1>1, <1>2, Resting, KeptQuietly

LEMMA KeptByBeginning ==
  ASSUME IInv, Typed', ReturnsRecorded, NEW f \in Fixers,
         Check(f) \/ Plan(f) \/ Finish(f) \/ Validate(f) \/ Stop(f) \/ Die(f) \/ Unlink(f)
  PROVE  IInv'
<1> USE DEF Others, Alone
<1>1. FixerShape /\ WellPlanned
  BY DEF IInv, WellPlanned
<1>2. CASE Quit(f) /\ (Finish(f) \/ Stop(f) \/ Die(f))
  <2>1. Alike(f) /\ fixer'[f].pc = "idle"
    BY <1>1, <1>2, MovedOn DEF IdleFixer
  <2>2. UNCHANGED files \/ \E p : files' = Without(p) /\ Doomed(p)
    <3>1. CASE Stop(f) /\ fixer[f].pc \in {"staged", "sealed", "published"}
      <4>1. files' = Without(Staging(f, Cur(f)))
        BY <3>1 DEF Stop, At
      <4>2. Doomed(Staging(f, Cur(f)))
        BY <3>1 DEF Doomed, Stages
      <4> QED  BY <4>1, <4>2
    <3>2. CASE ~(Stop(f) /\ fixer[f].pc \in {"staged", "sealed", "published"})
      BY <1>2, <3>2 DEF Stop, Finish, Die, At
    <3> QED  BY <3>1, <3>2
  <2> QED  BY <1>2, <2>1, <2>2, KeptByResting DEF Finish, Stop, Die
<1>3. CASE Check(f) \/ Plan(f) \/ Validate(f)
  <2>1. PICK r : /\ fixer' = [fixer EXCEPT ![f] = r]
                 /\ r.pc \in {"checked", "next", "move", "stage"}
                 /\ r = [pc |-> r.pc, todo |-> r.todo, action |-> r.action]
    <3>1. CASE Check(f) \/ Plan(f)
      <4>1. \E pc, todo : /\ pc \in {"checked", "next"}
                          /\ fixer' = [fixer EXCEPT ![f] = [pc |-> pc, todo |-> todo,
                                                            action |-> NoAction]]
        BY <3>1 DEF Check, Plan
      <4>2. PICK pc, todo : /\ pc \in {"checked", "next"}
                            /\ fixer' = [fixer EXCEPT ![f] = [pc |-> pc, todo |-> todo,
                                                              action |-> NoAction]]
        BY <4>1
      <4> DEFINE r == [pc |-> pc, todo |-> todo, action |-> NoAction]
      <4>3. fixer' = [fixer EXCEPT ![f] = r] /\ r.pc \in {"checked", "next", "move", "stage"}
            /\ r = [pc |-> r.pc, todo |-> r.todo, action |-> r.action]
        BY <4>2
      <4> HIDE DEF r
      <4> QED  BY <4>3
    <3>2. CASE Validate(f)
      <4>1. PICK a : fixer' = [fixer EXCEPT ![f] =
                                 [pc |-> IF a.kind = "move" THEN "move" ELSE "stage",
                                  todo |-> @.todo \ {a}, action |-> a]]
        BY <3>2 DEF Validate
      <4> DEFINE r == [pc |-> IF a.kind = "move" THEN "move" ELSE "stage",
                       todo |-> fixer[f].todo \ {a}, action |-> a]
      <4>2. fixer' = [fixer EXCEPT ![f] = r]
        BY <1>1, <4>1 DEF FixerShape
      <4>3. r.pc \in {"checked", "next", "move", "stage"}
            /\ r = [pc |-> r.pc, todo |-> r.todo, action |-> r.action]
        OBVIOUS
      <4> HIDE DEF r
      <4> QED  BY <4>2, <4>3
    <3> QED  BY <1>3, <3>1, <3>2
  <2>2. Alike(f) /\ fixer'[f].pc \in {"checked", "next", "move", "stage"}
    BY <1>1, <2>1, MovedOn
  <2> QED  BY <1>3, <2>2, KeptByResting DEF Check, Plan, Validate
<1>4. CASE Unlink(f)
  <2> DEFINE r == [pc |-> "next", todo |-> fixer[f].todo, action |-> NoAction]
  <2>1. fixer' = [fixer EXCEPT ![f] = r]
    BY <1>1, <1>4 DEF Unlink, FixerShape
  <2>2. Alike(f) /\ fixer'[f].pc = "next"
    <3>1. r.pc = "next" /\ r = [pc |-> r.pc, todo |-> r.todo, action |-> r.action]
      OBVIOUS
    <3> HIDE DEF r
    <3> QED  BY <1>1, <2>1, <3>1, MovedOn
  <2>3. Doomed(Cur(f).source)
    BY <1>4 DEF Unlink, Doomed, Condemns
  <2>4. files' = Without(Cur(f).source)
    BY <1>4 DEF Unlink
  <2> QED  BY <1>4, <2>2, <2>3, <2>4, KeptByResting DEF Unlink
<1> QED  BY <1>2, <1>3, <1>4 DEF Finish, Stop, Die

(* Linking a file to its new place; what it was linked from may go.        *)
LEMMA KeptByLinkMove ==
  ASSUME IInv, Typed', ReturnsRecorded, NEW f \in Fixers, LinkMove(f)
  PROVE  IInv'
<1> USE DEF Alone
<1>0. PICK a, c : a = Cur(f) /\ c = files[a.source]
  OBVIOUS
<1>1. FixerShape /\ WellPlanned
  BY DEF IInv, WellPlanned
<1>2. /\ Alike(f) /\ fixer'[f].pc = "unlink" /\ Cur(f)' = a /\ reset' = reset
      /\ a.source \in DOMAIN files /\ a.destination \notin DOMAIN files
      /\ Land(a.destination, c) /\ files' = With(a.destination, c) /\ current' = current
  BY <1>0, <1>1, MovedOn DEF LinkMove, Cur, Land
<1>3. Planned(a)
  BY <1>0, <1>1 DEF WellPlanned, Busy, LinkMove, At
<1>4. \A g \in Fixers : ~Stages(g, a.destination)
  BY <1>1, <1>3, StagedApart
<1>5. \A g \in Fixers : Untouched(g)
  BY <1>2, <1>4, UntouchedBy
<1>6. StagedFor(f)' /\ MendedFor(f)' /\ \A p : ~Stages(f, p)'
  BY <1>2 DEF StagedFor, MendedFor, Stages
<1>7. current' \ raced' \subseteq current \ raced
  BY <1>2, LandLess
<1>8. ASSUME NEW v \in current' \ raced', NEW S \in Sorts, Lies(v, S)
      PROVE  Lies(v, S)'
  <2>1. PICK p \in DOMAIN files : ~Doomed(p) /\ files[p] \in S /\ Version(files[p]) = v
    BY <1>8 DEF Lies
  <2>2. \A q : Doomed(q)' => Doomed(q) \/ q = a.source
    <3>1. \A q : Condemns(f, q)' => q = a.source
      BY <1>2 DEF Condemns
    <3> QED  BY <1>2, <1>6, <3>1, DoomedLess DEF Doomed
  <2>3. CASE p = a.source
    <3>1. ~Doomed(a.destination)
      BY <1>0, <1>2, <1>4, <2>1, <2>3, LandedSafely
    <3>2. ~Doomed(a.destination)'
      BY <1>2, <2>2, <3>1
    <3>3. a.destination \in DOMAIN files' /\ files'[a.destination] = c
      BY <1>2 DEF With
    <3>4. files'[a.destination] \in S /\ Version(files'[a.destination]) = v
      BY <1>0, <2>1, <2>3, <3>3
    <3> QED  BY <3>2, <3>3, <3>4 DEF Lies
  <2>4. CASE p # a.source
    <3>1. p \in DOMAIN files' /\ files'[p] = files[p]
      BY <1>2, <2>1 DEF With
    <3> QED  BY <2>1, <2>2, <2>4, <3>1 DEF Lies
  <2> QED  BY <2>3, <2>4
<1> QED  BY <1>2, <1>5, <1>6, <1>7, <1>8, KeptByOne

(* Staging: what is staged is lighter, and of the version that lay there.  *)
LEMMA KeptByStage ==
  ASSUME IInv, Typed', ReturnsRecorded, NEW f \in Fixers, Stage(f)
  PROVE  IInv'
<1> USE DEF Others, Alone
<1>0. PICK a, s, c : /\ a = Cur(f) /\ s = Staging(f, a)
                     /\ c = Rewritten(a, files[a.source])
  OBVIOUS
<1>1. FixerShape /\ WellPlanned
  BY DEF IInv, WellPlanned
<1>2. /\ Alike(f) /\ fixer'[f].pc = "staged" /\ Cur(f)' = a /\ reset' = reset
      /\ a.source \in DOMAIN files /\ s \notin DOMAIN files
      /\ files' = With(s, c) /\ current' = current /\ raced \subseteq raced'
  BY <1>0, <1>1, MovedOn DEF Stage, Cur, Land
<1>3. Planned(a) /\ a.kind # "move" /\ files[a.source] \in File
  BY <1>0, <1>1, <1>2 DEF WellPlanned, Busy, Stage, At
<1>4. /\ Version(c) = Version(files[a.source])
      /\ files[a.source] = a.content => c \in Lighter(a.content)
  <2>1. files[a.source].container \in Readable(a.kind)
    BY <1>0 DEF Stage
  <2> QED  BY <1>0, <1>3, <2>1, RepairsAreLighter
<1>5. \A g \in Fixers : g # f => ~Stages(g, s)
  BY <1>0, <1>1, <1>3, StagedApart
<1>6. \A g \in Fixers : g # f => Untouched(g)
  BY <1>2, <1>5, UntouchedBy
<1>7. /\ \A p : Stages(f, p)' <=> p = s
      /\ \A p : ~Condemns(f, p)'
  BY <1>0, <1>2 DEF Stages, Condemns, At
<1>8. StagedFor(f)'
  <2>1. files'[s] = c /\ files'[a.source] = files[a.source] /\ ~At(f, "sealed")'
    BY <1>2 DEF With, At
  <2>2. Unchanged(f)' => files[a.source] = a.content
    BY <1>2, <2>1 DEF Unchanged
  <2> QED  BY <1>2, <1>4, <1>7, <2>1, <2>2 DEF StagedFor
<1>9. MendedFor(f)'
  BY <1>2 DEF MendedFor
<1>10. Spares
  <2>1. \A p \in DOMAIN files : p # s /\ p \in DOMAIN files' /\ files'[p] = files[p]
    BY <1>2 DEF With
  <2> QED  BY <1>2, <1>7, <2>1, SparesStep
<1> QED  BY <1>2, <1>6, <1>8, <1>9, <1>10, KeptQuietly

(* Hashing the source: what was staged is the planned version.             *)
LEMMA KeptBySeal ==
  ASSUME IInv, Typed', ReturnsRecorded, NEW f \in Fixers, Seal(f)
  PROVE  IInv'
<1> USE DEF Others, Alone
<1>1. FixerShape /\ StagedFor(f)
  BY DEF IInv, WellPlanned, StagedAsPlanned
<1>2. /\ Alike(f) /\ fixer'[f].pc = "sealed" /\ Cur(f)' = Cur(f) /\ reset' = reset
      /\ fixer[f].pc = "staged" /\ Unchanged(f)
      /\ files' = files /\ current' = current /\ raced' = raced
  BY <1>1, MovedOn DEF Seal, Cur, At
<1>3. \A p : /\ Stages(f, p)' <=> Stages(f, p)
             /\ ~Condemns(f, p)'
  BY <1>2 DEF Stages, Condemns, At
<1>4. StagedFor(f)'
  BY <1>1, <1>2, <1>3 DEF StagedFor
<1>5. MendedFor(f)'
  BY <1>2 DEF MendedFor
<1>6. Spares
  BY <1>2, <1>3, SparesStep DEF Doomed
<1> QED  BY <1>2, <1>4, <1>5, <1>6, UntouchedBy, KeptQuietly

(* Publishing: a lighter copy of the planned version lies at its place, or   *)
(* came there when somebody was about to remove what lay there.            *)
LEMMA KeptByPublish ==
  ASSUME IInv, Typed', ReturnsRecorded, NEW f \in Fixers, Publish(f)
  PROVE  IInv'
<1> USE DEF Alone
<1>0. PICK a, s, d, c : a = Cur(f) /\ s = Staging(f, a) /\ d = a.destination /\ c = files[s]
  OBVIOUS
<1>1. FixerShape /\ WellPlanned /\ StagedFor(f)
  BY DEF IInv, WellPlanned, StagedAsPlanned
<1>2. /\ Alike(f) /\ fixer[f].pc = "sealed" /\ fixer'[f].pc = "published" /\ Cur(f)' = a
      /\ s \in DOMAIN files /\ d \notin DOMAIN files /\ reset' = reset
      /\ Land(d, c) /\ files' = With(d, c) /\ current' = current
  BY <1>0, <1>1, MovedOn DEF Publish, Cur, At, Land
<1>3. Planned(a)
  BY <1>0, <1>1, <1>2 DEF WellPlanned, Busy
<1>4. /\ Stages(f, s)
      /\ \A p : Stages(f, p)' <=> p = s
      /\ \A p : ~Condemns(f, p)'
  BY <1>0, <1>2 DEF Stages, Condemns, At
<1>5. (c \in Lighter(a.content) /\ Version(c) = Version(a.content)) \/ Version(a.content) \in raced
  BY <1>0, <1>1, <1>2, <1>4 DEF StagedFor, At
<1>6. \A g \in Fixers : ~Stages(g, d)
  BY <1>0, <1>1, <1>3, StagedApart
<1>7. \A g \in Fixers : Untouched(g)
  BY <1>2, <1>6, UntouchedBy
<1>8. /\ d \in DOMAIN files' /\ files'[d] = c
      /\ \A p \in DOMAIN files : p \in DOMAIN files' /\ files'[p] = files[p]
  BY <1>2 DEF With
<1>9. Spares
  <2>1. \A p \in DOMAIN files : ~Doomed(p) => p # s
    BY <1>4 DEF Doomed
  <2> QED  BY <1>2, <1>4, <1>8, <2>1, SparesStep
<1>10. StagedFor(f)'
  BY <1>2 DEF StagedFor
<1>11. MendedFor(f)'
  <2>1. ASSUME NEW v \in current' \ raced', v = Version(a.content)
        PROVE  Lies(v, Lighter(a.content))'
    <3>0. c \in Lighter(a.content) /\ Version(c) = v
      BY <1>2, <1>5, <2>1, LandLess
    <3>1. ~Doomed(d)
      BY <1>2, <1>6, <2>1, <3>0, LandedSafely
    <3>2. d # s
      BY <1>4, <1>6
    <3>3. ~Doomed(d)'
      <4>1. Doomed(d)' => \/ \E g \in Fixers : g # f /\ (Condemns(g, d) \/ Stages(g, d))
                          \/ reset.pc = "verified" /\ d = Incoming
                          \/ Condemns(f, d)' \/ Stages(f, d)'
        BY <1>2, DoomedLess
      <4> QED  BY <1>4, <3>1, <3>2, <4>1 DEF Doomed
    <3> QED  BY <1>8, <3>0, <3>3 DEF Lies, Lighter
  <2> QED  BY <1>2, <2>1 DEF MendedFor
<1>12. current' \ raced' \subseteq current \ raced
  BY <1>2, LandLess
<1> QED  BY <1>2, <1>7, <1>9, <1>10, <1>11, <1>12, KeptQuietly

(* Removing the staged name. *)
LEMMA KeptByUnstage ==
  ASSUME IInv, Typed', ReturnsRecorded, NEW f \in Fixers, Unstage(f)
  PROVE  IInv'
<1> USE DEF Others, Alone
<1>0. PICK s : s = Staging(f, Cur(f))
  OBVIOUS
<1>1. FixerShape /\ MendedFor(f)
  BY DEF IInv, WellPlanned, MendedBeforeRemoval
<1>2. /\ Alike(f) /\ fixer[f].pc = "published" /\ fixer'[f].pc = "recheck" /\ Cur(f)' = Cur(f)
      /\ reset' = reset /\ files' = Without(s) /\ current' = current /\ raced' = raced
  BY <1>0, <1>1, MovedOn DEF Unstage, Cur, At
<1>3. \A p : ~Stages(f, p)' /\ ~Condemns(f, p)'
  BY <1>2 DEF Stages, Condemns, At
<1>4. Spares
  <2>1. Doomed(s)
    BY <1>0, <1>2 DEF Doomed, Stages
  <2>2. \A p \in DOMAIN files : p # s => p \in DOMAIN files' /\ files'[p] = files[p]
    BY <1>2 DEF Without
  <2> QED  BY <1>2, <1>3, <2>1, <2>2, SparesStep
<1>5. StagedFor(f)'
  BY <1>2 DEF StagedFor
<1>6. MendedFor(f)'
  <2> DEFINE L == Lighter(Cur(f).content)
  <2>1. ASSUME NEW v \in current' \ raced', v = Version(Cur(f).content) PROVE Lies(v, L)'
    <3>1. Lies(v, L)
      BY <1>1, <1>2, <2>1 DEF MendedFor
    <3>2. ASSUME NEW S, Lies(v, S) PROVE Lies(v, S)'
      BY <1>4, <3>2, Spared
    <3> QED  BY <1>2, <3>1, <3>2 DEF Lies, Lighter
  <2> QED  BY <1>2, <2>1 DEF MendedFor
<1> QED  BY <1>2, <1>4, <1>5, <1>6, UntouchedBy, KeptQuietly

(* The last look at the source: what lies there is the planned file, which *)
(* is not lighter than itself, so the lighter copy of its version lies     *)
(* elsewhere.                                                              *)
LEMMA KeptByRecheck ==
  ASSUME IInv, Typed', ReturnsRecorded, NEW f \in Fixers, Recheck(f)
  PROVE  IInv'
<1> USE DEF Others, Alone
<1>0. PICK a, w : a = Cur(f) /\ w = Version(a.content)
  OBVIOUS
<1>1. FixerShape /\ WellPlanned /\ MendedFor(f)
  BY DEF IInv, WellPlanned, MendedBeforeRemoval
<1>2. /\ Alike(f) /\ fixer[f].pc = "recheck" /\ fixer'[f].pc = "unlink" /\ Cur(f)' = a
      /\ a.source \in DOMAIN files /\ files[a.source] = a.content
      /\ reset' = reset /\ files' = files /\ current' = current /\ raced' = raced
  BY <1>0, <1>1, MovedOn DEF Recheck, Cur, At, Unchanged
<1>3. a.content \in File /\ \A c \in File : Weight(c) \in Nat
  BY <1>0, <1>1, <1>2 DEF WellPlanned, Busy, Planned, Weight
<1>4. \A p : /\ ~Stages(f, p)'
             /\ Condemns(f, p)' => p = a.source
  BY <1>2 DEF Stages, Condemns, At
<1>5. \A p : Doomed(p)' => Doomed(p) \/ p = a.source
  BY <1>2, <1>4, DoomedLess DEF Doomed
<1>6. ASSUME NEW S \in Sorts, a.content \in S PROVE Lighter(a.content) \subseteq S
  BY <1>3, <1>6 DEF Sorts, Lighter
<1>7. ASSUME NEW v \in current \ raced, NEW S \in Sorts, Lies(v, S) PROVE Lies(v, S)'
  <2>1. PICK p \in DOMAIN files : ~Doomed(p) /\ files[p] \in S /\ Version(files[p]) = v
    BY <1>7 DEF Lies
  <2>2. CASE p = a.source
    <3>1. Lies(v, Lighter(a.content))
      BY <1>0, <1>1, <1>2, <2>1, <2>2 DEF MendedFor
    <3>2. PICK q \in DOMAIN files : /\ ~Doomed(q) /\ files[q] \in Lighter(a.content)
                                   /\ Version(files[q]) = v
      BY <3>1 DEF Lies
    <3>3. q # a.source
      BY <1>2, <1>3, <3>2 DEF Lighter
    <3>4. files[q] \in S
      BY <1>2, <1>6, <2>1, <2>2, <3>2
    <3> QED  BY <1>2, <1>5, <3>2, <3>3, <3>4 DEF Lies
  <2>3. CASE p # a.source
    BY <1>2, <1>5, <2>1, <2>3 DEF Lies
  <2> QED  BY <2>2, <2>3
<1>8. StagedFor(f)' /\ MendedFor(f)'
  BY <1>2 DEF StagedFor, MendedFor
<1> QED  BY <1>2, <1>7, <1>8, UntouchedBy, KeptByOne

----------------------------------------------------------------------------
(* The reset and the user *)

LEMMA KeptByOthers ==
  ASSUME IInv, Typed', ReturnsRecorded, fixer' = fixer, \A g \in Fixers : Untouched(g),
         NEW N, current' \ raced' \subseteq (current \ raced) \cup N,
         \A g \in Fixers : Version(Cur(g).content) \in N
                           => fixer[g].pc \notin {"published", "recheck"},
         \A v \in (current' \ raced') \ N : \A S \in Sorts : Lies(v, S) => Lies(v, S)',
         \A v \in (current' \ raced') \cap N : Lies(v, File)'
  PROVE  IInv'
<1> DEFINE G == Fixers
<1>1. /\ G \in SUBSET Fixers /\ \A g \in G : fixer'[g] = fixer[g] /\ Untouched(g)
      /\ \A f \in Fixers \ G : StagedFor(f)' /\ MendedFor(f)'
      /\ \A g \in G : fixer[g].pc \in {"published", "recheck"} => Version(Cur(g).content) \notin N
  OBVIOUS
<1> HIDE DEF G
<1> QED  BY <1>1, KeptStep

LEMMA KeptByLooking ==
  ASSUME IInv, Typed', ReturnsRecorded, Verify \/ ResetStops \/ UNCHANGED vars
  PROVE  IInv'
<1>1. /\ fixer' = fixer /\ files' = files /\ current' = current /\ raced' = raced
      /\ reset'.pc = "verified" => reset.pc = "verified" \/ Incoming \notin DOMAIN files
  BY DEF Verify, ResetStops, IdleReset, vars
<1>2. Spares
  BY <1>1, DoomedStays DEF Spares, Doomed
<1> DEFINE N == {}
<1>3. /\ current' \ raced' \subseteq (current \ raced) \cup N
      /\ \A g \in Fixers : Version(Cur(g).content) \in N
                           => fixer[g].pc \notin {"published", "recheck"}
      /\ \A v \in (current' \ raced') \ N : \A S \in Sorts : Lies(v, S) => Lies(v, S)'
      /\ \A v \in (current' \ raced') \cap N : Lies(v, File)'
  BY <1>1, <1>2, Spared
<1> HIDE DEF N
<1> QED  BY <1>1, <1>3, UntouchedBy, KeptByOthers

(* The reset: the publication lies in Incoming, where no repair looks.     *)
LEMMA KeptByReplace ==
  ASSUME IInv, Typed', ReturnsRecorded, Replace
  PROVE  IInv'
<1>0. PICK s : s = reset.source
  OBVIOUS
<1>1. /\ WellPlanned /\ reset.pc = "verified" /\ reset'.pc = "idle" /\ fixer' = fixer
      /\ current' = current /\ raced' = raced /\ s \in DOMAIN files
      /\ DOMAIN files' = (DOMAIN files \ {s}) \cup {Incoming} /\ files'[Incoming] = files[s]
      /\ \A p \in DOMAIN files : p # s /\ p # Incoming => files'[p] = files[p]
  BY <1>0 DEF Replace, IdleReset, IInv
<1>2. \A g \in Fixers : Untouched(g)
  BY <1>1, StagedApart DEF Untouched
<1>3. ~Doomed(Incoming)'
  <2>1. ASSUME NEW g \in Fixers PROVE ~Condemns(g, Incoming)' /\ ~Stages(g, Incoming)'
    <3>1. At(g, "unlink") => Cur(g).source # Incoming
      BY <1>1, LibraryRepairAssumption
         DEF LibraryRepairAssumption, WellPlanned, Busy, Planned, Found, At
    <3>2. ~Stages(g, Incoming)
      BY <1>1, StagedApart
    <3> QED  BY <1>1, <3>1, <3>2 DEF Condemns, Stages, At, Cur
  <2> QED  BY <1>1, <2>1 DEF Doomed
<1>4. \A p : Doomed(p)' => Doomed(p)
  BY <1>1, DoomedStays
<1>5. Doomed(Incoming)
  BY <1>1 DEF Doomed
<1>6. ASSUME NEW v, NEW S, Lies(v, S) PROVE Lies(v, S)'
  <2>1. PICK p \in DOMAIN files : ~Doomed(p) /\ files[p] \in S /\ Version(files[p]) = v
    BY <1>6 DEF Lies
  <2>2. CASE p = s
    BY <1>1, <1>3, <2>1, <2>2 DEF Lies
  <2>3. CASE p # s
    <3>1. p \in DOMAIN files' /\ files'[p] = files[p] /\ ~Doomed(p)'
      BY <1>1, <1>4, <1>5, <2>1, <2>3
    <3> QED  BY <2>1, <3>1 DEF Lies
  <2> QED  BY <2>2, <2>3
<1> DEFINE N == {}
<1>7. /\ current' \ raced' \subseteq (current \ raced) \cup N
      /\ \A g \in Fixers : Version(Cur(g).content) \in N
                           => fixer[g].pc \notin {"published", "recheck"}
      /\ \A v \in (current' \ raced') \ N : \A S \in Sorts : Lies(v, S) => Lies(v, S)'
      /\ \A v \in (current' \ raced') \cap N : Lies(v, File)'
  BY <1>1, <1>6
<1> HIDE DEF N
<1> QED  BY <1>1, <1>2, <1>7, KeptByOthers

(* A new version comes to a path, and with it the one that lay there goes. *)
LEMMA KeptByVersion ==
  ASSUME IInv, Typed', ReturnsRecorded, fixer' = fixer, reset' = reset, NEW p, NEW c,
         Land(p, c), c \in File, c.rev = meddling + 1, \A g \in Fixers : ~Stages(g, p),
         current' = (IF p \in DOMAIN files THEN current \ {Version(files[p])} ELSE current)
                    \cup {Version(c)}
  PROVE  IInv'
<1> DEFINE N == {Version(c)}
<1>1. WellPlanned /\ meddling \in Nat
  BY DEF IInv, WellPlanned
<1>2. files' = With(p, c) /\ raced \subseteq raced'
  BY LandLess DEF Land
<1>3. \A g \in Fixers : Untouched(g)
  BY <1>2, UntouchedBy
<1>4. /\ DOMAIN files' = DOMAIN files \cup {p} /\ files'[p] = c
      /\ \A q \in DOMAIN files : q # p => files'[q] = files[q]
  BY <1>2 DEF With
<1>5. \A q : Doomed(q)' => Doomed(q)
  BY DoomedStays DEF Doomed
<1>6. ASSUME NEW g \in Fixers, fixer[g].pc \in {"published", "recheck"}
      PROVE  Version(Cur(g).content) \notin N
  <2>1. Cur(g).content.rev \in Nat /\ Cur(g).content.rev <= meddling
    BY <1>1, <1>6 DEF WellPlanned, Busy, Planned, File
  <2> QED  BY <1>1, <2>1 DEF Version
<1>7. ASSUME NEW v \in (current' \ raced') \ N, NEW S, Lies(v, S) PROVE Lies(v, S)'
  <2>1. PICK q \in DOMAIN files : ~Doomed(q) /\ files[q] \in S /\ Version(files[q]) = v
    BY <1>7 DEF Lies
  <2>2. q # p
    BY <2>1
  <2> QED  BY <1>4, <1>5, <2>1, <2>2 DEF Lies
<1>8. ASSUME NEW v \in (current' \ raced') \cap N PROVE Lies(v, File)'
  <2>1. ~Doomed(p)
    BY LandedSafely
  <2> QED  BY <1>4, <1>5, <2>1 DEF Lies
<1>9. current' \ raced' \subseteq (current \ raced) \cup N
  BY <1>2
<1> HIDE DEF N
<1> QED  BY <1>3, <1>6, <1>7, <1>8, <1>9, KeptByOthers

LEMMA KeptByEdit ==
  ASSUME IInv, Typed', ReturnsRecorded, Edit
  PROVE  IInv'
<1>1. WellPlanned /\ meddling \in Nat
  BY DEF IInv, WellPlanned
<1>2. PICK p, c :
        /\ p \in DOMAIN files \ Temporary
        /\ \E edit \in Edits : c = Edited(files[p], edit)
        /\ Land(p, c) /\ current' = (current \ {Version(files[p])}) \cup {Version(c)}
  BY DEF Edit
<1>3. c \in File /\ c.rev = meddling + 1
  <2>1. PICK edit \in Edits : c = Edited(files[p], edit)
    BY <1>2
  <2>2. edit.number \in STRING /\ edit.volume \in STRING /\ files[p] \in File
    BY <1>1, <1>2, LibraryRepairAssumption DEF LibraryRepairAssumption, WellPlanned
  <2> QED  BY <1>1, <2>1, <2>2, EditsAreFiles
<1>4. \A g \in Fixers : ~Stages(g, p)
  BY <1>1, <1>2, StagedApart DEF Temporary, IsTemporary, Last
<1>5. fixer' = fixer /\ reset' = reset
  BY DEF Edit
<1> QED  BY <1>2, <1>3, <1>4, <1>5, KeptByVersion

LEMMA KeptByArrive ==
  ASSUME IInv, Typed', ReturnsRecorded, Arrive
  PROVE  IInv'
<1>1. WellPlanned /\ meddling \in Nat /\ verified.content \in File
  BY DEF IInv, WellPlanned, TypeOK
<1>2. PICK p, c :
        /\ p \in ({Cur(f).destination : f \in Fixers} \cup {Incoming}) \ DOMAIN files
        /\ c = [verified.content EXCEPT !.id = 0, !.rev = meddling + 1]
        /\ Land(p, c) /\ current' = current \cup {Version(c)}
  BY DEF Arrive
<1>3. c \in File /\ c.rev = meddling + 1
  <2>1. meddling + 1 \in Nat
    BY <1>1
  <2> QED  BY <1>1, <1>2, <2>1 DEF File
<1>4. ASSUME NEW g \in Fixers, Stages(g, p) PROVE FALSE
  <2>1. PICK f \in Fixers : p = Cur(f).destination
    BY <1>1, <1>2, <1>4, StagedApart
  <2>2. Planned(Cur(f)) \/ Cur(f) = NoAction
    BY <1>1 DEF WellPlanned
  <2>3. CASE Planned(Cur(f))
    BY <1>1, <1>4, <2>1, <2>3, StagedApart
  <2>4. CASE Cur(f) = NoAction
    <3>1. p = Incoming
      BY <2>1, <2>4 DEF NoAction
    <3> QED  BY <1>1, <1>4, <3>1, StagedApart
  <2> QED  BY <2>2, <2>3, <2>4
<1>5. fixer' = fixer /\ reset' = reset
  BY DEF Arrive
<1> QED  BY <1>2, <1>3, <1>4, <1>5, KeptByVersion

----------------------------------------------------------------------------
(* Nothing is lost *)

LEMMA KeptInit ==
  ASSUME Init
  PROVE  IInv
<1>1. Typed
  BY TypedInit
<1>2. \A f \in Fixers : fixer[f].pc = "idle"
  BY DEF Init, IdleFixer
<1>3. StagedAsPlanned /\ MendedBeforeRemoval
  BY <1>2 DEF StagedAsPlanned, StagedFor, MendedBeforeRemoval, MendedFor
<1>4. \A p : ~Doomed(p)
  BY <1>2 DEF Init, IdleReset, Doomed, Condemns, Stages, At
<1>5. \A p \in DOMAIN files : files[p] \in File
  BY <1>1 DEF Typed, TypeOK
<1>6. KeptSomewhere
  BY <1>4, <1>5 DEF KeptSomewhere, Lies, Init
<1> QED  BY <1>1, <1>3, <1>6 DEF IInv, Typed

LEMMA KeptNext ==
  ASSUME IInv, [Next]_vars, ReturnsRecorded
  PROVE  IInv'
<1>1. Typed'
  BY TypedNext DEF IInv, Typed
<1>2. ASSUME NEW f \in Fixers,
             \/ Check(f) \/ Plan(f) \/ Finish(f) \/ Validate(f) \/ LinkMove(f) \/ Stage(f) \/ Seal(f)
             \/ Publish(f) \/ Unstage(f) \/ Recheck(f) \/ Unlink(f) \/ Stop(f) \/ Die(f)
      PROVE  IInv'
  BY <1>1, <1>2, KeptByBeginning, KeptByLinkMove, KeptByStage, KeptBySeal, KeptByPublish,
     KeptByUnstage, KeptByRecheck
<1>3. CASE Verify \/ ResetStops \/ UNCHANGED vars
  BY <1>1, <1>3, KeptByLooking
<1>4. CASE Replace \/ Edit \/ Arrive
  BY <1>1, <1>4, KeptByReplace, KeptByEdit, KeptByArrive
<1> QED  BY <1>2, <1>3, <1>4 DEF Next

LEMMA KeptIsKept ==
  ASSUME IInv
  PROVE  NothingLost
BY DEF IInv, KeptSomewhere, Lies, NothingLost

LEMMA OneMoves ==
  ASSUME FixerShape, NEW g \in Fixers,
         \/ Check(g) \/ Plan(g) \/ Finish(g) \/ Validate(g) \/ LinkMove(g) \/ Stage(g) \/ Seal(g)
         \/ Publish(g) \/ Unstage(g) \/ Recheck(g) \/ Unlink(g) \/ Stop(g) \/ Die(g)
  PROVE  Alike(g)
<1>1. ASSUME NEW r, fixer' = [fixer EXCEPT ![g] = r],
             r = [pc |-> r.pc, todo |-> r.todo, action |-> r.action]
      PROVE  Alike(g)
  BY <1>1, MovedOn
<1>2. CASE Check(g) \/ Plan(g)
  <2>1. \E pc, todo : fixer' = [fixer EXCEPT ![g] = [pc |-> pc, todo |-> todo,
                                                    action |-> NoAction]]
    BY <1>2 DEF Check, Plan
  <2>2. PICK pc, todo, r : /\ fixer' = [fixer EXCEPT ![g] = r]
                           /\ r = [pc |-> pc, todo |-> todo, action |-> NoAction]
    BY <2>1
  <2>3. r = [pc |-> r.pc, todo |-> r.todo, action |-> r.action]
    BY <2>2
  <2> QED  BY <1>1, <2>2, <2>3
<1>3. CASE Validate(g)
  <2>1. PICK a : fixer' = [fixer EXCEPT ![g] = [pc |-> IF a.kind = "move" THEN "move" ELSE "stage",
                                                todo |-> @.todo \ {a}, action |-> a]]
    BY <1>3 DEF Validate
  <2>2. PICK r : r = [pc |-> IF a.kind = "move" THEN "move" ELSE "stage",
                      todo |-> fixer[g].todo \ {a}, action |-> a]
    OBVIOUS
  <2>3. fixer' = [fixer EXCEPT ![g] = r]
    BY <2>1, <2>2 DEF FixerShape
  <2>4. r = [pc |-> r.pc, todo |-> r.todo, action |-> r.action]
    BY <2>2
  <2> QED  BY <1>1, <2>3, <2>4
<1>4. CASE Unlink(g)
  <2>1. PICK r : r = [pc |-> "next", todo |-> fixer[g].todo, action |-> NoAction]
    OBVIOUS
  <2>2. fixer' = [fixer EXCEPT ![g] = r]
    BY <1>4, <2>1 DEF Unlink, FixerShape
  <2>3. r = [pc |-> r.pc, todo |-> r.todo, action |-> r.action]
    BY <2>1
  <2> QED  BY <1>1, <2>2, <2>3
<1>5. CASE Finish(g) \/ Stop(g) \/ Die(g)
  BY <1>5, MovedOn DEF Finish, Stop, Die
<1>6. CASE LinkMove(g) \/ Stage(g) \/ Seal(g) \/ Publish(g) \/ Unstage(g) \/ Recheck(g)
  BY <1>6, MovedOn DEF LinkMove, Stage, Seal, Publish, Unstage, Recheck
<1> QED  BY <1>2, <1>3, <1>4, <1>5, <1>6

(* What comes back on a path lands there, for the reset fills Incoming only. *)
LEMMA ComingsBackRecorded ==
  ASSUME Typed, [Next]_vars
  PROVE  ReturnsRecorded
<1>1. WellPlanned
  BY DEF Typed
<1>2. ASSUME NEW p, NEW c, Land(p, c)
      PROVE  /\ raced \subseteq raced' /\ files' = With(p, c)
             /\ ComesBack(p, c) => Version(c) \in raced'
  BY <1>2 DEF Land
<1>3. raced \subseteq raced'
  <2>1. UNCHANGED raced \/ \E p, c : Land(p, c)
    BY DEF Next, vars, Others, Check, Plan, Finish, Validate, LinkMove, Stage, Seal, Publish, Unstage,
           Recheck, Unlink, Stop, Die, Verify, Replace, ResetStops, Edit, Arrive
  <2> QED  BY <1>2, <2>1
<1> SUFFICES ASSUME NEW f \in Fixers, At(f, "staged"), At(f, "staged")', Unchanged(f)'
             PROVE  Unchanged(f) \/ Version(Cur(f).content) \in raced'
  BY <1>3 DEF ReturnsRecorded
<1>4. PICK a, s : a = Cur(f) /\ s = a.source
  OBVIOUS
<1>5. Planned(a) /\ s # Incoming
  <2>1. Planned(a) /\ a.kind # "move"
    BY <1>1, <1>4 DEF WellPlanned, Busy, At
  <2> QED  BY <1>4, <2>1, LibraryRepairAssumption
           DEF LibraryRepairAssumption, Planned, Found
<1>6. Cur(f)' = a
  <2>1. ASSUME NEW g \in Fixers,
               \/ Check(g) \/ Plan(g) \/ Finish(g) \/ Validate(g) \/ LinkMove(g) \/ Stage(g) \/ Seal(g)
               \/ Publish(g) \/ Unstage(g) \/ Recheck(g) \/ Unlink(g) \/ Stop(g) \/ Die(g)
        PROVE  Cur(f)' = a
    <3>1. Alike(g) /\ FixerShape
      BY <1>1, <2>1, OneMoves DEF WellPlanned
    <3>2. CASE g # f
      BY <1>4, <3>1, <3>2 DEF Alike, Cur
    <3>3. CASE g = f
      <4>1. Seal(f) \/ Stop(f) \/ Die(f)
        BY <2>1, <3>3 DEF At, Check, Plan, Finish, Validate, LinkMove, Stage, Publish, Unstage,
                          Recheck, Unlink
      <4>2. fixer'[f].pc \in {"sealed", "idle"}
        BY <3>1, <4>1, MovedOn DEF Seal, Stop, Die, IdleFixer
      <4> QED  BY <4>2 DEF At
    <3> QED  BY <3>2, <3>3
  <2>2. CASE Verify \/ Replace \/ ResetStops \/ Edit \/ Arrive \/ UNCHANGED vars
    BY <1>4, <2>2 DEF Verify, Replace, ResetStops, Edit, Arrive, vars, Cur
  <2> QED  BY <2>1, <2>2 DEF Next
<1>7. s \in DOMAIN files' /\ files'[s] = a.content
  BY <1>4, <1>6 DEF Unchanged
<1>8. CASE UNCHANGED files \/ \E p : files' = Without(p)
  BY <1>4, <1>7, <1>8 DEF Without, Unchanged
<1>9. ASSUME NEW p, NEW c, files' = With(p, c), ComesBack(p, c) => Version(c) \in raced'
      PROVE  Unchanged(f) \/ Version(Cur(f).content) \in raced'
  <2>1. CASE p = s /\ c = a.content
    BY <1>4, <1>9, <2>1 DEF ComesBack, Cur, At
  <2>2. CASE p = s /\ c # a.content
    BY <1>7, <1>9, <2>2 DEF With
  <2>3. CASE p # s
    BY <1>4, <1>7, <1>9, <2>3 DEF With, Unchanged
  <2> QED  BY <2>1, <2>2, <2>3
<1>10. ASSUME NEW p, NEW c, Land(p, c)
       PROVE  Unchanged(f) \/ Version(Cur(f).content) \in raced'
  BY <1>2, <1>9, <1>10
<1>11. CASE Replace
  <2>1. s \in DOMAIN files /\ files'[s] = files[s]
    BY <1>5, <1>7, <1>11 DEF Replace
  <2> QED  BY <1>4, <1>7, <2>1 DEF Unchanged
<1>12. CASE Edit \/ Arrive
  BY <1>10, <1>12 DEF Edit, Arrive
<1>13. ASSUME NEW g \in Fixers, LinkMove(g) \/ Stage(g) \/ Publish(g)
       PROVE  Unchanged(f) \/ Version(Cur(f).content) \in raced'
  BY <1>10, <1>13 DEF LinkMove, Stage, Publish
<1>14. ASSUME NEW g \in Fixers,
              \/ Check(g) \/ Plan(g) \/ Finish(g) \/ Validate(g) \/ Seal(g) \/ Unstage(g) \/ Recheck(g)
              \/ Unlink(g) \/ Stop(g) \/ Die(g)
       PROVE  Unchanged(f) \/ Version(Cur(f).content) \in raced'
  <2>1. UNCHANGED files \/ \E p : files' = Without(p)
    BY <1>14 DEF Check, Plan, Finish, Validate, Seal, Unstage, Recheck, Unlink, Stop, Die
  <2> QED  BY <1>8, <2>1
<1>15. CASE Verify \/ ResetStops \/ UNCHANGED vars
  BY <1>8, <1>15 DEF Verify, ResetStops, vars
<1> QED  BY <1>11, <1>12, <1>13, <1>14, <1>15 DEF Next

(* However many repairs, resets, edits and arrivals interleave, and        *)
(* wherever they stop or die: no version of a user's file is lost that     *)
(* nobody has replaced, that did not come to a path in the window between  *)
(* somebody's last look at it and the call on it, and that did not come    *)
(* back to its path between a repair's reading of it and its check.        *)
THEOREM NothingIsLost == Spec => []NothingLost
<1>1. Init => IInv
  BY KeptInit
<1>2. IInv /\ [Next]_vars => IInv'
  BY ComingsBackRecorded, KeptNext DEF IInv, Typed
<1>3. IInv => NothingLost
  BY KeptIsKept
<1> QED  BY <1>1, <1>2, <1>3, PTL DEF Spec

----------------------------------------------------------------------------
(* A repaired file needs no repair *)

(* A name of one part, and of two. *)
LEMMA OnePart ==
  ASSUME NEW x
  PROVE  Len(<<x>>) = 1 /\ DOMAIN <<x>> = {1} /\ <<x>>[1] = x /\ <<x>> # <<>>
OBVIOUS

LEMMA HoldsOne ==
  ASSUME NEW x, NEW S
  PROVE  Holds(<<x>>, S) <=> x \in S
BY OnePart, Zenon DEF Holds

LEMMA HoldsNone ==
  ASSUME NEW S
  PROVE  ~Holds(<<>>, S)
<1>1. \A i : i \notin DOMAIN <<>>
  OBVIOUS
<1> QED  BY <1>1, Zenon DEF Holds

LEMMA TwoParts ==
  ASSUME NEW x, NEW y
  PROVE  <<x>> \o <<y>> \o <<>> = <<x, y>>
<1> DEFINE S == {x, y}
           t == <<x>> \o <<y>>
<1>1. <<x>> \in Seq(S) /\ <<y>> \in Seq(S) /\ <<>> \in Seq(S) /\ <<x, y>> \in Seq(S)
  OBVIOUS
<1>2. t \in Seq(S) /\ Len(t) = 2 /\ t[1] = x /\ t[2] = y
  BY <1>1
<1> HIDE DEF t
<1>3. t \o <<>> = t
  BY <1>1, <1>2
<1>4. t = <<x, y>>
  BY <1>1, <1>2
<1> QED  BY <1>3, <1>4 DEF t

LEMMA NotEmpty ==
  ASSUME NEW s, Len(s) = 1
  PROVE  s # <<>>
OBVIOUS

(* What a repair keeps and what it changes. *)
Kept(c, r, kind) ==
  /\ r.series = c.series /\ r.title = c.title /\ r.format = c.format
  /\ r.comicinfo = c.comicinfo /\ r.creators = c.creators
  /\ Rendered(r) = Rendered(c) /\ c \in File
  /\ kind = "move" => r = c /\ c.container # "cbr"
  /\ kind # "move" => r.container = "cbz" /\ r.library = "Comics"
  /\ UsesNumber(c) => InfersVolume(c)
  /\ InfersVolume(c) => r.number = "" /\ r.volume = c.number
  /\ ~InfersVolume(c) => r.number = c.number /\ r.volume = c.volume

(* What a repair makes keeps everything the place of a file follows from.  *)
LEMMA RepairKeeps ==
  ASSUME NEW a, Planned(a), a.checked = a.content
  PROVE  Kept(a.content, Repaired(a), a.kind)
<1>0. PICK c, r : c = a.content /\ r = Repaired(a)
  OBVIOUS
<1> SUFFICES Kept(c, r, a.kind)
  BY <1>0
<1>1. /\ c \in File /\ a.kind = KindFor(c, c)
      /\ a.migrates = UsesNumber(c) /\ (a.migrates => InfersVolume(c))
      /\ a.content = c
  BY <1>0 DEF Planned
<1>4. InfersVolume(c) <=> a.migrates
  BY <1>1 DEF InfersVolume
<1>2. CASE a.kind = "move"
  <2>1. c.container # "cbr" /\ ~UsesNumber(c)
    BY <1>1, <1>2 DEF KindFor
  <2> QED  BY <1>0, <1>1, <1>2, <2>1 DEF Repaired, InfersVolume, Kept
<1>3. CASE a.kind # "move"
  <2>1. r = [Migrated(a, c) EXCEPT !.container = "cbz", !.library = "Comics"]
    BY <1>0, <1>3 DEF Repaired, Rewritten
  <2> DEFINE m == Migrated(a, c)
  <2>2. /\ m.series = c.series /\ m.title = c.title /\ m.format = c.format
        /\ m.comicinfo = c.comicinfo /\ m.creators = c.creators
        /\ m \in [container : Containers, library : Roots, comicinfo : BOOLEAN,
                 creators : BOOLEAN, series : STRING, title : STRING, format : STRING,
                 number : STRING, volume : STRING, id : Nat, rev : Nat]
        /\ InfersVolume(c) => m.number = "" /\ m.volume = c.number
        /\ ~InfersVolume(c) => m.number = c.number /\ m.volume = c.volume
    <3>1. CASE InfersVolume(c)
      <4>1. m = [c EXCEPT !.volume = c.number, !.number = ""]
        BY <1>1, <1>4, <3>1 DEF Migrated
      <4> HIDE DEF m
      <4>2. m \in [container : Containers, library : Roots, comicinfo : BOOLEAN,
                  creators : BOOLEAN, series : STRING, title : STRING, format : STRING,
                  number : STRING, volume : STRING, id : Nat, rev : Nat]
        <5>1. "" \in STRING /\ c.number \in STRING
          <6>1. c.volume \in STRING /\ c.number \in STRING
            BY <1>1 DEF File
          <6>2. c.volume = ""
            BY <3>1, Zenon DEF InfersVolume, UsesNumber
          <6> QED  BY <6>1, <6>2, Zenon
        <5>2. ASSUME NEW v \in STRING, NEW n \in STRING, NEW e, e = [c EXCEPT !.volume = v, !.number = n]
              PROVE  e \in [container : Containers, library : Roots, comicinfo : BOOLEAN,
                            creators : BOOLEAN, series : STRING, title : STRING, format : STRING,
                            number : STRING, volume : STRING, id : Nat, rev : Nat]
          BY <1>1, <5>2 DEF File
        <5> QED  BY <4>1, <5>1, <5>2, Zenon
      <4>3. /\ m.series = c.series /\ m.title = c.title /\ m.format = c.format
            /\ m.comicinfo = c.comicinfo /\ m.creators = c.creators
            /\ m.number = "" /\ m.volume = c.number
        BY <1>1, <4>1 DEF File
      <4> QED  BY <3>1, <4>2, <4>3
    <3>2. CASE ~InfersVolume(c)
      <4>1. m = c
        BY <1>4, <3>2 DEF Migrated
      <4> QED  BY <1>1, <3>2, <4>1 DEF File
    <3> QED  BY <3>1, <3>2
  <2> HIDE DEF m
  <2>3. /\ r.series = m.series /\ r.title = m.title /\ r.format = m.format
        /\ r.comicinfo = m.comicinfo /\ r.creators = m.creators
        /\ r.number = m.number /\ r.volume = m.volume
        /\ r.container = "cbz" /\ r.library = "Comics"
    BY <2>1, <2>2 DEF m
  <2>4. Rendered(r) = Rendered(c)
    BY <2>2, <2>3 DEF Rendered, InfersVolume, UsesNumber, Digits
  <2> QED  BY <1>1, <1>3, <1>4, <2>2, <2>3, <2>4 DEF Kept
<1> QED  BY <1>2, <1>3

LEMMA BookPlace ==
  ASSUME NEW p, NEW c, NEW d, d = CanonicalBook(p, c)
  PROVE  /\ d.library = p.library /\ d.ext = p.ext /\ Len(d.folder) = 1
         /\ BookSeries(p, c) = <<>> => d.folder[1] = BookTitle(p, c) /\ d.name = BookTitle(p, c)
<1> DEFINE n == IF BookSeries(p, c) # <<>>
                THEN BookSeries(p, c) \o BookNumber(p, c) \o BookTitle(p, c) ELSE BookTitle(p, c)
           x == IF BookSeries(p, c) # <<>> THEN BookSeries(p, c) ELSE BookTitle(p, c)
<1>1. d = [library |-> p.library, folder |-> <<x>>, name |-> n, ext |-> p.ext]
  BY DEF CanonicalBook
<1>2. BookSeries(p, c) = <<>> => x = BookTitle(p, c) /\ n = BookTitle(p, c)
  OBVIOUS
<1> HIDE DEF n, x
<1> QED  BY <1>1, <1>2

(* The canonical place of a book that is named by what it carries follows  *)
(* from that alone.                                                        *)
LEMMA BookByContent ==
  ASSUME NEW p, NEW c \in File, c.title # "", ~LooksLikeComic(p, c),
         c.container = "pdf" => c.title \notin IssueParts
  PROVE  CanonicalBook(CanonicalBook(p, c), c) = CanonicalBook(p, c)
<1> DEFINE d == CanonicalBook(p, c)
<1>1. /\ BookSeries(p, c) = Part(c.series) /\ BookTitle(p, c) = <<c.title>>
      /\ BookNumber(p, c) = IF c.number # "" THEN <<Issue(c.number)>> ELSE <<>>
  BY DEF BookSeries, BookTitle, BookNumber
<1>2. d.library = p.library /\ d.ext = p.ext
  BY BookPlace
<1>3. ~LooksLikeComic(d, c)
  <2>1. CASE c.container # "pdf"
    BY <2>1 DEF LooksLikeComic
  <2>2. CASE c.container = "pdf"
    <3>1. BookSeries(p, c) = <<>>
      BY <1>1, <2>2 DEF File, Part
    <3>2. d.name = <<c.title>> /\ Len(d.folder) = 1 /\ d.folder[1] = <<c.title>>
      BY <1>1, <3>1, BookPlace
    <3> HIDE DEF d
    <3>3. d.folder # <<>> /\ Parent(d) = <<c.title>>
      <4>1. d.folder # <<>>
        BY <3>2, NotEmpty
      <4> QED  BY <3>2, <4>1 DEF Parent, Last
    <3>4. ~Holds(<<c.title>>, IssueParts)
      BY <2>2, HoldsOne
    <3> QED  BY <3>2, <3>3, <3>4 DEF LooksLikeComic
  <2> QED  BY <2>1, <2>2
<1>4. /\ BookSeries(d, c) = BookSeries(p, c) /\ BookTitle(d, c) = BookTitle(p, c)
      /\ BookNumber(d, c) = BookNumber(p, c)
  BY <1>1, <1>3 DEF BookSeries, BookTitle, BookNumber
<1>5. CanonicalBook(d, c) = d
  <2>1. ASSUME NEW q, q.library = p.library, q.ext = p.ext,
               BookSeries(q, c) = BookSeries(p, c), BookTitle(q, c) = BookTitle(p, c),
               BookNumber(q, c) = BookNumber(p, c)
        PROVE  CanonicalBook(q, c) = CanonicalBook(p, c)
    BY <2>1 DEF CanonicalBook
  <2> QED  BY <1>2, <1>4, <2>1
<1> QED  BY <1>5

LEMMA BookSettles ==
  ASSUME NEW a, Planned(a), a.source.library = "Books", a.checked = a.content,
         NamesByContent(a)
  PROVE  LocalCodes(a.destination, Repaired(a)) = {}
<1>0. PICK p, c, d, r : p = a.source /\ c = a.content /\ d = a.destination /\ r = Repaired(a)
  OBVIOUS
<1>1. /\ LocalCodes(p, c) \subseteq SafeCodes /\ d = Canonical(p, c) /\ p.library = "Books"
      /\ a.kind = KindFor(c, c) /\ c \in File
  BY <1>0 DEF Planned, Found, Mendable
<1>2. /\ c.container # "unreadable" /\ p.ext = c.container /\ c.creators /\ c.title # ""
      /\ c.container # "pdf" => c.library = "Books"
  BY <1>1 DEF LocalCodes, BookCodes, If, SafeCodes, SafePathCodes
<1>3. c.container \in {"epub", "pdf"} /\ ~UsesNumber(c)
  <2>1. c.container \in {"epub", "pdf"}
    BY <1>1, <1>2 DEF File, Containers
  <2> QED  BY <1>1, <2>1 DEF File, UsesNumber, CollectionFormats
<1>4. r = c
  BY <1>0, <1>1, <1>3 DEF KindFor, Repaired
<1>5. d = CanonicalBook(p, c)
  BY <1>1 DEF Canonical
<1>6. d.library = "Books" /\ d.ext = p.ext
  BY <1>1, <1>5, BookPlace
<1>7. /\ ~LooksLikeComic(p, c)
      /\ c.container = "pdf" => c.title \notin IssueParts
  BY <1>0, <1>1 DEF NamesByContent, LooksLikeComic
<1>8. CanonicalBook(d, c) = d
  BY <1>1, <1>2, <1>5, <1>7, BookByContent
<1>9. d.folder # <<>>
  BY <1>5, BookPlace
<1>10. BookCodes(d, c) = {}
  BY <1>2, <1>8 DEF BookCodes, If
<1>11. LocalCodes(d, c) = {}
  BY <1>2, <1>6, <1>9, <1>10 DEF LocalCodes, If
<1> QED  BY <1>0, <1>4, <1>11

(* Of the comics only archives are repaired. *)
LEMMA ArchivesOnly ==
  ASSUME NEW a, Found(a), a.source.library = "Comics"
  PROVE  a.checked.container \in {"cbz", "cbr"} /\ a.checked.library = "Comics"
<1>0. PICK p, c : p = a.source /\ c = a.checked
  OBVIOUS
<1>1. /\ LocalCodes(p, c) \subseteq SafeCodes /\ p.library = "Comics" /\ c \in File
      /\ LocalCodes(p, c) \cap {"noncanonical_book_path", "noncanonical_comic_path"} # {}
  BY <1>0 DEF Found, Mendable
<1>2. c.container # "unreadable" /\ c.container # "pdf" => c.library = "Comics"
  BY <1>1 DEF LocalCodes, If, SafeCodes, SafePathCodes
<1>3. c.container # "unreadable"
  BY <1>1 DEF LocalCodes, If, SafeCodes, SafePathCodes
<1>4. c.container # "pdf"
  <2>1. ASSUME c.container = "pdf"
        PROVE  /\ "noncanonical_book_path" \notin LocalCodes(p, c)
               /\ "noncanonical_comic_path" \notin LocalCodes(p, c)
    BY <1>1, <2>1 DEF LocalCodes, ComicPdfCodes, If
  <2> QED  BY <1>1, <2>1
<1> QED  BY <1>0, <1>1, <1>2, <1>3, <1>4 DEF File, Containers

LEMMA RenderedIs ==
  ASSUME NEW c
  PROVE  Rendered(c) = <<>> \/ \E n : Rendered(c) = <<n>>
BY Zenon DEF Rendered

(* The name of an issue without a title is read as one.                    *)
LEMMA IssuesAreUntitled ==
  ASSUME NEW s, NEW n \in IssueParts, NEW name, name = <<s>> \o <<n>> \o <<>>, NEW numbered
  PROVE  ComicReading(name, numbered).title = <<>>
<1>1. <<s>> \o <<n>> \o <<>> = <<s, n>>
  BY TwoParts
<1>2. Len(name) = 2 /\ name[2] = n
  BY <1>1
<1>3. EndsIn(name, IssueParts)
  BY <1>2 DEF EndsIn, Last
<1> HIDE DEF EndsIn
<1> QED  BY <1>3 DEF ComicReading

LEMMA ComicSettles ==
  ASSUME NEW a, Planned(a), a.source.library = "Comics", a.checked = a.content,
         NamesByContent(a)
  PROVE  LocalCodes(a.destination, Repaired(a)) = {}
<1>0. PICK p, c, d, r : p = a.source /\ c = a.content /\ d = a.destination /\ r = Repaired(a)
  OBVIOUS
<1>20. d = Canonical(p, c) /\ p.library = "Comics" /\ d = CanonicalComic(p, c)
  BY <1>0 DEF Planned, Found, Canonical
<1>1. /\ LocalCodes(p, c) \subseteq SafeCodes /\ d = CanonicalComic(p, c)
      /\ p.library = "Comics" /\ a.kind = KindFor(c, c) /\ c \in File
      /\ LocalCodes(p, c) \cap {"noncanonical_book_path", "noncanonical_comic_path"} # {}
  BY <1>0, <1>20 DEF Planned, Found, Mendable
<1>2. Kept(c, r, a.kind)
  BY <1>0, RepairKeeps
<1>4. c.container \in {"cbz", "cbr"} /\ c.library = "Comics"
  BY <1>0, <1>1, ArchivesOnly DEF Planned
<1>5. ArchiveCodes(p, c) \subseteq LocalCodes(p, c)
  BY <1>1, <1>4 DEF LocalCodes
<1>6. /\ c.comicinfo /\ TitleOf(p, c) \notin {<<label>> : label \in EditionLabels}
      /\ c.volume # "" => c.format # ""
      /\ SeriesOf(p, c) # <<>>
  BY <1>1, <1>5 DEF ArchiveCodes, If, SafeCodes, SafePathCodes
<1>7. /\ c.format \in SpecialFormats \cup {""}
      /\ SequenceCodes(c) \subseteq LocalCodes(p, c)
  BY <1>1, <1>5, <1>6 DEF ArchiveCodes, If, SafeCodes, SafePathCodes
<1>8. /\ UsesNumber(c) => InfersVolume(c)
      /\ c.volume \in Digits \cup {""}
      /\ c.volume = "" \/ c.number = ""
      /\ c.volume # "" \/ c.number # "" \/ c.format \in SpecialFormats
  BY <1>1, <1>2, <1>7 DEF Kept, SequenceCodes, If, SafeCodes, SafePathCodes
<1>9. SequenceCodes(r) = {}
  <2>1. CASE InfersVolume(c)
    BY <1>2, <2>1 DEF Kept, SequenceCodes, If, InfersVolume, UsesNumber, Digits
  <2>2. CASE ~InfersVolume(c)
    BY <1>2, <1>8, <2>2 DEF Kept, SequenceCodes, If, UsesNumber, InfersVolume
  <2> QED  BY <2>1, <2>2
<1>10. r.container = "cbz" /\ r.library = "Comics"
  BY <1>2, <1>4 DEF Kept
<1>11. d.library = "Comics" /\ d.ext = "cbz" /\ d.folder = ComicFolder(p, c)
  BY <1>1 DEF CanonicalComic
<1>12. SeriesOf(d, r) = SeriesOf(p, c) /\ TitleOf(d, r) = TitleOf(p, c)
  <2>1. /\ r.series = c.series /\ r.title = c.title /\ c.series # ""
        /\ c.title # "" \/ (TitleOf(p, c) = <<>> /\ Holds(Rendered(c), IssueParts))
    BY <1>0, <1>1, <1>2 DEF Kept, NamesByContent
  <2>2. SeriesOf(d, r) = <<c.series>> /\ SeriesOf(p, c) = <<c.series>>
    BY <2>1 DEF SeriesOf
  <2>3. CASE c.title # ""
    BY <2>1, <2>2, <2>3 DEF TitleOf
  <2>4. CASE c.title = ""
    <3>1. d.name = SeriesOf(p, c) \o Rendered(c) \o TitleOf(p, c)
      BY <1>1 DEF CanonicalComic
    <3>2. PICK n \in IssueParts : Rendered(c) = <<n>>
      <4>2. Rendered(c) # <<>>
        BY <2>1, <2>4, HoldsNone, Zenon
      <4>1. PICK n : Rendered(c) = <<n>>
        BY <4>2, RenderedIs, Zenon
      <4> QED  BY <2>1, <2>4, <4>1, HoldsOne
    <3>3. d.name = <<c.series>> \o <<n>> \o <<>>
      BY <2>1, <2>2, <2>4, <3>1, <3>2
    <3>4. Reading(d, r).title = <<>>
      BY <2>1, <2>4, <3>3, IssuesAreUntitled DEF Reading
    <3> QED  BY <2>1, <2>2, <2>4, <3>4 DEF TitleOf
  <2> QED  BY <2>3, <2>4
<1>13. CanonicalComic(d, r) = d
  <2>1. ComicFolder(d, r) = ComicFolder(p, c)
    BY <1>2, <1>12 DEF Kept, ComicFolder
  <2> QED  BY <1>1, <1>2, <1>11, <1>12, <2>1 DEF Kept, CanonicalComic
<1>14. d.folder # <<>>
  <2>1. Canonical(p, c).folder # <<>>
    <3>1. PICK x : Canonical(p, c).folder \in Seq({x, Specials}) /\ Len(Canonical(p, c).folder) > 0
      BY Folders
    <3> QED  BY <3>1
  <2> QED  BY <1>1, <2>1 DEF Canonical
<1>15. PlaceCodes(d, r) = {}
  BY <1>13, <1>14 DEF PlaceCodes, TopFolder, If
<1>16. r.volume # "" => r.format # ""
  BY <1>2, <1>6 DEF Kept, InfersVolume, UsesNumber, CollectionFormats
<1>17. ArchiveCodes(d, r) = {}
  BY <1>2, <1>6, <1>7, <1>9, <1>10, <1>12, <1>15, <1>16 DEF Kept, ArchiveCodes, If
<1>18. LocalCodes(d, r) = {}
  BY <1>10, <1>11, <1>14, <1>17 DEF LocalCodes, If
<1> QED  BY <1>0, <1>18

(* What a repair leaves at the canonical place of the file it repaired     *)
(* needs no repair: library-fix does not find the same work again.         *)
THEOREM RepairsSettle == Spec => RepairSettles
<1>1. Init => Typed
  BY TypedInit
<1>2. Typed /\ [Next]_vars => Typed'
  BY TypedNext
<1>3. ASSUME Typed, NEW f \in Fixers, At(f, "unlink"),
             files[Cur(f).destination] = Repaired(Cur(f)),
             Cur(f).checked = Cur(f).content, NamesByContent(Cur(f))
      PROVE  LocalCodes(Cur(f).destination, files[Cur(f).destination]) = {}
  <2>1. Planned(Cur(f))
    BY <1>3 DEF Typed, WellPlanned, Busy, At
  <2>2. LocalCodes(Cur(f).destination, Repaired(Cur(f))) = {}
    BY <1>3, <2>1, BookSettles, ComicSettles DEF Planned, Found, Roots
  <2> QED  BY <1>3, <2>2
<1>4. Typed => \A f \in Fixers :
                 LET a == Cur(f)
                 IN At(f, "unlink") /\ At(f, "next")' /\ a.checked = a.content
                    /\ NamesByContent(a)
                    /\ a.destination \in DOMAIN files /\ files[a.destination] = Repaired(a)
                    => LocalCodes(a.destination, files[a.destination]) = {}
  BY <1>3
<1> QED  BY <1>1, <1>2, <1>4, PTL DEF Kept, Spec, RepairSettles

----------------------------------------------------------------------------
(* What a repair leaves behind is found *)

(* A file no repair would rewrite, and what a repair writes of another.    *)
Sound(c) == c.container # "cbr" /\ ~UsesNumber(c)
Mend(c) ==
  [(IF UsesNumber(c) THEN [c EXCEPT !.volume = c.number, !.number = ""] ELSE c)
     EXCEPT !.container = "cbz", !.library = "Comics"]

(* The path a staged copy is published at. *)
IsStaged(p) == Len(p.folder) > 1 /\ p.folder[Len(p.folder)] \in {<<f>> : f \in Fixers}
Home(p) ==
  IF IsStaged(p) THEN [library |-> p.library, folder |-> Front(p.folder), name |-> p.name,
                       ext |-> p.ext]
  ELSE p

(* Repairs of a file with the content c take it from p to q in the end. *)
Reaches(p, q, c) ==
  \A S : p \in S /\ (\A x \in S : Canonical(x, c) \in S) => q \in S

(* How two copies of one version are related: one was repaired to be the   *)
(* other, or both are what some repairs made of one file.                  *)
Mended(p, c, q, d) ==
  /\ d = Mend(c) /\ p.library = "Comics" /\ q.library = "Comics"
  /\ Reaches(Canonical(p, c), Home(q), d)
Moved(p, q, c) ==
  /\ p.library = q.library
  /\ p.library = "Comics" => c.container = "cbz"
  /\ Reaches(Home(p), Home(q), c) \/ Reaches(Home(q), Home(p), c)
Related(p, c, q, d) ==
  /\ Sound(c) \/ Sound(d)
  /\ ~Sound(c) => Mended(p, c, q, d)
  /\ ~Sound(d) => Mended(q, d, p, c)
  /\ Sound(c) /\ Sound(d) => c = d /\ Moved(p, q, c)

(* The files of the libraries the property is about. *)
Named(c) == c.library = "Comics" /\ c.container # "pdf" => c.series # ""
Seen(p, c) == p.library \in Roots /\ Named(c) /\ Version(c) \notin mistaken

WellStaged(p, c) == IsStaged(p) => p.library = "Comics" /\ Sound(c) /\ c.container = "cbz"

Traced ==
  /\ \A p \in DOMAIN files : Seen(p, files[p]) => WellStaged(p, files[p])
  /\ \A p, q \in DOMAIN files :
       p # q /\ Seen(p, files[p]) /\ Seen(q, files[q]) /\ Version(files[p]) = Version(files[q])
       => Related(p, files[p], q, files[q])

LEMMA ReachesSelf ==
  ASSUME NEW p, NEW c
  PROVE  Reaches(p, p, c)
BY DEF Reaches

LEMMA ReachesOn ==
  ASSUME NEW p, NEW q, NEW c, Reaches(p, q, c)
  PROVE  Reaches(p, Canonical(q, c), c)
BY DEF Reaches

LEMMA ReachesFrom ==
  ASSUME NEW p, NEW q, NEW c, Reaches(p, q, c), q # p
  PROVE  Reaches(Canonical(p, c), q, c)
<1> SUFFICES ASSUME NEW S, Canonical(p, c) \in S, \A x \in S : Canonical(x, c) \in S
             PROVE  q \in S
  BY DEF Reaches
<1>1. q \in S \cup {p}
  BY DEF Reaches
<1> QED  BY <1>1

LEMMA ReachesNoFurther ==
  ASSUME NEW p, NEW q, NEW c, Reaches(p, q, c), Canonical(p, c) = p
  PROVE  q = p
<1>1. q \in {p}
  BY DEF Reaches
<1> QED  BY <1>1

LEMMA RelatedBoth ==
  ASSUME NEW p, NEW c, NEW q, NEW d, Related(p, c, q, d)
  PROVE  Related(q, d, p, c)
BY DEF Related, Moved

(* The canonical place of a file is a path in its library where nothing is *)
(* staged.                                                                 *)
LEMMA PlacesAre ==
  ASSUME NEW p, NEW c, p.library \in Roots
  PROVE  LET d == Canonical(p, c)
         IN /\ d.library = p.library /\ ~IsStaged(d) /\ Home(d) = d
            /\ d = [library |-> d.library, folder |-> d.folder, name |-> d.name, ext |-> d.ext]
            /\ \E S : d.folder \in Seq(S)
<1> DEFINE d == Canonical(p, c)
<1>1. /\ d.library = p.library
      /\ d = [library |-> d.library, folder |-> d.folder, name |-> d.name, ext |-> d.ext]
  <2>1. CASE p.library = "Books"
    <3> DEFINE n == CanonicalBook(p, c).name
               F == CanonicalBook(p, c).folder
    <3>1. d = [library |-> p.library, folder |-> F, name |-> n, ext |-> p.ext]
      <4>1. d = CanonicalBook(p, c)
        BY <2>1 DEF Canonical
      <4> QED  BY <4>1 DEF CanonicalBook
    <3> HIDE DEF n, F
    <3> QED  BY <3>1
  <2>2. CASE p.library # "Books"
    <3>1. d = CanonicalComic(p, c)
      BY <2>2 DEF Canonical
    <3> HIDE DEF d
    <3> QED  BY <3>1 DEF CanonicalComic
  <2> QED  BY <2>1, <2>2
<1>2. PICK x : /\ d.folder \in Seq({x, Specials})
               /\ Len(d.folder) = 1 \/ d.folder[Len(d.folder)] = Specials
  BY Folders
<1> HIDE DEF d
<1>3. ~IsStaged(d)
  BY <1>2, LibraryRepairAssumption DEF LibraryRepairAssumption, IsStaged, Specials
<1>4. Home(d) = d
  BY <1>3 DEF Home
<1> QED  BY <1>1, <1>2, <1>3, <1>4 DEF d

(* A staged copy is at home where it is to be published.                   *)
LEMMA StagedHome ==
  ASSUME NEW a, Planned(a), NEW f \in Fixers
  PROVE  /\ IsStaged(Staging(f, a)) /\ Home(Staging(f, a)) = a.destination
         /\ Staging(f, a).library = a.source.library
<1> DEFINE d == a.destination
<1>1. PICK S : d.folder \in Seq(S)
  BY PlacesAre DEF Planned, Found
<1>2. d = [library |-> d.library, folder |-> d.folder, name |-> d.name, ext |-> d.ext]
  BY PlacesAre DEF Planned, Found
<1> DEFINE F == Append(d.folder, <<f>>)
           s == Staging(f, a)
<1>3. s = [library |-> d.library, folder |-> F, name |-> d.name, ext |-> d.ext]
  <2>1. s = [d EXCEPT !.folder = Append(d.folder, <<f>>)]
    BY DEF Staging
  <2> HIDE DEF d, s
  <2> QED  BY <1>2, <2>1
<1>4. s.library = a.source.library /\ s.folder[Len(s.folder)] = <<f>> /\ Len(s.folder) > 1
  BY Places
<1>5. IsStaged(s)
  BY <1>4 DEF IsStaged
<1>6. Front(F) = d.folder
  <2> HIDE DEF d
  <2>1. /\ F \in Seq(S \cup {<<f>>}) /\ Len(F) = Len(d.folder) + 1 /\ Len(d.folder) \in Nat
        /\ \A i \in 1..Len(d.folder) : F[i] = d.folder[i]
    BY <1>1
  <2> HIDE DEF F
  <2>2. SubSeq(F, 1, Len(F) - 1) = d.folder
    BY <1>1, <2>1
  <2> QED  BY <2>2 DEF Front
<1> HIDE DEF d, F, s
<1>7. Home(s) = [library |-> d.library, folder |-> d.folder, name |-> d.name, ext |-> d.ext]
  BY <1>3, <1>5, <1>6 DEF Home
<1> QED  BY <1>2, <1>4, <1>5, <1>7 DEF d, s

(* The place of a comic with a series follows from its name alone, so it   *)
(* is the same for a staged copy.                                          *)
LEMMA HomePlace ==
  ASSUME NEW p, NEW c, p.library \in Roots, IsStaged(p) => p.library = "Comics" /\ c.series # ""
  PROVE  Canonical(Home(p), c) = Canonical(p, c)
<1>1. CASE ~IsStaged(p)
  BY <1>1 DEF Home
<1>2. CASE IsStaged(p)
  <2>1. PICK h : h = Home(p)
    OBVIOUS
  <2>2. h.library = p.library /\ h.name = p.name /\ p.library = "Comics"
    BY <1>2, <2>1 DEF Home
  <2>3. SeriesOf(h, c) = SeriesOf(p, c) /\ TitleOf(h, c) = TitleOf(p, c)
    BY <1>2, <2>2 DEF SeriesOf, TitleOf, Reading
  <2>4. ComicFolder(h, c) = ComicFolder(p, c)
    BY <2>3 DEF ComicFolder
  <2>5. CanonicalComic(h, c) = CanonicalComic(p, c)
    BY <2>2, <2>3, <2>4 DEF CanonicalComic
  <2> QED  BY <2>1, <2>2, <2>5 DEF Canonical
<1> QED  BY <1>1, <1>2

(* What is moved as it was checked needs no rewriting, and what is         *)
(* rewritten does, and is a comic.                                         *)
LEMMA RepairsAsChecked ==
  ASSUME NEW a, Planned(a), a.checked = a.content
  PROVE  /\ a.kind = "move" => /\ Sound(a.content)
                               /\ a.source.library = "Comics" => a.content.container = "cbz"
         /\ a.kind # "move" => /\ ~Sound(a.content) /\ a.source.library = "Comics"
                               /\ Rewritten(a, a.content) = Mend(a.content)
                               /\ Sound(Mend(a.content)) /\ Mend(a.content).container = "cbz"
                               /\ Named(Mend(a.content)) => a.content.series # ""
                               /\ Mend(a.content).series = a.content.series
<1>0. PICK p, c : p = a.source /\ c = a.content
  OBVIOUS
<1>1. /\ LocalCodes(p, c) \subseteq SafeCodes /\ p.library \in Roots /\ c \in File
      /\ a.kind = KindFor(c, c) /\ a.migrates = UsesNumber(c) /\ Found(a) /\ a.checked = c
  BY <1>0 DEF Planned, Found, Mendable
<1>2. a.kind = "move" <=> Sound(c)
  BY <1>1 DEF KindFor, Sound
<1>3. p.library = "Comics" => c.container \in {"cbz", "cbr"}
  BY <1>0, <1>1, ArchivesOnly
<1>4. p.library = "Books" => Sound(c)
  <2> SUFFICES ASSUME p.library = "Books" PROVE Sound(c)
    OBVIOUS
  <2>1. c.container # "unreadable" /\ (c.container # "pdf" => c.library = "Books")
    BY <1>1 DEF LocalCodes, If, SafeCodes, SafePathCodes
  <2>2. c.container \in {"epub", "pdf"}
    BY <1>1, <2>1 DEF File, Containers
  <2> QED  BY <1>1, <2>2 DEF File, UsesNumber, CollectionFormats, Sound
<1>5. ASSUME a.kind # "move"
      PROVE  /\ Rewritten(a, c) = Mend(c) /\ Sound(Mend(c)) /\ Mend(c).container = "cbz"
             /\ Mend(c).library = "Comics" /\ Mend(c).series = c.series
  <2>1. Rewritten(a, c) = Mend(c)
    BY <1>0, <1>1 DEF Rewritten, Migrated, Mend
  <2>2. PICK r : r = Mend(c)
    OBVIOUS
  <2>3. Repaired(a) = r
    BY <1>0, <1>5, <2>1, <2>2 DEF Repaired
  <2>4. Kept(c, r, a.kind)
    BY <1>0, <2>3, RepairKeeps
  <2>5. ~UsesNumber(r)
    <3>1. CASE InfersVolume(c)
      <4>1. r.number = ""
        BY <2>4, <3>1 DEF Kept
      <4> QED  BY <4>1, Zenon DEF UsesNumber
    <3>2. CASE ~InfersVolume(c)
      <4>1. ~UsesNumber(c) /\ r.number = c.number /\ r.volume = c.volume /\ r.format = c.format
        BY <2>4, <3>2 DEF Kept
      <4> QED  BY <4>1 DEF UsesNumber
    <3> QED  BY <3>1, <3>2
  <2> QED  BY <1>5, <2>1, <2>2, <2>4, <2>5 DEF Kept, Sound
<1>6. ASSUME a.kind # "move", Named(Mend(c)) PROVE c.series # ""
  BY <1>5, <1>6 DEF Named
<1>7. a.kind # "move" => p.library = "Comics"
  BY <1>1, <1>2, <1>4 DEF Roots
<1>8. a.kind = "move" /\ p.library = "Comics" => c.container = "cbz"
  BY <1>2, <1>3 DEF Sound
<1> QED  BY <1>0, <1>2, <1>5, <1>6, <1>7, <1>8, Zenon

(* What has been seen stays so, or is mistaken for another. *)
LEMMA SeenBefore ==
  ASSUME mistaken \subseteq mistaken', NEW p, NEW c, Seen(p, c)'
  PROVE  Seen(p, c)
BY DEF Seen

(* Nothing comes. *)
LEMMA TracedRemoving ==
  ASSUME Traced, mistaken \subseteq mistaken',
         \A p \in DOMAIN files' :
           p.library \in Roots => p \in DOMAIN files /\ files'[p] = files[p]
  PROVE  Traced'
<1>1. \A p \in DOMAIN files' : Seen(p, files[p])' =>
         p \in DOMAIN files /\ files'[p] = files[p] /\ Seen(p, files[p])
  BY SeenBefore DEF Seen
<1>2. \A p \in DOMAIN files' : Seen(p, files[p])' => WellStaged(p, files[p])'
  BY <1>1 DEF Traced, WellStaged
<1>3. \A p, q \in DOMAIN files' :
        p # q /\ Seen(p, files[p])' /\ Seen(q, files[q])' /\ Version(files'[p]) = Version(files'[q])
        => Related(p, files'[p], q, files'[q])
  BY <1>1 DEF Traced
<1> QED  BY <1>2, <1>3 DEF Traced

(* One file comes, or takes the place of another. *)
LEMMA TracedComing ==
  ASSUME Traced, mistaken \subseteq mistaken', NEW p, NEW c, files' = With(p, c),
         Seen(p, c)' =>
           /\ WellStaged(p, c)
           /\ \A q \in DOMAIN files \ {p} :
                Seen(q, files[q]) /\ Version(files[q]) = Version(c)
                => Related(p, c, q, files[q])
  PROVE  Traced'
<1>1. /\ DOMAIN files' = DOMAIN files \cup {p} /\ files'[p] = c
      /\ \A q \in DOMAIN files : q # p => files'[q] = files[q]
  BY DEF With
<1>2. \A q \in DOMAIN files' : q # p /\ Seen(q, files[q])' =>
         q \in DOMAIN files /\ files'[q] = files[q] /\ Seen(q, files[q])
  BY <1>1, SeenBefore
<1>3. ASSUME NEW q \in DOMAIN files', Seen(q, files[q])' PROVE WellStaged(q, files[q])'
  <2>1. CASE q = p
    BY <1>1, <1>3, <2>1
  <2>2. CASE q # p
    BY <1>2, <1>3, <2>2 DEF Traced, WellStaged
  <2> QED  BY <2>1, <2>2
<1>4. ASSUME NEW q \in DOMAIN files', NEW s \in DOMAIN files',
             q # s, Seen(q, files[q])', Seen(s, files[s])',
             Version(files'[q]) = Version(files'[s])
      PROVE  Related(q, files'[q], s, files'[s])
  <2>1. CASE q = p
    BY <1>1, <1>2, <1>4, <2>1
  <2>2. CASE s = p
    BY <1>1, <1>2, <1>4, <2>2, RelatedBoth
  <2>3. CASE q # p /\ s # p
    BY <1>2, <1>4, <2>3 DEF Traced
  <2> QED  BY <2>1, <2>2, <2>3
<1> QED  BY <1>3, <1>4 DEF Traced

(* A file of a version nobody has comes where nothing is staged. *)
LEMMA TracedNew ==
  ASSUME Traced, WellPlanned, mistaken' = mistaken, NEW p, NEW c, files' = With(p, c),
         c.rev = meddling + 1, p.library \in Roots => ~IsStaged(p)
  PROVE  Traced'
<1>1. \A q \in DOMAIN files : Version(files[q]) # Version(c)
  <2> SUFFICES ASSUME NEW q \in DOMAIN files PROVE Version(files[q]) # Version(c)
    OBVIOUS
  <2>1. files[q].rev <= meddling /\ files[q].rev \in Nat /\ meddling \in Nat
    BY DEF WellPlanned, File
  <2>2. files[q].rev # c.rev
    BY <2>1
  <2> QED  BY <2>2 DEF Version
<1>2. Seen(p, c)' => WellStaged(p, c)
  BY DEF Seen, WellStaged
<1> QED  BY <1>1, <1>2, TracedComing

(* A sound copy goes to its place, and stays related to the others.        *)
LEMMA RelatedOn ==
  ASSUME NEW s, NEW c, NEW d, NEW q, NEW e, Sound(c), Related(s, c, q, e),
         d = Canonical(Home(s), c), Home(d) = d, d.library = s.library
  PROVE  Related(d, c, q, e)
<1>1. CASE Sound(e)
  <2>1. c = e /\ Moved(s, q, c)
    BY <1>1 DEF Related
  <2>2. Reaches(d, Home(q), c) \/ Reaches(Home(q), d, c)
    <3>1. CASE Home(q) = Home(s)
      BY <3>1, ReachesSelf, ReachesOn
    <3>2. CASE Home(q) # Home(s)
      BY <2>1, <3>2, ReachesFrom, ReachesOn DEF Moved
    <3> QED  BY <3>1, <3>2
  <2> QED  BY <1>1, <2>1, <2>2 DEF Related, Moved
<1>2. CASE ~Sound(e)
  <2>1. Mended(q, e, s, c)
    BY <1>2 DEF Related
  <2>2. Reaches(Canonical(q, e), d, c)
    BY <2>1, ReachesOn DEF Mended
  <2> QED  BY <1>2, <2>1, <2>2 DEF Related, Mended
<1> QED  BY <1>1, <1>2

(* The place of a file that is seen is that of its home. *)
LEMMA SeenPlace ==
  ASSUME Traced, WellPlanned, NEW p \in DOMAIN files, Seen(p, files[p])
  PROVE  Canonical(Home(p), files[p]) = Canonical(p, files[p])
<1>1. WellStaged(p, files[p]) /\ files[p] \in File /\ p.library \in Roots
  BY DEF Traced, WellPlanned, Seen
<1>2. IsStaged(p) => p.library = "Comics" /\ files[p].series # ""
  BY <1>1 DEF WellStaged, Seen, Named, File
<1> QED  BY <1>1, <1>2, HomePlace

(* What a repair took for the planned file is recorded, or is that file.   *)
LEMMA Taken ==
  ASSUME NEW f, Take(f)
  PROVE  /\ mistaken \subseteq mistaken'
         /\ Version(files[Cur(f).source]) \notin mistaken'
              => files[Cur(f).source] = Cur(f).checked /\ files[Cur(f).source] = Cur(f).content
BY DEF Take

LEMMA TracedByLinkMove ==
  ASSUME Typed, Traced, NEW f \in Fixers, LinkMove(f)
  PROVE  Traced'
<1>1. PICK a, s, d, c : a = Cur(f) /\ s = a.source /\ d = a.destination /\ c = files[s]
  OBVIOUS
<1>2. /\ Planned(a) /\ a.kind = "move" /\ s \in DOMAIN files /\ d \notin DOMAIN files
      /\ files' = With(d, c) /\ WellPlanned
  <2>1. FixerWell(f) /\ WellPlanned
    BY WellParts DEF Typed
  <2> QED  BY <1>1, <2>1 DEF LinkMove, Land, FixerWell, Busy, At
<1>3. /\ mistaken \subseteq mistaken'
      /\ Version(c) \notin mistaken' => c = a.checked /\ c = a.content
  BY <1>1, Taken DEF LinkMove
<1>4. d.library = s.library /\ ~IsStaged(d) /\ Home(d) = d /\ s.library \in Roots
      /\ d = Canonical(s, a.checked)
  BY <1>1, <1>2, PlacesAre DEF Planned, Found
<1>5. ASSUME Seen(d, c)'
      PROVE  /\ WellStaged(d, c)
             /\ \A q \in DOMAIN files \ {d} :
                  Seen(q, files[q]) /\ Version(files[q]) = Version(c) => Related(d, c, q, files[q])
  <2>1. c = a.checked /\ c = a.content
    BY <1>3, <1>5 DEF Seen
  <2>2. Seen(s, c)
    BY <1>3, <1>4, <1>5 DEF Seen
  <2>3. Sound(c) /\ (s.library = "Comics" => c.container = "cbz")
    BY <1>1, <1>2, <2>1, RepairsAsChecked
  <2>4. d = Canonical(Home(s), c)
    BY <1>1, <1>2, <1>4, <2>1, <2>2, SeenPlace
  <2>5. Related(d, c, s, c)
    <3>1. Reaches(Home(s), d, c)
      BY <2>4, ReachesSelf, ReachesOn
    <3> QED  BY <1>4, <2>3, <3>1 DEF Related, Moved
  <2>6. ASSUME NEW q \in DOMAIN files \ {d}, q # s, Seen(q, files[q]),
               Version(files[q]) = Version(c)
        PROVE  Related(d, c, q, files[q])
    <3>1. Related(s, c, q, files[q])
      BY <1>1, <1>2, <2>2, <2>6 DEF Traced
    <3> QED  BY <1>4, <2>3, <2>4, <3>1, RelatedOn
  <2>7. WellStaged(d, c)
    BY <1>4 DEF WellStaged
  <2> QED  BY <1>1, <2>5, <2>6, <2>7
<1> QED  BY <1>2, <1>3, <1>5, TracedComing

LEMMA TracedByStage ==
  ASSUME Typed, Traced, NEW f \in Fixers, Stage(f)
  PROVE  Traced'
<1>1. PICK a, s, t, c, r : /\ a = Cur(f) /\ s = a.source /\ t = Staging(f, a) /\ c = files[s]
                           /\ r = Rewritten(a, c)
  OBVIOUS
<1>2. /\ Planned(a) /\ a.kind # "move" /\ s \in DOMAIN files /\ t \notin DOMAIN files
      /\ files' = With(t, r) /\ WellPlanned /\ c \in File
  <2>1. FixerWell(f) /\ WellPlanned
    BY WellParts DEF Typed
  <2> QED  BY <1>1, <2>1 DEF Stage, Land, FixerWell, Busy, At, WellPlanned
<1>3. /\ mistaken \subseteq mistaken'
      /\ Version(c) \notin mistaken' => c = a.checked /\ c = a.content
  BY <1>1, Taken DEF Stage
<1>4. Version(r) = Version(c)
  BY <1>1, <1>2, RepairsAreLighter
<1>5. t.library = s.library /\ Home(t) = Canonical(s, a.checked) /\ s.library \in Roots
  BY <1>1, <1>2, StagedHome DEF Planned, Found
<1>6. ASSUME Seen(t, r)'
      PROVE  /\ WellStaged(t, r)
             /\ \A q \in DOMAIN files \ {t} :
                  Seen(q, files[q]) /\ Version(files[q]) = Version(r) => Related(t, r, q, files[q])
  <2>1. c = a.checked /\ c = a.content
    BY <1>3, <1>4, <1>6 DEF Seen
  <2>2. /\ ~Sound(c) /\ s.library = "Comics" /\ r = Mend(c) /\ Sound(r) /\ r.container = "cbz"
        /\ Named(r) => c.series # ""
    BY <1>1, <1>2, <2>1, RepairsAsChecked
  <2>3. Seen(s, c)
    BY <1>3, <1>4, <1>5, <1>6, <2>2 DEF Seen, Named
  <2>4. Home(t) = Canonical(s, c) /\ t.library = "Comics"
    BY <1>5, <2>1, <2>2
  <2>5. Related(t, r, s, c)
    BY <2>2, <2>4, ReachesSelf DEF Related, Mended
  <2>6. ASSUME NEW q \in DOMAIN files \ {t}, q # s, Seen(q, files[q]),
               Version(files[q]) = Version(r)
        PROVE  Related(t, r, q, files[q])
    <3>1. Related(s, c, q, files[q])
      BY <1>1, <1>2, <1>4, <2>3, <2>6 DEF Traced
    <3>2. Sound(files[q]) /\ Mended(s, c, q, files[q])
      BY <2>2, <3>1 DEF Related
    <3> QED  BY <2>2, <2>4, <3>2 DEF Related, Mended, Moved
  <2>7. WellStaged(t, r)
    BY <2>2, <2>4 DEF WellStaged
  <2> QED  BY <1>1, <2>5, <2>6, <2>7
<1> QED  BY <1>2, <1>3, <1>6, TracedComing

LEMMA TracedByPublish ==
  ASSUME Typed, Traced, NEW f \in Fixers, Publish(f)
  PROVE  Traced'
<1>1. PICK a, t, d, r : a = Cur(f) /\ t = Staging(f, a) /\ d = a.destination /\ r = files[t]
  OBVIOUS
<1>2. /\ Planned(a) /\ t \in DOMAIN files /\ d \notin DOMAIN files
      /\ files' = With(d, r) /\ WellPlanned /\ mistaken' = mistaken
  <2>1. FixerWell(f) /\ WellPlanned
    BY WellParts DEF Typed
  <2> QED  BY <1>1, <2>1 DEF Publish, Land, FixerWell, Busy, At
<1>3. IsStaged(t) /\ Home(t) = d /\ t.library = a.source.library
  BY <1>1, <1>2, StagedHome
<1>4. d.library = t.library /\ ~IsStaged(d) /\ Home(d) = d /\ d.library \in Roots
  BY <1>1, <1>2, <1>3, PlacesAre DEF Planned, Found
<1>5. ASSUME Seen(d, r)'
      PROVE  /\ WellStaged(d, r)
             /\ \A q \in DOMAIN files \ {d} :
                  Seen(q, files[q]) /\ Version(files[q]) = Version(r) => Related(d, r, q, files[q])
  <2>1. Seen(t, r)
    BY <1>2, <1>4, <1>5 DEF Seen
  <2>2. t.library = "Comics" /\ Sound(r) /\ r.container = "cbz"
    BY <1>1, <1>2, <1>3, <2>1 DEF Traced, WellStaged
  <2>3. Related(d, r, t, r)
    BY <1>3, <1>4, <2>2, ReachesSelf DEF Related, Moved
  <2>4. ASSUME NEW q \in DOMAIN files \ {d}, q # t, Seen(q, files[q]),
               Version(files[q]) = Version(r)
        PROVE  Related(d, r, q, files[q])
    <3>1. Related(t, r, q, files[q])
      BY <1>1, <1>2, <2>1, <2>4 DEF Traced
    <3>2. Home(d) = Home(t) /\ d.library = t.library
      BY <1>3, <1>4
    <3> QED  BY <2>2, <3>1, <3>2 DEF Related, Mended, Moved
  <2>5. WellStaged(d, r)
    BY <1>4 DEF WellStaged
  <2> QED  BY <1>1, <2>3, <2>4, <2>5
<1> QED  BY <1>2, <1>5, TracedComing

LEMMA StagedIsTemporary ==
  ASSUME NEW p, IsStaged(p)
  PROVE  IsTemporary(p)
<1>1. p.folder # <<>>
  <2>1. Len(<<>>) = 0 /\ Len(p.folder) > 1
    BY DEF IsStaged
  <2> QED  BY <2>1
<1> QED  BY <1>1 DEF IsStaged, IsTemporary, Last

LEMMA TracedNext ==
  ASSUME Typed, Traced, [Next]_vars
  PROVE  Traced'
<1> USE DEF Others, Alone
<1>1. ASSUME files' = files, mistaken' = mistaken PROVE Traced'
  BY <1>1, TracedRemoving
<1>2. ASSUME NEW p, files' = Without(p), mistaken' = mistaken PROVE Traced'
  <2>1. \A q \in DOMAIN files' : q \in DOMAIN files /\ files'[q] = files[q]
    BY <1>2 DEF Without
  <2> QED  BY <1>2, <2>1, TracedRemoving
<1>3. WellPlanned /\ \A f \in Fixers : FixerWell(f)
  BY WellParts DEF Typed
<1>4. ASSUME NEW f \in Fixers,
             Check(f) \/ Plan(f) \/ Finish(f) \/ Validate(f) \/ Seal(f) \/ Recheck(f) \/ Die(f)
      PROVE  Traced'
  BY <1>1, <1>4 DEF Check, Plan, Finish, Validate, Seal, Recheck, Die
<1>5. ASSUME NEW f \in Fixers, Unstage(f) \/ Unlink(f) \/ Stop(f) PROVE Traced'
  BY <1>1, <1>2, <1>5 DEF Unstage, Unlink, Stop
<1>6. CASE Verify \/ ResetStops
  BY <1>1, <1>6 DEF Verify, ResetStops
<1>7. CASE Replace
  <2>1. \A p \in DOMAIN files' : p # Incoming => p \in DOMAIN files /\ files'[p] = files[p]
    BY <1>7 DEF Replace
  <2>2. mistaken' = mistaken /\ Incoming.library \notin Roots
    BY <1>7, LibraryRepairAssumption DEF Replace, LibraryRepairAssumption
  <2> QED  BY <2>1, <2>2, TracedRemoving
<1>8. CASE Edit
  <2>1. PICK p \in DOMAIN files \ Temporary, edit \in Edits : Land(p, Edited(files[p], edit))
    BY <1>8 DEF Edit
  <2>2. edit.number \in STRING /\ edit.volume \in STRING /\ files[p] \in File /\ meddling \in Nat
    BY <1>3, LibraryRepairAssumption DEF LibraryRepairAssumption, WellPlanned
  <2> DEFINE c == Edited(files[p], edit)
  <2>3. c.rev = meddling + 1
    BY <2>2, EditsAreFiles
  <2>4. files' = With(p, c) /\ mistaken' = mistaken
    BY <1>8, <2>1 DEF Land, Edit
  <2>5. ~IsStaged(p)
    BY <2>1, StagedIsTemporary DEF Temporary
  <2> HIDE DEF c
  <2> QED  BY <1>3, <2>3, <2>4, <2>5, TracedNew
<1>9. CASE Arrive
  <2> DEFINE c == [verified.content EXCEPT !.id = 0, !.rev = meddling + 1]
  <2>1. PICK p \in {Cur(f).destination : f \in Fixers} \cup {Incoming} : Land(p, c)
    BY <1>9 DEF Arrive
  <2>2. verified.content \in File
    BY DEF Typed, TypeOK
  <2>3. c.rev = meddling + 1
    BY <2>2 DEF File
  <2>4. files' = With(p, c) /\ mistaken' = mistaken
    BY <1>9, <2>1 DEF Land, Arrive
  <2>5. p.library \in Roots => ~IsStaged(p)
    <3>1. CASE p = Incoming
      BY <3>1, LibraryRepairAssumption DEF LibraryRepairAssumption
    <3>2. CASE p # Incoming
      <4>1. PICK f \in Fixers : p = Cur(f).destination
        BY <2>1, <3>2
      <4>2. Planned(Cur(f))
        BY <1>3, <3>2, <4>1 DEF FixerWell, NoAction
      <4> QED  BY <4>1, <4>2, PlacesAre DEF Planned, Found
    <3> QED  BY <3>1, <3>2
  <2> HIDE DEF c
  <2> QED  BY <1>3, <2>3, <2>4, <2>5, TracedNew
<1>10. CASE UNCHANGED vars
  BY <1>1, <1>10 DEF vars
<1> QED  BY <1>4, <1>5, <1>6, <1>7, <1>8, <1>9, <1>10, TracedByLinkMove, TracedByStage,
            TracedByPublish DEF Next

LEMMA TracedInit ==
  ASSUME Init
  PROVE  Traced
<1>1. /\ \A p, q \in DOMAIN files : p # q => files[p].id # files[q].id
      /\ \A p \in DOMAIN files : ~IsTemporary(p)
  BY LibraryRepairAssumption DEF LibraryRepairAssumption, Init
<1>2. \A p, q \in DOMAIN files : p # q => Version(files[p]) # Version(files[q])
  BY <1>1 DEF Version
<1>3. \A p \in DOMAIN files : ~IsStaged(p)
  BY <1>1, StagedIsTemporary
<1> QED  BY <1>2, <1>3 DEF Traced, WellStaged

(* A file nothing is wrong with by itself is at its place. *)
LEMMA CleanIsPlaced ==
  ASSUME NEW p, NEW c, p.library \in Roots, p.library = "Comics" => c.container = "cbz",
         LocalCodes(p, c) = {}
  PROVE  Canonical(p, c) = p /\ Home(p) = p
<1>1. c.container # "unreadable"
  BY DEF LocalCodes, If
<1>2. CASE p.library = "Books"
  <2>1. BookCodes(p, c) = {}
    BY <1>1, <1>2 DEF LocalCodes
  <2>2. p = CanonicalBook(p, c)
    BY <2>1 DEF BookCodes, If
  <2> QED  BY <1>2, <2>2, PlacesAre DEF Canonical
<1>3. CASE p.library = "Comics"
  <2>1. ArchiveCodes(p, c) = {}
    BY <1>1, <1>3 DEF LocalCodes
  <2>2. PlaceCodes(p, c) = {}
    BY <2>1 DEF ArchiveCodes
  <2>3. p = CanonicalComic(p, c)
    BY <2>2 DEF PlaceCodes, If
  <2> QED  BY <1>3, <2>3, PlacesAre DEF Canonical
<1> QED  BY <1>2, <1>3 DEF Roots

(* Of two copies a repair left behind, one is not where the repairs of the *)
(* file lead, so it is not clean.                                          *)
LEMMA TracedIsReported ==
  ASSUME Traced
  PROVE  LeftoversReported
<1> SUFFICES ASSUME NEW p \in DOMAIN files, NEW q \in DOMAIN files,
                    p # q, files[p] = files[q], Version(files[p]) \notin mistaken,
                    p.library \in Roots, q.library \in Roots,
                    files[p].library = "Comics" /\ files[p].container # "pdf" => files[p].series # "",
                    Codes(files, WholeLibrary, p) \cup Codes(files, WholeLibrary, q) = {}
             PROVE  FALSE
  BY DEF LeftoversReported
<1>1. PICK c : c = files[p]
  OBVIOUS
<1>2. Seen(p, files[p]) /\ Seen(q, files[q])
  BY DEF Seen, Named
<1>3. Related(p, c, q, c)
  BY <1>1, <1>2 DEF Traced
<1>4. Moved(p, q, c)
  BY <1>3 DEF Related
<1>5. LocalCodes(p, c) = {} /\ LocalCodes(q, c) = {}
  BY <1>1 DEF Codes
<1>6. /\ Canonical(p, c) = p /\ Home(p) = p
      /\ Canonical(q, c) = q /\ Home(q) = q
  BY <1>4, <1>5, CleanIsPlaced DEF Moved
<1> QED  BY <1>4, <1>6, ReachesNoFurther DEF Moved

(* Whatever fails or dies, whoever else is at work and however often a     *)
(* file is repaired under another name: no two copies of one content are   *)
(* both found right.                                                       *)
THEOREM LeftoversAreReported == Spec => []LeftoversReported
<1>1. Init => Typed /\ Traced
  BY TypedInit, TracedInit
<1>2. Typed /\ Traced /\ [Next]_vars => (Typed /\ Traced)'
  BY TypedNext, TracedNext
<1>3. Traced => LeftoversReported
  BY TracedIsReported
<1> QED  BY <1>1, <1>2, <1>3, PTL DEF Spec

----------------------------------------------------------------------------
(* The publisher and the check *)

LEMMA ResolvedTyped ==
  ASSUME NEW d \in Decided
  PROVE  Resolved(d).media \in {"book", "comic"} /\ Resolved(d).volume \in Digits \cup {""}
<1>1. /\ \A fields \in {d.fields, d.overrides} :
            /\ "media" \in DOMAIN fields => fields.media \in {"book", "comic"}
            /\ "volume" \in DOMAIN fields => fields.volume \in Digits \cup {""}
      /\ {"media", "volume"} \subseteq DOMAIN d.fields
  BY PublicationAssumption DEF PublicationAssumption
<1>2. "media" \in IdentityFields /\ "volume" \in IdentityFields
  BY DEF IdentityFields
<1>3. CandidateVolume(d.fields) \in Digits \cup {""}
  BY DEF CandidateVolume
<1>4. /\ OfManual(d.fields).media = d.fields.media
      /\ OfManual(d.fields).volume \in {d.fields.volume, ""}
  BY <1>2 DEF OfManual
<1>5. /\ OfCandidate(d.fields).media = d.fields.media
      /\ OfCandidate(d.fields).volume = CandidateVolume(d.fields)
  BY <1>2 DEF OfCandidate
<1>6. PICK derived : /\ derived \in {OfManual(d.fields), OfCandidate(d.fields)}
                     /\ Resolved(d) = [f \in IdentityFields |->
                          IF f \in DOMAIN d.overrides THEN d.overrides[f] ELSE derived[f]]
  BY DEF Resolved
<1>7. /\ Resolved(d).media \in {d.overrides.media, derived.media}
      /\ Resolved(d).media = d.overrides.media => "media" \in DOMAIN d.overrides \/ Resolved(d).media = derived.media
      /\ Resolved(d).volume \in {d.overrides.volume, derived.volume}
      /\ Resolved(d).volume = d.overrides.volume => "volume" \in DOMAIN d.overrides \/ Resolved(d).volume = derived.volume
  BY <1>2, <1>6
<1> QED  BY <1>1, <1>3, <1>4, <1>5, <1>6, <1>7

(* What a file holds, but for whose it is and its revision. *)
Held ==
  {"container", "library", "comicinfo", "creators", "series", "title", "format", "number", "volume"}

(* A book that is published as complete is at its place. *)
LEMMA PublishedBook ==
  ASSUME NEW id, NEW s \in Sources, id.media = "book", Publishable(id, s), Complete(id, s),
         NEW c \in File,
         \A field \in Held : c[field] = Written(id, s)[field]
  PROVE  LocalCodes(Destination(id, s), c) = {}
<1>1. PICK p, w : p = Destination(id, s) /\ w = Written(id, s)
  OBVIOUS
<1>2. /\ s \in [container : Containers \ {"unreadable"}, library : Roots, comicinfo : BOOLEAN,
               creators : BOOLEAN, series : STRING, title : STRING, format : STRING,
               number : STRING, volume : STRING]
      /\ s.container # "unreadable" /\ s.library = "Books"
      /\ id.title # ""
      /\ id.series = "" => s.series = "" /\ (s.container = "pdf" => id.title \notin IssueParts)
      /\ id.series # "" => /\ s.container # "pdf"
                           /\ id.number # "" /\ Normalized(id.number) = id.number
  BY PublicationAssumption DEF PublicationAssumption, Publishable, Plannable, Complete
<1>4. PICK series, number :
         /\ series = IF id.series # "" THEN id.series ELSE s.series
         /\ number = IF s.container # "pdf" /\ id.number # "" THEN Normalized(id.number) ELSE s.number
  OBVIOUS
<1>5. w = [s EXCEPT !.title = id.title, !.creators = TRUE, !.series = series, !.number = number]
  <2>1. PICK t : t = [s EXCEPT !.title = id.title, !.creators = TRUE]
    OBVIOUS
  <2>2. CASE s.container = "pdf"
    <3>1. id.series = "" /\ series = s.series /\ number = s.number
      BY <1>2, <1>4, <2>2
    <3>2. w = t
      BY <1>1, <2>1, <2>2 DEF Written, WrittenBook
    <3> QED  BY <1>2, <2>1, <3>1, <3>2
  <2>3. CASE s.container # "pdf"
    <3>1. t.series = s.series /\ t.number = s.number
      BY <1>2, <2>1
    <3>2. w = [t EXCEPT !.series = series, !.number = number]
      BY <1>1, <1>4, <2>1, <2>3, <3>1 DEF Written, WrittenBook
    <3> QED  BY <1>2, <2>1, <3>2
  <2> QED  BY <2>2, <2>3
<1>6. /\ w.title = id.title /\ w.creators = TRUE /\ w.series = series /\ w.number = number
      /\ w.container = s.container /\ w.library = s.library
  BY <1>2, <1>5
<1>7. /\ c.title = id.title /\ c.creators = TRUE /\ c.series = series /\ c.number = number
      /\ c.container = s.container /\ c.library = "Books"
  BY <1>1, <1>2, <1>6 DEF Held
<1>8. series = id.series
  BY <1>2, <1>4
<1>9. p = BookPath(id, s.container)
  BY <1>1 DEF Destination
<1>10. p.library = "Books" /\ p.ext = s.container
  BY <1>9 DEF BookPath
<1>11. CanonicalBook(p, c) = p
  <2>1. CASE id.series # ""
    <3>1. /\ ~LooksLikeComic(p, c) /\ Part(id.series) = <<id.series>> /\ Part(id.title) = <<id.title>>
          /\ <<id.series>> # <<>>
      BY <1>2, <1>7, <2>1, OnePart DEF LooksLikeComic, Part
    <3>2. c.number = id.number /\ c.number # ""
      <4>1. s.container # "pdf" /\ id.number # "" /\ Normalized(id.number) = id.number
        BY <1>2, <2>1, Zenon
      <4>2. number = Normalized(id.number)
        BY <1>4, <4>1, Zenon
      <4>3. c.number = number
        BY <1>7
      <4> QED  BY <4>1, <4>2, <4>3, Zenon
    <3>3. NumberInName(id) = <<Issue(id.number)>>
      <4>1. ~(id.media = "comic" /\ id.volume # "") /\ id.number # ""
        BY <3>2
      <4> QED  BY <4>1 DEF NumberInName
    <3>4. BookSeries(p, c) = <<id.series>> /\ BookTitle(p, c) = <<id.title>>
      BY <1>2, <1>7, <1>8, <3>1 DEF BookSeries, BookTitle
    <3>5. BookNumber(p, c) = <<Issue(id.number)>>
      BY <3>1, <3>2 DEF BookNumber
    <3> QED  BY <1>9, <1>10, <2>1, <3>1, <3>3, <3>4, <3>5 DEF CanonicalBook, BookPath
  <2>2. CASE id.series = ""
    <3>1. /\ Part(id.title) = <<id.title>> /\ c.series = "" /\ Part(c.series) = <<>>
      BY <1>2, <1>7, <1>8, <2>2 DEF Part
    <3>2. p.name = <<id.title>> /\ p.folder = <<<<id.title>>>>
      BY <1>9, <2>2, <3>1 DEF BookPath
    <3>3. ~LooksLikeComic(p, c)
      <4>1. ASSUME s.container = "pdf"
            PROVE  ~Holds(p.name, IssueParts) /\ ~Holds(Parent(p), IssueParts)
        <5>1. ~Holds(<<id.title>>, IssueParts)
          BY <1>2, <2>2, <4>1, HoldsOne
        <5>2. Parent(p) = <<id.title>>
          BY <3>2, OnePart DEF Parent, Last
        <5> QED  BY <3>2, <5>1, <5>2
      <4> QED  BY <1>7, <4>1 DEF LooksLikeComic
    <3>4. BookSeries(p, c) = <<>> /\ BookTitle(p, c) = <<id.title>>
      BY <1>2, <1>7, <3>1, <3>3 DEF BookSeries, BookTitle
    <3> QED  BY <1>9, <1>10, <2>2, <3>1, <3>4 DEF CanonicalBook, BookPath
  <2> QED  BY <2>1, <2>2
<1>12. p.folder # <<>>
  BY <1>9 DEF BookPath
<1>13. BookCodes(p, c) = {}
  BY <1>2, <1>7, <1>11 DEF BookCodes, If
<1>14. LocalCodes(p, c) = {}
  BY <1>2, <1>7, <1>10, <1>12, <1>13 DEF LocalCodes, If
<1> QED  BY <1>1, <1>14

(* A folder of a series, or its folder of specials. *)
LEMMA SeriesFolders ==
  ASSUME NEW x, NEW rest, rest = <<>> \/ rest = <<Specials>>,
         NEW folder, folder = <<x>> \o rest
  PROVE  /\ folder # <<>> /\ folder[1] = x /\ Len(folder) # 0
         /\ \/ Len(folder) = 1 /\ ~(Len(folder) > 2) /\ ~(Len(folder) = 2)
               /\ ~(Len(folder) > 1)
            \/ Len(folder) = 2 /\ ~(Len(folder) > 2) /\ Len(folder) > 1 /\ Len(folder) > 0
               /\ folder[Len(folder)] = Specials /\ folder[Len(folder) - 1] = x
<1>1. CASE rest = <<>>
  <2>1. folder = <<x>>
    BY <1>1
  <2> QED  BY <2>1
<1>2. CASE rest = <<Specials>>
  <2>1. <<x>> \in Seq({x, Specials}) /\ <<Specials>> \in Seq({x, Specials})
        /\ Len(<<x>>) = 1 /\ Len(<<Specials>>) = 1 /\ <<x>>[1] = x
        /\ <<Specials>>[1] = Specials
    OBVIOUS
  <2>2. folder \in Seq({x, Specials}) /\ Len(folder) = 2
        /\ folder[1] = x /\ folder[2] = Specials
    BY <1>2, <2>1, ConcatProperties
  <2> QED  BY <2>2
<1> QED  BY <1>1, <1>2

LEMMA SeriesFolder ==
  ASSUME NEW x, NEW rest, rest = <<>> \/ rest = <<Specials>>
  PROVE  <<x>> \o rest # <<>>
BY SeriesFolders

(* A name begins with its first part, and with none. *)
LEMMA Heads ==
  ASSUME NEW S, NEW s \in Seq(S), NEW t \in Seq(S), Len(s) > 0
  PROVE  s \o t \in Seq(S) /\ Len(s \o t) = Len(s) + Len(t) /\ (s \o t)[1] = s[1]
<1>1. Len(s) \in Nat /\ Len(t) \in Nat /\ 1 \in 1..Len(s)
  OBVIOUS
<1> QED  BY <1>1, ConcatProperties

LEMMA PartsOf ==
  ASSUME NEW S, NEW x \in S
  PROVE  <<x>> \in Seq(S) /\ <<>> \in Seq(S) /\ Part(x) \in Seq(S)
<1>1. <<x>> \in Seq(S) /\ <<>> \in Seq(S)
  OBVIOUS
<1> QED  BY <1>1, Zenon DEF Part

LEMMA Begins ==
  ASSUME NEW S, NEW h \in Seq(S), NEW t \in Seq(S), Len(h) = 1
  PROVE  IsPrefix(h, h \o t) /\ IsPrefix(<<>>, h \o t)
<1> DEFINE v == h \o t
<1>1. v \in Seq(S) /\ Len(v) = 1 + Len(t) /\ v[1] = h[1] /\ Len(t) \in Nat
  <2>1. Len(h) > 0 /\ Len(t) \in Nat
    OBVIOUS
  <2>2. v \in Seq(S) /\ Len(v) = Len(h) + Len(t) /\ v[1] = h[1]
    BY <2>1, Heads, Zenon
  <2> QED  BY <2>1, <2>2
<1> HIDE DEF v
<1>2. SubSeq(h, 1, 1) = SubSeq(v, 1, 1) /\ 1 <= Len(v)
  BY <1>1
<1>3. SubSeq(<<>>, 1, 0) = <<>> /\ SubSeq(v, 1, 0) = <<>> /\ Len(<<>>) = 0 /\ 0 <= Len(v)
  <2>1. \A s : SubSeq(s, 1, 0) = <<>>
    OBVIOUS
  <2>2. Len(<<>>) = 0 /\ 0 <= Len(v)
    BY <1>1
  <2> QED  BY <2>1, <2>2
<1>4. IsPrefix(h, v)
  BY <1>2 DEF IsPrefix
<1>5. IsPrefix(<<>>, v)
  BY <1>3 DEF IsPrefix
<1> QED  BY <1>4, <1>5 DEF v

LEMMA BeginsName ==
  ASSUME NEW S, NEW x \in Seq(S), NEW h \in Seq(S), NEW t \in Seq(S), Len(x) = 1
  PROVE  IsPrefix(x, x \o h \o t) /\ IsPrefix(<<>>, x \o h \o t)
<1>1. (x \o h) \o t = x \o (h \o t)
  OBVIOUS
<1>2. h \o t \in Seq(S)
  BY ConcatProperties
<1>3. IsPrefix(x, x \o (h \o t)) /\ IsPrefix(<<>>, x \o (h \o t))
  BY <1>2, Begins
<1> QED  BY <1>1, <1>3, Zenon

(* A PDF comic in the folder of its series, or of its specials. *)
LEMMA NestedPdf ==
  ASSUME NEW x, NEW rest, rest = <<>> \/ rest = <<Specials>>, NEW p, p.folder = <<x>> \o rest,
         IsPrefix(x, p.name), IsPrefix(<<>>, p.name)
  PROVE  p.folder # <<>> /\ ComicPdfCodes(p) = {}
<1>5. /\ p.folder # <<>> /\ p.folder[1] = x /\ Len(p.folder) # 0
      /\ \/ Len(p.folder) = 1 /\ ~(Len(p.folder) > 2) /\ ~(Len(p.folder) = 2)
            /\ ~(Len(p.folder) > 1)
         \/ Len(p.folder) = 2 /\ ~(Len(p.folder) > 2) /\ Len(p.folder) > 1 /\ Len(p.folder) > 0
            /\ p.folder[Len(p.folder)] = Specials /\ p.folder[Len(p.folder) - 1] = x
  BY SeriesFolders
<1>6. TopFolder(p) = x
  BY <1>5 DEF TopFolder
<1>7. ComicPdfCodes(p) = {}
  <2>1. CASE Len(p.folder) = 1
    <3>1. CASE p.folder[Len(p.folder)] # Specials
      BY <1>5, <1>6, <2>1, <3>1 DEF ComicPdfCodes, If
    <3>2. CASE p.folder[Len(p.folder)] = Specials
      BY <1>5, <1>6, <2>1, <3>2 DEF ComicPdfCodes, If
    <3> QED  BY <3>1, <3>2
  <2>2. CASE Len(p.folder) = 2
    BY <1>5, <1>6, <2>2 DEF ComicPdfCodes, If
  <2> QED  BY <1>5, <2>1, <2>2
<1> QED  BY <1>5, <1>7

LEMMA NumbersInNames ==
  ASSUME NEW id
  PROVE  NumberInName(id) = <<>> \/ \E n : NumberInName(id) = <<n>>
BY Zenon DEF NumberInName

(* Of a PDF comic the check looks at the series, the folders and the       *)
(* extension only.                                                         *)
LEMMA PublishedPdf ==
  ASSUME NEW id, NEW s \in Sources, id.media = "comic", s.container = "pdf", Dated(id) # "",
         NEW c \in File, c.container = "pdf"
  PROVE  LocalCodes(Destination(id, s), c) = {}
<1>1. PICK p, x, rest : /\ p = Destination(id, s) /\ x = <<Dated(id)>>
                        /\ rest = IF FormatOf(id.type) # "" THEN <<Specials>> ELSE <<>>
  OBVIOUS
<1>2. p = ComicPath(id, "pdf")
  BY <1>1 DEF Destination, PublishedAs
<1>9. Part(Dated(id)) = x
  BY <1>1 DEF Part
<1>3. /\ p.library = "Comics" /\ p.ext = "pdf" /\ p.folder = <<x>> \o rest
      /\ p.name = x \o NumberInName(id) \o Part(id.title)
  <2>1. PICK folder, name :
          /\ folder = <<x>> \o rest /\ name = x \o NumberInName(id) \o Part(id.title)
          /\ p = [library |-> "Comics", folder |-> folder, name |-> name, ext |-> "pdf"]
    BY <1>1, <1>2, <1>9 DEF ComicPath
  <2> QED  BY <2>1
<1>10. IsPrefix(x, p.name) /\ IsPrefix(<<>>, p.name)
  <2>1. PICK n : NumberInName(id) = <<>> \/ NumberInName(id) = <<n>>
    BY NumbersInNames
  <2>2. PICK S, h, t : S = {n, id.title, Dated(id)} /\ h = NumberInName(id) /\ t = Part(id.title)
    OBVIOUS
  <2>3. h \in Seq(S) /\ t \in Seq(S) /\ x \in Seq(S) /\ Len(x) = 1
    <3>1. n \in S /\ id.title \in S /\ Dated(id) \in S
      BY <2>2
    <3>2. <<n>> \in Seq(S) /\ <<>> \in Seq(S) /\ x \in Seq(S) /\ t \in Seq(S)
      BY <1>1, <2>2, <3>1, PartsOf
    <3> QED  BY <1>1, <2>1, <2>2, <3>2, OnePart
  <2>4. p.name = x \o h \o t
    BY <1>3, <2>2
  <2>5. IsPrefix(x, x \o h \o t) /\ IsPrefix(<<>>, x \o h \o t)
    BY <2>3, BeginsName
  <2> QED  BY <2>4, <2>5, Zenon
<1>4. rest = <<>> \/ rest = <<Specials>>
  BY <1>1
<1>5. p.folder # <<>> /\ ComicPdfCodes(p) = {}
  BY <1>3, <1>4, <1>10, NestedPdf
<1>8. LocalCodes(p, c) = {}
  BY <1>3, <1>5 DEF LocalCodes, If
<1> QED  BY <1>1, <1>8

(* What a type stands for. *)
LEMMA FormatsOf ==
  ASSUME NEW type \in ItemTypes
  PROVE  /\ FormatOf(type) \in SpecialFormats \cup {""}
         /\ type \in CollectionTypes => FormatOf(type) \in CollectionFormats
         /\ type \notin CollectionTypes => FormatOf(type) \notin CollectionFormats
         /\ FormatOf(type) = "" => type \notin CollectionTypes
BY DEF ItemTypes, CollectionTypes, RunTypes, FormatOf, SpecialFormats, CollectionFormats

(* A comic archive that is published as complete is at its place. *)
LEMMA PublishedArchive ==
  ASSUME NEW id, NEW s \in Sources, id.media = "comic", Publishable(id, s), Complete(id, s),
         s.container # "pdf", Dated(id) # "", id.volume \in Digits \cup {""},
         NEW c \in File,
         \A field \in Held : c[field] = Written(id, s)[field]
  PROVE  LocalCodes(Destination(id, s), c) = {}
<1>1. PICK p, w, x, format, number :
         /\ p = Destination(id, s) /\ w = Written(id, s)
         /\ x = Dated(id) /\ format = FormatOf(id.type) /\ number = NumberTag(id)
  OBVIOUS
<1>2. /\ s \in [container : Containers \ {"unreadable"}, library : Roots, comicinfo : BOOLEAN,
               creators : BOOLEAN, series : STRING, title : STRING, format : STRING,
               number : STRING, volume : STRING]
      /\ s.container = "epub" => s.library = "Books"
      /\ s.library = "Comics" /\ id.type \in ItemTypes
  BY PublicationAssumption DEF PublicationAssumption, Publishable, Plannable
<1>3. s.container \in {"cbz", "cbr"} /\ PublishedAs(s.container) = "cbz"
  <2>1. s.container \in {"cbz", "cbr"}
    BY <1>2 DEF Containers
  <2> QED  BY <2>1 DEF PublishedAs
<1>4. /\ id.title \notin EditionLabels
      /\ id.title = "" => s.title = "" /\ ~IsCollection(id) /\ id.number \in Numbers
      /\ IF IsCollection(id) THEN id.volume # "" \/ id.number = ""
         ELSE id.volume = "" /\ id.number # "" /\ Normalized(id.number) = id.number
  BY DEF Complete
<1>5. PICK title : title = IF id.title # "" THEN id.title ELSE s.title
  OBVIOUS
<1>6. w = [s EXCEPT !.container = "cbz", !.comicinfo = TRUE, !.series = x, !.title = title,
                    !.number = number, !.volume = id.volume, !.format = format]
  BY <1>1, <1>3, <1>5 DEF Written, WrittenComic
<1>7. /\ w.container = "cbz" /\ w.comicinfo = TRUE /\ w.series = x /\ w.title = title
      /\ w.number = number /\ w.volume = id.volume /\ w.format = format /\ w.library = "Comics"
  BY <1>2, <1>6
<1>8. /\ c.container = "cbz" /\ c.comicinfo = TRUE /\ c.series = x /\ c.title = id.title
      /\ c.number = number /\ c.volume = id.volume /\ c.format = format /\ c.library = "Comics"
  <2>1. title = id.title
    BY <1>4, <1>5
  <2> QED  BY <1>1, <1>7, <2>1 DEF Held
<1>9. p = ComicPath(id, "cbz")
  BY <1>1, <1>3 DEF Destination
<1>22. Part(x) = <<x>> /\ SeriesOf(p, c) = <<x>>
  BY <1>1, <1>8 DEF Part, SeriesOf
<1>10. PICK folder, name :
         /\ folder = <<<<x>>>> \o (IF format # "" THEN <<Specials>> ELSE <<>>)
         /\ name = <<x>> \o NumberInName(id) \o Part(id.title)
         /\ p = [library |-> "Comics", folder |-> folder, name |-> name, ext |-> "cbz"]
  BY <1>1, <1>9, <1>22 DEF ComicPath
<1>11. TitleOf(p, c) = Part(id.title)
  <2>1. CASE id.title # ""
    BY <1>8, <2>1 DEF TitleOf, Part
  <2>2. CASE id.title = ""
    <3>1. id.number \in Numbers /\ id.volume = "" /\ Part(id.title) = <<>> /\ id.number # ""
      BY <1>4, <2>2 DEF Part
    <3>2. NumberInName(id) = <<Issue(id.number)>> /\ Issue(id.number) \in IssueParts
      BY <3>1 DEF NumberInName, IssueParts
    <3>3. p.name = <<x>> \o <<Issue(id.number)>> \o <<>>
      <4>1. p.name = name
        BY <1>10
      <4> QED  BY <1>10, <3>1, <3>2, <4>1
    <3>4. Reading(p, c).title = <<>>
      BY <3>2, <3>3, IssuesAreUntitled DEF Reading
    <3> QED  BY <1>8, <2>2, <3>1, <3>4 DEF TitleOf
  <2> QED  BY <2>1, <2>2
<1>12. /\ format \in SpecialFormats \cup {""}
       /\ IsCollection(id) => format \in CollectionFormats
       /\ ~IsCollection(id) => format \notin CollectionFormats
       /\ "" \notin CollectionFormats /\ "one-shot" \notin CollectionFormats
       /\ "" \notin Digits
  BY <1>1, <1>2, FormatsOf DEF IsCollection, CollectionFormats, Digits
<1>13. /\ c.volume # "" => IsCollection(id) /\ c.number = "" /\ c.format # ""
       /\ c.volume = "" => (c.number = "" <=> IsCollection(id))
       /\ c.volume = "" /\ ~IsCollection(id) => c.number = id.number /\ id.number # ""
  BY <1>1, <1>4, <1>8, <1>12 DEF NumberTag
<1>14. Rendered(c) = NumberInName(id)
  <2>1. CASE c.volume # ""
    BY <1>8, <2>1 DEF Rendered, NumberInName
  <2>2. CASE c.volume = "" /\ ~IsCollection(id)
    <3>1. ~InfersVolume(c) /\ c.number # "" /\ c.number = id.number /\ c.volume = id.volume
      BY <1>8, <1>12, <1>13, <2>2 DEF InfersVolume, UsesNumber
    <3> QED  BY <1>12, <2>2, <3>1 DEF Rendered, NumberInName
  <2>3. CASE c.volume = "" /\ IsCollection(id)
    <3>1. /\ ~InfersVolume(c) /\ c.number = "" /\ c.format # "one-shot"
          /\ id.number = "" /\ id.volume = ""
      BY <1>4, <1>8, <1>12, <1>13, <2>3 DEF InfersVolume, UsesNumber
    <3> QED  BY <1>12, <2>3, <3>1 DEF Rendered, NumberInName
  <2> QED  BY <2>1, <2>2, <2>3
<1>15. ComicFolder(p, c) = folder
  <2>1. c.format \in SpecialFormats <=> format # ""
    <3>1. "" \notin SpecialFormats
      BY DEF SpecialFormats, CollectionFormats
    <3> QED  BY <1>8, <1>12, <3>1
  <2> QED  BY <1>8, <1>10, <1>22, <2>1 DEF ComicFolder
<1>16. CanonicalComic(p, c) = p
  BY <1>10, <1>11, <1>14, <1>15, <1>22 DEF CanonicalComic
<1>17. p.folder # <<>>
  <2>1. PICK rest : rest = IF format # "" THEN <<Specials>> ELSE <<>>
    OBVIOUS
  <2>2. folder = <<<<x>>>> \o rest
    BY <1>10, <2>1
  <2>3. rest = <<>> \/ rest = <<Specials>>
    BY <2>1
  <2>4. <<<<x>>>> \o rest # <<>>
    BY <2>3, SeriesFolder
  <2> QED  BY <1>10, <2>2, <2>4
<1>18. PlaceCodes(p, c) = {}
  BY <1>16, <1>17 DEF PlaceCodes, TopFolder, If
<1>19. SequenceCodes(c) = {}
  <2>1. /\ ~(c.format \in CollectionFormats /\ c.number # "" /\ c.volume = "")
        /\ c.volume \in Digits \cup {""} /\ ~(c.volume # "" /\ c.number # "")
    BY <1>8, <1>12, <1>13
  <2>2. ~(c.volume = "" /\ c.number = "" /\ c.format \notin SpecialFormats)
    BY <1>8, <1>12, <1>13 DEF SpecialFormats
  <2> QED  BY <2>1, <2>2 DEF SequenceCodes, UsesNumber, If
<1>20. ArchiveCodes(p, c) = {}
  <2>1. SeriesOf(p, c) # <<>> /\ c.container # "cbr"
    BY <1>8, <1>22, OnePart
  <2>2. TitleOf(p, c) \notin {<<label>> : label \in EditionLabels}
    <3>1. TitleOf(p, c) = <<>> \/ TitleOf(p, c) = <<id.title>>
      BY <1>11 DEF Part
    <3>2. \A label : <<>> # <<label>> /\ (<<id.title>> = <<label>> => id.title = label)
      <4> TAKE label
      <4>1. <<id.title>>[1] = id.title /\ <<label>>[1] = label /\ <<label>> # <<>>
        BY OnePart
      <4> QED  BY <4>1
    <3> QED  BY <1>4, <3>1, <3>2
  <2> QED  BY <1>8, <1>12, <1>13, <1>18, <1>19, <2>1, <2>2 DEF ArchiveCodes, If
<1>21. LocalCodes(p, c) = {}
  BY <1>8, <1>10, <1>17, <1>20 DEF LocalCodes, If
<1> QED  BY <1>1, <1>21

(* The publisher and the check implement one naming policy: whatever was   *)
(* decided about whatever source, a publication whose naming is complete   *)
(* is where, and as, the check of the library expects it, wherever and     *)
(* whenever such a file lies there.                                        *)
THEOREM PublicationsAreCanonical == Spec => []PublishedIsCanonical
<1>1. Typed => PublishedIsCanonical
  <2> SUFFICES ASSUME Typed, NEW p \in DOMAIN files,
                      <<p, Unmarked(files[p])>> \in CompletePublications
               PROVE  LocalCodes(p, files[p]) = {}
    BY DEF PublishedIsCanonical
  <2>1. PICK c : c = files[p]
    OBVIOUS
  <2>2. c \in File
    BY <2>1 DEF Typed, WellPlanned
  <2>3. PICK d \in Decided, s \in Sources :
          /\ Publishable(Resolved(d), s) /\ Complete(Resolved(d), s)
          /\ p = Destination(Resolved(d), s)
          /\ [f \in DOMAIN c \ {"id", "rev"} |-> c[f]] = Written(Resolved(d), s)
    BY <2>1 DEF CompletePublications, Unmarked
  <2>4. PICK id : id = Resolved(d)
    OBVIOUS
  <2>5. Publishable(id, s) /\ Complete(id, s) /\ p = Destination(id, s)
    BY <2>3, <2>4
  <2>6. DOMAIN c = Held \cup {"id", "rev"}
    BY <2>2 DEF File, Held
  <2>7. \A f \in Held : c[f] = Written(id, s)[f]
    <3>1. Held \subseteq DOMAIN c \ {"id", "rev"}
      BY <2>6 DEF Held
    <3> QED  BY <2>3, <2>4, <3>1
  <2>8. id.media \in {"book", "comic"} /\ id.volume \in Digits \cup {""}
    BY <2>4, ResolvedTyped
  <2>9. LocalCodes(Destination(id, s), c) = {}
    <3>1. CASE id.media = "book"
      BY <2>2, <2>5, <2>7, <3>1, PublishedBook
    <3>4. ASSUME id.media = "comic"
          PROVE  Dated(id) # ""
      <4>1. id.series # ""
        BY <2>5, <3>4 DEF Publishable, Plannable
      <4> QED  BY <2>4, <4>1, PublicationAssumption DEF PublicationAssumption
    <3>2. CASE id.media = "comic" /\ s.container = "pdf"
      <4>1. c.container = "pdf"
        BY <2>7, <3>2 DEF Written, Held
      <4> QED  BY <2>2, <3>2, <3>4, <4>1, PublishedPdf
    <3>3. CASE id.media = "comic" /\ s.container # "pdf"
      BY <2>2, <2>5, <2>7, <2>8, <3>3, <3>4, PublishedArchive
    <3> QED  BY <2>8, <3>1, <3>2, <3>3
  <2> QED  BY <2>1, <2>5, <2>9
<1>2. Spec => []Typed
  BY TypedInit, TypedNext, PTL DEF Spec
<1> QED  BY <1>1, <1>2, PTL
=============================================================================
