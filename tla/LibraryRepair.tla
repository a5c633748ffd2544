--------------------------- MODULE LibraryRepair ---------------------------
(***************************************************************************)
(* Repairing a library in place (library_repair.apply_library_repairs) and *)
(* moving a wrong publication back to Incoming                             *)
(* (repair.reset_verified_publication), while a user edits and adds files, *)
(* other such commands run (no lock is taken) and processes die.           *)
(*                                                                         *)
(* A hash is the content it is the hash of.  Every system call that        *)
(* changes a name is a step; directories are created and removed as needed *)
(* and are not modelled.  The user edits a file by replacing it.           *)
(***************************************************************************)
EXTENDS Projection

CONSTANTS
  Fixers,          \* processes running library-fix, by their temporary directory
  Libraries,       \* the libraries the system may start from
  Scopes,          \* what library-fix may be asked to look at
  Edits,           \* what a user may make of the metadata of a file
  Incoming,        \* the path in Incoming a publication is reset to
  Decided,         \* the decisions publications of the libraries may come from
  Sources,         \* and the sources they were written from
  MaxMeddling,     \* bound: edits, arrivals, and repairs begun during another
  MaxParts         \* bound: the parts of a name a repair gives

Roots == {"Books", "Comics"}
Containers == {"epub", "pdf", "cbz", "cbr", "unreadable"}

(* What a file holds: the metadata, whose file it is, and its revision.    *)
(* classify knows a comic from a book by the container, a PDF by other     *)
(* things; only a comic archive has a ComicInfo.xml with a Format, and of  *)
(* a PDF only title and author are read.                                   *)
File ==
  {c \in [container : Containers, library : Roots, comicinfo : BOOLEAN, creators : BOOLEAN,
          series : STRING, title : STRING, format : STRING, number : STRING, volume : STRING,
          id : Nat, rev : Nat] :
     /\ c.container \in {"cbz", "cbr"} => c.library = "Comics"
     /\ c.container = "epub" => c.library = "Books"
     /\ c.container \in {"epub", "pdf"} => c.format = ""
     /\ c.container = "pdf" => c.series = "" /\ c.number = "" /\ c.volume = ""}

(* The temporary directories of the repairs, .kavita-ingest-library-fix-*. *)
IsTemporary(p) == p.folder # <<>> /\ Last(p.folder) \in {<<f>> : f \in Fixers}

ASSUME LibraryRepairAssumption ==
  /\ "Specials" \notin Fixers
  /\ \A library \in Libraries :
       /\ library \in [DOMAIN library -> File]
       /\ \A p \in DOMAIN library : library[p].rev = 0 /\ library[p].id # 0
       /\ \A p, q \in DOMAIN library : p # q => library[p].id # library[q].id
       /\ \A p \in DOMAIN library : ~IsTemporary(p)
  /\ \A scope \in Scopes : scope.libraries \subseteq Roots
  /\ Edits \subseteq [number : STRING, volume : STRING]
  /\ Incoming.library \notin Roots
  /\ MaxMeddling \in Nat /\ MaxParts \in Nat

(* A decision is about a book or a comic, and a volume is an integer;      *)
(* putting the year after the name of a series makes no name empty; a      *)
(* source is a file that could be inspected.                               *)
ASSUME PublicationAssumption ==
  /\ \A d \in Decided :
       /\ \A fields \in {d.fields, d.overrides} :
            /\ "media" \in DOMAIN fields => fields.media \in {"book", "comic"}
            /\ "volume" \in DOMAIN fields => fields.volume \in Digits \cup {""}
       /\ {"media", "volume"} \subseteq DOMAIN d.fields
       /\ Resolved(d).series # "" => Dated(Resolved(d)) # ""
  /\ \A s \in Sources :
       /\ s \in [container : Containers \ {"unreadable"}, library : Roots, comicinfo : BOOLEAN,
                 creators : BOOLEAN, series : STRING, title : STRING, format : STRING,
                 number : STRING, volume : STRING]
       /\ s.container \in {"cbz", "cbr"} => s.library = "Comics"
       /\ s.container = "epub" => s.library = "Books"
       /\ s.container = "pdf" => s.series = ""

VARIABLES
  files,     \* what lies at each path of the libraries and of Incoming
  verified,  \* completed apply records: path and content of a publication
  fixer,     \* what each repair does
  reset,     \* what the reset does
  meddling,  \* number of edits, arrivals and overlapping repairs so far
  current,   \* history: the versions of the user's files nobody replaced
  raced,     \* history: versions that came to a path between the last look at
             \* it and the system call that removes or replaces what is there,
             \* or came back to it between a repair's reading and its check
  mistaken   \* history: versions a repair took for those its plan was made from

vars == <<files, verified, fixer, reset, meddling, current, raced, mistaken>>

NoAction == [source |-> Incoming, destination |-> Incoming, kind |-> "none", content |-> <<>>,
             checked |-> <<>>, migrates |-> FALSE]
IdleFixer == [pc |-> "idle", todo |-> {}, action |-> NoAction]
IdleReset == [pc |-> "idle", source |-> Incoming, content |-> <<>>]

(* A version of a user's file; a transformed file is still that version,   *)
(* and every edit and every arrival makes a version nobody has seen.       *)
Version(c) == <<c.id, c.rev>>

Without(path) == [p \in DOMAIN files \ {path} |-> files[p]]
With(path, c) == [p \in DOMAIN files \cup {path} |-> IF p = path THEN c ELSE files[p]]

(* The staged copy lies in a temporary directory beside the destination,   *)
(* inside the library.                                                     *)
Staging(f, a) == [a.destination EXCEPT !.folder = Append(@, <<f>>)]

Init ==
  /\ files \in Libraries
  /\ \E p \in DOMAIN files : verified = [path |-> p, content |-> files[p]]
  /\ fixer = [f \in Fixers |-> IdleFixer]
  /\ reset = IdleReset
  /\ meddling = 0
  /\ current = {Version(files[p]) : p \in DOMAIN files}
  /\ raced = {}
  /\ mistaken = {}

(* The paths whose file goes with the next system call of somebody, who    *)
(* has looked at it for the last time.                                     *)
Condemned ==
  {fixer[f].action.source : f \in {g \in Fixers : fixer[g].pc = "unlink"}}
  \cup (IF reset.pc = "verified" THEN {Incoming} ELSE {})

(* The file of a repair comes back to its path when the repair has read    *)
(* the path and not yet checked that it read what it planned for.          *)
ComesBack(path, c) ==
  \E f \in Fixers :
    fixer[f].pc = "staged" /\ fixer[f].action.source = path /\ fixer[f].action.content = c

Land(path, c) ==
  /\ files' = With(path, c)
  /\ raced' = IF path \in Condemned \/ ComesBack(path, c) THEN raced \cup {Version(c)} ELSE raced

At(f, pc) == fixer[f].pc = pc
Cur(f) == fixer[f].action
GoTo(f, pc) == fixer' = [fixer EXCEPT ![f].pc = pc]
Quit(f) == fixer' = [fixer EXCEPT ![f] = IdleFixer]
Alone == UNCHANGED <<verified, reset, meddling, current>>
Others == Alone /\ UNCHANGED <<raced, mistaken>>

(* What lies at the source now was put there since the check read it, or   *)
(* since it was hashed.                                                    *)
Take(f) ==
  LET c == files[Cur(f).source]
  IN mistaken' = IF c = Cur(f).checked /\ c = Cur(f).content THEN mistaken
                 ELSE mistaken \cup {Version(c)}

Unchanged(f) == Cur(f).source \in DOMAIN files /\ files[Cur(f).source] = Cur(f).content

(***************************************************************************)
(* library-fix                                                             *)
(***************************************************************************)

(* check_library. *)
Check(f) ==
  /\ At(f, "idle")
  /\ \E scope \in Scopes :
       LET found == Findings(files, scope)
       IN /\ found # {}
          /\ \A x \in found : Len(x.destination.name) <= MaxParts
          /\ fixer' = [fixer EXCEPT ![f] = [pc |-> "checked", todo |-> found, action |-> NoAction]]
  /\ meddling' = meddling + IF \E g \in Fixers : ~At(g, "idle") THEN 1 ELSE 0
  /\ meddling' <= MaxMeddling
  /\ UNCHANGED <<files, verified, reset, current, raced, mistaken>>

(* plan_library_repairs, which hashes what was checked, and the prompt. *)
Plan(f) ==
  /\ At(f, "checked")
  /\ fixer' = [fixer EXCEPT ![f] = [pc |-> "next", todo |-> PlanRepairs(files, fixer[f].todo),
                                    action |-> NoAction]]
  /\ Others /\ UNCHANGED files

(* The user says no, or every action is done. *)
Finish(f) ==
  /\ At(f, "next")
  /\ Quit(f)
  /\ Others /\ UNCHANGED files

(* Mutant: the list is not shortened. *)
ValidateAnew(f) ==
  /\ At(f, "next")
  /\ \E a \in fixer[f].todo :
       /\ a.source \in DOMAIN files /\ files[a.source] = a.content
       /\ a.destination \notin DOMAIN files
       /\ fixer' = [fixer EXCEPT ![f].pc = IF a.kind = "move" THEN "move" ELSE "stage",
                                 ![f].action = a]
  /\ Others /\ UNCHANGED files

(* _validate_action_preconditions; a refusal stops the whole batch. *)
Validate(f) ==
  /\ At(f, "next")
  /\ \E a \in fixer[f].todo :
       /\ a.source \in DOMAIN files /\ files[a.source] = a.content
       /\ a.destination \notin DOMAIN files
       /\ fixer' = [fixer EXCEPT ![f] = [pc |-> IF a.kind = "move" THEN "move" ELSE "stage",
                                         todo |-> @.todo \ {a}, action |-> a]]
  /\ Others /\ UNCHANGED files

(* commit of a move: link without clobbering ... *)
LinkMove(f) ==
  /\ At(f, "move")
  /\ Cur(f).source \in DOMAIN files /\ Cur(f).destination \notin DOMAIN files
  /\ Land(Cur(f).destination, files[Cur(f).source])
  /\ Take(f)
  /\ GoTo(f, "unlink")
  /\ Alone

(* The writer makes the staged copy, in a directory nobody has yet, with   *)
(* the planned changes to whatever lies at the source.                     *)
Stage(f) ==
  /\ At(f, "stage")
  /\ Staging(f, Cur(f)) \notin DOMAIN files
  /\ Cur(f).source \in DOMAIN files
  /\ files[Cur(f).source].container \in Readable(Cur(f).kind)
  /\ Land(Staging(f, Cur(f)), Rewritten(Cur(f), files[Cur(f).source]))
  /\ Take(f)
  /\ GoTo(f, "staged")
  /\ Alone

(* The source is what the plan says it is: what was staged is what was     *)
(* planned.                                                                *)
Seal(f) ==
  /\ At(f, "staged")
  /\ Unchanged(f)
  /\ GoTo(f, "sealed")
  /\ Others /\ UNCHANGED files

(* commit of the staged copy: link without clobbering ... *)
Publish(f) ==
  /\ At(f, "sealed")
  /\ Staging(f, Cur(f)) \in DOMAIN files /\ Cur(f).destination \notin DOMAIN files
  /\ Land(Cur(f).destination, files[Staging(f, Cur(f))])
  /\ GoTo(f, "published")
  /\ Alone /\ UNCHANGED mistaken

(* ... and unlink the staged name. *)
Unstage(f) ==
  /\ At(f, "published")
  /\ Staging(f, Cur(f)) \in DOMAIN files
  /\ files' = Without(Staging(f, Cur(f)))
  /\ GoTo(f, "recheck")
  /\ Others

(* Mutant: the source is removed without looking at it again. *)
RecheckNothing(f) ==
  /\ At(f, "recheck")
  /\ GoTo(f, "unlink")
  /\ Others /\ UNCHANGED files

(* The source is still what was planned. *)
Recheck(f) ==
  /\ At(f, "recheck")
  /\ Unchanged(f)
  /\ GoTo(f, "unlink")
  /\ Others /\ UNCHANGED files

(* Unlink the source, the last step of either kind. *)
Unlink(f) ==
  /\ At(f, "unlink")
  /\ Cur(f).source \in DOMAIN files
  /\ files' = Without(Cur(f).source)
  /\ fixer' = [fixer EXCEPT ![f] = [pc |-> "next", todo |-> @.todo, action |-> NoAction]]
  /\ Others

(* A precondition, a writer, a hash or a system call fails: the batch      *)
(* stops, and the temporary directory is removed.                          *)
Stop(f) ==
  /\ fixer[f].pc # "idle"
  /\ files' = IF At(f, "staged") \/ At(f, "sealed") \/ At(f, "published")
              THEN Without(Staging(f, Cur(f))) ELSE files
  /\ Quit(f)
  /\ Others

(* The process dies: whatever it has made stays. *)
Die(f) ==
  /\ fixer[f].pc # "idle"
  /\ Quit(f)
  /\ Others /\ UNCHANGED files

(***************************************************************************)
(* reset-published                                                         *)
(***************************************************************************)

(* Nothing lies at the target, and the destination holds the bytes a       *)
(* completed run recorded.                                                 *)
Verify ==
  /\ reset.pc = "idle"
  /\ Incoming \notin DOMAIN files
  /\ verified.path \in DOMAIN files /\ files[verified.path] = verified.content
  /\ reset' = [pc |-> "verified", source |-> verified.path, content |-> verified.content]
  /\ UNCHANGED <<files, verified, fixer, meddling, current, raced, mistaken>>

(* os.replace: whatever has come to the target is replaced. *)
Replace ==
  /\ reset.pc = "verified"
  /\ reset.source \in DOMAIN files
  /\ files' = [p \in (DOMAIN files \ {reset.source}) \cup {Incoming} |->
                 IF p = Incoming THEN files[reset.source] ELSE files[p]]
  /\ reset' = IdleReset
  /\ UNCHANGED <<verified, fixer, meddling, current, raced, mistaken>>

(* It fails, or the process dies. *)
ResetStops ==
  /\ reset.pc = "verified"
  /\ reset' = IdleReset
  /\ UNCHANGED <<files, verified, fixer, meddling, current, raced, mistaken>>

(***************************************************************************)
(* The user                                                                *)
(***************************************************************************)

Temporary == {p \in DOMAIN files : IsTemporary(p)}

(* Nothing that is read of a PDF can be edited but its title and author.   *)
Edited(c, edit) ==
  LET renewed == [c EXCEPT !.rev = meddling + 1]
  IN IF c.container = "pdf" THEN renewed
     ELSE [renewed EXCEPT !.number = edit.number, !.volume = edit.volume]

(* An edit replaces the file and, with it, the version it held.  Nobody    *)
(* edits in a temporary directory.                                         *)
Edit ==
  /\ meddling < MaxMeddling
  /\ \E p \in DOMAIN files \ Temporary, edit \in Edits :
       LET c == Edited(files[p], edit)
       IN /\ Land(p, c)
          /\ current' = (current \ {Version(files[p])}) \cup {Version(c)}
  /\ meddling' = meddling + 1
  /\ UNCHANGED <<verified, fixer, reset, mistaken>>

(* A file arrives at a path somebody is about to use. *)
Arrive ==
  /\ meddling < MaxMeddling
  /\ \E p \in ({Cur(f).destination : f \in Fixers} \cup {Incoming}) \ DOMAIN files :
       LET c == [verified.content EXCEPT !.id = 0, !.rev = meddling + 1]
       IN /\ Land(p, c)
          /\ current' = current \cup {Version(c)}
  /\ meddling' = meddling + 1
  /\ UNCHANGED <<verified, fixer, reset, mistaken>>

Next ==
  \/ \E f \in Fixers :
       \/ Check(f) \/ Plan(f) \/ Finish(f) \/ Validate(f) \/ LinkMove(f) \/ Stage(f) \/ Seal(f)
       \/ Publish(f) \/ Unstage(f) \/ Recheck(f) \/ Unlink(f) \/ Stop(f) \/ Die(f)
  \/ Verify \/ Replace \/ ResetStops
  \/ Edit \/ Arrive

Spec == Init /\ [][Next]_vars

(***************************************************************************)
(* Properties                                                              *)
(***************************************************************************)

(* The types; an action under way is not on the list any more.             *)
TypeOK ==
  /\ \A p \in DOMAIN files : files[p] \in File
  /\ verified.content \in File
  /\ reset.pc \in {"idle", "verified"}
  /\ meddling \in 0..MaxMeddling
  /\ \A f \in Fixers :
       /\ fixer[f].pc \in {"idle", "checked", "next", "move", "stage", "staged", "sealed",
                           "published", "recheck", "unlink"}
       /\ fixer[f].pc \notin {"idle", "checked", "next"} => Cur(f) \notin fixer[f].todo

(* Every version of a file its owner has not replaced lies somewhere, as   *)
(* it was or repaired, whatever stops or dies and whoever else is at work; *)
(* only what comes to a path between the last look at it and the system    *)
(* call on it is not protected (an edit, or the file of another repair),   *)
(* nor what comes back to it between a repair's reading and its check.     *)
NothingLost ==
  current \ raced \subseteq {Version(files[p]) : p \in DOMAIN files}

(* A repair gives the file a name that follows from what it carries, and   *)
(* not from the name it had: the metadata of a book has its title, that of *)
(* a comic series and title too, or it is an issue that is read without a  *)
(* title.                                                                  *)
NamesByContent(a) ==
  LET c == a.content
  IN IF a.source.library = "Books"
     THEN c.container = "pdf" => ~LooksLikeComic(a.source, c) /\ c.title \notin IssueParts
     ELSE /\ c.series # ""
          /\ c.title # "" \/ (TitleOf(a.source, c) = <<>> /\ Holds(Rendered(c), IssueParts))

(* A file that is repaired as it was checked and named by what it carries  *)
(* needs no repair any more: nothing is found wrong with it by itself, so  *)
(* rerunning library-fix comes to an end.                                  *)
RepairSettles ==
  [][\A f \in Fixers :
       LET a == Cur(f)
       IN At(f, "unlink") /\ At(f, "next")' /\ a.checked = a.content /\ NamesByContent(a)
          /\ a.destination \in DOMAIN files /\ files[a.destination] = Repaired(a)
          => LocalCodes(a.destination, files[a.destination]) = {}]_vars

(* The naming of a publication is complete: each part of the name can be   *)
(* read from the file again, so that no older title or series, no default  *)
(* number, no width of a number and nothing the name is read as stands for *)
(* it.  The series of a PDF book cannot, and a PDF comic is named by       *)
(* nothing it carries.                                                     *)
Complete(id, source) ==
  IF id.media = "book"
  THEN IF id.series = ""
       THEN source.series = "" /\ (source.container = "pdf" => id.title \notin IssueParts)
       ELSE source.container # "pdf" /\ id.number # "" /\ Normalized(id.number) = id.number
  ELSE \/ source.container = "pdf"
       \/ /\ id.title \notin EditionLabels
          /\ id.title = "" => source.title = "" /\ ~IsCollection(id) /\ id.number \in Numbers
          /\ IF IsCollection(id) THEN id.volume # "" \/ id.number = ""
             ELSE id.volume = "" /\ id.number # "" /\ Normalized(id.number) = id.number

CompletePublications ==
  {<<Destination(Resolved(x[1]), x[2]), Written(Resolved(x[1]), x[2])>> :
     x \in {y \in Decided \X Sources :
              Publishable(Resolved(y[1]), y[2]) /\ Complete(Resolved(y[1]), y[2])}}

Unmarked(c) == [f \in DOMAIN c \ {"id", "rev"} |-> c[f]]

(* The publisher and the check agree: with a file that is as a plan with   *)
(* complete naming published it, the check finds no fault, so library-fix  *)
(* never moves it from where the apply record says it is.                  *)
PublishedIsCanonical ==
  \A p \in DOMAIN files :
    <<p, Unmarked(files[p])>> \in CompletePublications
    => LocalCodes(p, files[p]) = {}

(* While nobody is at work, a second copy a stopped or killed repair left  *)
(* behind is reported: of two files of the libraries with the same content *)
(* a check of the whole library finds fault with one.  Only of a file that *)
(* came to its path after the check had read what was planned for, or that *)
(* has its series from a folder or its name, may two names be found right. *)
LeftoversReported ==
  (\A f \in Fixers : At(f, "idle")) =>
    \A p, q \in DOMAIN files :
      /\ p # q /\ files[p] = files[q] /\ Version(files[p]) \notin mistaken
      /\ p.library \in Roots /\ q.library \in Roots
      /\ files[p].library = "Comics" /\ files[p].container # "pdf" => files[p].series # ""
      => Codes(files, WholeLibrary, p) \cup Codes(files, WholeLibrary, q) # {}
=============================================================================
