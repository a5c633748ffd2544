----------------------------- MODULE Publication -----------------------------
(***************************************************************************)
(* What one run of an approved plan promises to whoever reads its journal, *)
(* without staging, links, hashes, crashes or recovery: every work moves   *)
(* from the incoming folder into the library in the order publish,         *)
(* archive, retire; what the journal says of it is true when it is said;   *)
(* a work it has spoken of is left alone; and a closed run stays closed.   *)
(***************************************************************************)
CONSTANTS Items

VARIABLES
  lifecycle,  \* what the plan does with the source of each item
  copies,     \* where the item's own bytes are, none once somebody else interfered
  told,       \* what the journal says of the item
  verdict,    \* what it says of the run
  tampered    \* items whose files somebody else changed

vars == <<lifecycle, copies, told, verdict, tampered>>

Init ==
  /\ lifecycle \in [Items -> {"preserve", "move_after_verify", "archive_after_verify"}]
  /\ copies = [i \in Items |-> {"source"}]
  /\ told = [i \in Items |-> "open"]
  /\ verdict = "open"
  /\ tampered = {}

Published(i) == "library" \in copies[i]

AsFound(i) == "source" \in copies[i] /\ ~Published(i)

(* The lifecycle has been carried out. *)
Finished(i) ==
  /\ Published(i)
  /\ lifecycle[i] = "preserve" <=> "source" \in copies[i]
  /\ lifecycle[i] = "archive_after_verify" => "archive" \in copies[i]

Working(i) == verdict = "open" /\ told[i] = "open" /\ i \notin tampered

Become(i, where) ==
  /\ copies' = [copies EXCEPT ![i] = where]
  /\ UNCHANGED <<lifecycle, told, verdict, tampered>>

Publish(i) == Working(i) /\ AsFound(i) /\ Become(i, copies[i] \cup {"library"})

Archive(i) ==
  /\ Working(i) /\ Published(i) /\ "source" \in copies[i]
  /\ lifecycle[i] = "archive_after_verify"
  /\ Become(i, copies[i] \cup {"archive"})

Retire(i) ==
  /\ Working(i) /\ Published(i) /\ lifecycle[i] # "preserve"
  /\ lifecycle[i] = "archive_after_verify" => "archive" \in copies[i]
  /\ Become(i, copies[i] \ {"source"})

(* Complete is said of a finished work, stale of one that is as it was     *)
(* found; a work handed to the operator still has its source or is         *)
(* finished.                                                               *)
Tell(i, word) ==
  /\ verdict = "open" /\ told[i] = "open"
  /\ i \notin tampered =>
       /\ word = "complete" => Finished(i)
       /\ word = "stale" => AsFound(i)
       /\ word = "manual" => "source" \in copies[i] \/ Finished(i)
  /\ told' = [told EXCEPT ![i] = word]
  /\ UNCHANGED <<lifecycle, copies, verdict, tampered>>

Close(word) ==
  /\ verdict = "open"
  /\ word = "complete" => \A i \in Items : told[i] = "complete"
  /\ word = "failed" =>
       \A i \in Items : told[i] = "complete" \/ i \in tampered \/ AsFound(i)
  /\ verdict' = word
  /\ UNCHANGED <<lifecycle, copies, told, tampered>>

Tamper(i) ==
  /\ tampered' = tampered \cup {i}
  /\ copies' = [copies EXCEPT ![i] = {}]
  /\ UNCHANGED <<lifecycle, told, verdict>>

Next ==
  \/ \E i \in Items :
       \/ Publish(i) \/ Archive(i) \/ Retire(i) \/ Tamper(i)
       \/ \E word \in {"complete", "stale", "manual"} : Tell(i, word)
  \/ \E word \in {"complete", "failed"} : Close(word)

Spec == Init /\ [][Next]_vars
=============================================================================
