--------------------------- MODULE ProviderClient ---------------------------
(***************************************************************************)
(* One lookup of the cached provider client (providers.client and          *)
(* provider_store), made by several processes at once: the answer cached   *)
(* for the request, its migration to the normalization schema of the       *)
(* running version, the durable rate limiter, the retries and the block a  *)
(* 429 leaves behind.  The request, its cache key and the candidates are   *)
(* abstracted to the schema they are normalized under and the age of the   *)
(* raw answer they come from.                                              *)
(***************************************************************************)
EXTENDS RateLimiter

CONSTANTS
  TTL,         \* settings.cache_ttl_seconds
  MaxRetries,  \* CachedProviderClient max_retries
  Versions     \* normalization schema versions of the releases, in order

ASSUME ProviderClientAssumption ==
  /\ TTL \in Nat \ {0} /\ MaxRetries \in Nat
  /\ Versions \subseteq Nat /\ Versions # {}

VARIABLES
  installed,  \* the schema version of the release that starts now
  cache,      \* the provider_cache rows of the request: none or one
  client,     \* what each process does with the request
  promised,   \* history: time left of the longest Retry-After recorded
  mixed       \* history: a migration has overwritten a newer answer

vars == <<limits, installed, cache, client, promised, mixed>>

(* online; offline; online without the key of a provider that needs one *)
Modes == {"online", "offline", "keyless"}

Steps == {"idle", "migrating", "waiting", "locking", "sending", "blocking"}

Idle == [pc |-> "idle", mode |-> "online", schema |-> CHOOSE v \in Versions : TRUE,
         attempt |-> 0, held |-> 0]

Age == 0..TTL

(* schema_version, the age of the row (fetched_at) and the age of the raw  *)
(* answer the normalized candidates were made from.  expires_at is         *)
(* fetched_at + TTL: ages stop counting there.                             *)
Rows == [schema : Versions, age : Age, source : Age]

Stale(row) == row.age >= TTL

(* A stale row is of use offline only. *)
Usable(mode) == {row \in cache : ~Stale(row) \/ mode = "offline"}

Put(schema) == [schema |-> schema, age |-> 0, source |-> 0]

Init ==
  /\ LimiterInit
  /\ installed \in {v \in Versions : \A w \in Versions : v <= w}
  /\ cache = {}
  /\ client = [p \in Processes |-> Idle]
  /\ promised = 0
  /\ mixed = FALSE

At(p, pc) == client[p].pc = pc

GoTo(p, pc) == client' = [client EXCEPT ![p].pc = pc]

Stop(p) == client' = [client EXCEPT ![p] = Idle]

Alone == UNCHANGED <<limits, installed, cache, promised, mixed>>

(***************************************************************************)
(* The cache                                                               *)
(***************************************************************************)

Call(mode, pc, held) ==
  [pc |-> pc, mode |-> mode, schema |-> installed, attempt |-> 0, held |-> held]

(* The row answers as it is, of this schema and fresh unless offline: the  *)
(* call is over and has changed nothing.                                   *)
Hit(p, mode) ==
  /\ \E row \in Usable(mode) : row.schema = installed
  /\ UNCHANGED client

(* The row is of another schema: its raw answer, read now, is normalized   *)
(* again in the process.                                                   *)
ReadOldSchema(p, mode) ==
  /\ \E row \in Usable(mode) :
       /\ row.schema # installed
       /\ client' = [client EXCEPT ![p] = Call(mode, "migrating", row.age)]

(* Nothing in the cache is of use: the network, where there is one;        *)
(* offline or without the key, ProviderUnavailable.                        *)
Miss(p, mode) ==
  /\ mode = "online" /\ Usable(mode) = {}
  /\ client' = [client EXCEPT ![p] = Call(mode, "waiting", 0)]

Get(p) ==
  /\ At(p, "idle")
  /\ \E mode \in Modes : Hit(p, mode) \/ ReadOldSchema(p, mode) \/ Miss(p, mode)
  /\ Alone

(* Mutant: the row is put anew, as if its answer had just been fetched. *)
RewriteAsFetched(p) ==
  /\ At(p, "migrating")
  /\ cache' = {[Put(client[p].schema) EXCEPT !.source = client[p].held]}
  /\ mixed' = (mixed \/ \E row \in cache : row.age < client[p].held)
  /\ Stop(p)
  /\ UNCHANGED <<limits, installed, promised>>

(* rewrite_cache_normalization: the candidates and the schema of whatever  *)
(* row is there now, with the candidates of the row read before.           *)
Rewrite(p) ==
  /\ At(p, "migrating")
  /\ cache' = {[row EXCEPT !.schema = client[p].schema, !.source = client[p].held] : row \in cache}
  /\ mixed' = (mixed \/ \E row \in cache : row.age < client[p].held)
  /\ Stop(p)
  /\ UNCHANGED <<limits, installed, promised>>

(* The cached answer cannot be normalized: ask again where there is a      *)
(* network, ProviderUnavailable otherwise.                                 *)
MigrationFails(p) ==
  /\ At(p, "migrating")
  /\ IF client[p].mode = "online"
     THEN client' = [client EXCEPT ![p].pc = "waiting", ![p].held = 0]
     ELSE Stop(p)
  /\ Alone

(***************************************************************************)
(* The rate limiter                                                        *)
(***************************************************************************)

OpenReservation(p) ==
  /\ At(p, "waiting")
  /\ ReadClock(p)
  /\ GoTo(p, "locking")
  /\ UNCHANGED <<installed, cache, promised, mixed>>

Allowed(p) ==
  /\ At(p, "locking")
  /\ Reserve(p)
  /\ GoTo(p, "sending")
  /\ UNCHANGED <<installed, cache, promised, mixed>>

Refused(p) ==
  /\ At(p, "locking")
  /\ Refuse(p)
  /\ GoTo(p, "waiting")
  /\ UNCHANGED <<installed, cache, promised, mixed>>

(* The database stays locked: the operation fails, the block of a 429 with *)
(* it.                                                                     *)
DatabaseBusy(p) ==
  /\ At(p, "locking") \/ At(p, "blocking")
  /\ read[p] = BusyTimeout
  /\ Stop(p)
  /\ Forget(p)
  /\ UNCHANGED <<installed, cache, promised, mixed>>

(***************************************************************************)
(* The network                                                             *)
(***************************************************************************)

(* Mutant: a 5xx is retried whatever the number of the attempt. *)
RetryAgain(p) ==
  /\ At(p, "sending")
  /\ client' = [client EXCEPT ![p].pc = "waiting", ![p].attempt = @ + 1]
  /\ Alone

(* A transport error or a 5xx before the last attempt. *)
Retry(p) ==
  /\ At(p, "sending")
  /\ client[p].attempt < MaxRetries
  /\ client' = [client EXCEPT ![p].pc = "waiting", ![p].attempt = @ + 1]
  /\ Alone

(* The last attempt, any other status, or an answer that does not          *)
(* normalize.                                                              *)
GiveUp(p) ==
  /\ At(p, "sending")
  /\ Stop(p)
  /\ Alone

(* A 429: block reads the clock ... *)
RateLimited(p) ==
  /\ At(p, "sending")
  /\ ReadClock(p)
  /\ GoTo(p, "blocking")
  /\ UNCHANGED <<installed, cache, promised, mixed>>

(* ... writes the row, and get raises: a 429 is not retried. *)
BlockBucket(p) ==
  /\ At(p, "blocking")
  /\ \E delay \in Delays :
       /\ Block(p, delay)
       /\ promised' = Greatest({promised, delay - read[p]})
  /\ Stop(p)
  /\ UNCHANGED <<installed, cache, mixed>>

(* put_cache: the whole row is replaced. *)
Answered(p) ==
  /\ At(p, "sending")
  /\ cache' = {Put(client[p].schema)}
  /\ Stop(p)
  /\ UNCHANGED <<limits, installed, promised, mixed>>

(***************************************************************************)
(* Processes and time                                                      *)
(***************************************************************************)

(* The process is killed or interrupted: its cache and limiter rows stay.  *)
Die(p) ==
  /\ ~At(p, "idle")
  /\ Stop(p)
  /\ Forget(p)
  /\ UNCHANGED <<installed, cache, promised, mixed>>

(* A newer release is installed; processes that run keep their version.    *)
Install ==
  /\ installed' \in {v \in Versions : v > installed}
  /\ UNCHANGED <<limits, cache, client, promised, mixed>>

Older(age) == IF age < TTL THEN age + 1 ELSE TTL

(* The processes that have read the clock and wait for the database. *)
Locking == {p \in Processes : At(p, "locking") \/ At(p, "blocking")}

(* Time passes for everybody; nobody waits for the database longer than    *)
(* the busy timeout.                                                       *)
Tick ==
  /\ \A p \in Locking : read[p] < BusyTimeout
  /\ LimiterTick(Locking)
  /\ promised' = Greatest({0, promised - 1})
  /\ cache' = {[row EXCEPT !.age = Older(@), !.source = Older(@)] : row \in cache}
  /\ client' = [p \in Processes |->
                  IF At(p, "migrating") THEN [client[p] EXCEPT !.held = Older(@)] ELSE client[p]]
  /\ UNCHANGED <<installed, mixed>>

Next ==
  \/ Tick
  \/ Install
  \/ \E p \in Processes :
       \/ Get(p) \/ Rewrite(p) \/ MigrationFails(p)
       \/ OpenReservation(p) \/ Allowed(p) \/ Refused(p) \/ DatabaseBusy(p)
       \/ Retry(p) \/ GiveUp(p) \/ RateLimited(p) \/ BlockBucket(p) \/ Answered(p) \/ Die(p)

(* A process that waits for the bucket keeps trying, and time goes on.     *)
(* Nothing is assumed of the network, of other releases or of death.       *)
Fairness ==
  /\ WF_vars(Tick)
  /\ \A p \in Processes : WF_vars(OpenReservation(p) \/ Allowed(p) \/ Refused(p) \/ DatabaseBusy(p))

Spec == Init /\ [][Next]_vars /\ Fairness

(***************************************************************************)
(* Properties                                                              *)
(***************************************************************************)

(* The types of the limiter, the cache row and the calls; a process waits   *)
(* for the database no longer than the busy timeout, and an attempt is     *)
(* made at most MaxRetries times again.                                    *)
TypeOK ==
  /\ LimiterTypeOK
  /\ installed \in Versions
  /\ cache \subseteq Rows
  /\ client \in [Processes -> [pc : Steps, mode : Modes, schema : Versions,
                               attempt : 0..MaxRetries, held : Age]]
  /\ promised \in Nat /\ mixed \in BOOLEAN

(* A row is never younger than the answer its candidates come from, so no  *)
(* candidate outlives its TTL in the cache: true until a migration, which  *)
(* reads the row, normalizes it and rewrites it in three steps, puts the   *)
(* candidates of an older answer over the row of a newer one.              *)
RowTellsItsAge == mixed \/ \A row \in cache : row.source <= row.age

(* No process is given a reservation while a Retry-After that was recorded *)
(* runs, however old its clock reading and whatever 429s were recorded     *)
(* since.                                                                  *)
BlockRespected ==
  [][\A p \in Processes : At(p, "locking") /\ At(p, "sending")' => promised = 0]_vars

Waiting(p) == At(p, "waiting") \/ At(p, "locking")

Sending == \E p \in Processes : At(p, "sending")

(* The bucket never stands still: while a process waits for it, a request  *)
(* is let through, its own or another one, or the process gives up.        *)
NoStandstill == \A p \in Processes : Waiting(p) ~> (Sending \/ ~Waiting(p))
=============================================================================
