---------------------------- MODULE RateLimiter ----------------------------
(***************************************************************************)
(* The durable rate limiter of one provider bucket, shared by processes    *)
(* through the state database (rate_limit.DurableRateLimiter).             *)
(*                                                                         *)
(* Time is relative: a reservation is its age, the block the time left of  *)
(* it, a clock reading the time since it was made, so that the state stays *)
(* finite while time goes on for ever.  The clock is read before BEGIN     *)
(* IMMEDIATE waits for the database, so the reading is old by up to the    *)
(* busy timeout when it is used.                                           *)
(***************************************************************************)
EXTENDS Integers, Sequences, FiniteSets

CONSTANTS
  Processes,    \* processes that use the bucket
  MaxRequests,  \* RatePolicy.max_requests
  Window,       \* RatePolicy.window_seconds
  Interval,     \* RatePolicy.min_interval_seconds
  BusyTimeout,  \* how long BEGIN IMMEDIATE waits before it raises
  Delays        \* what a Retry-After header can ask for

ASSUME RateLimiterAssumption ==
  /\ MaxRequests \in Nat \ {0} /\ Window \in Nat \ {0}
  /\ Interval \in Nat /\ BusyTimeout \in Nat /\ Delays \subseteq Nat

VARIABLES
  ages,      \* age of every reservation that can still matter, oldest first
  blocked,   \* time left until blocked_until, negative once it is over
  read,      \* how long ago each process read its clock
  sleep      \* how long each process still sleeps

limits == <<ages, blocked, read, sleep>>

Horizon == Window + BusyTimeout

Greatest(S) == CHOOSE x \in S : \A y \in S : y <= x

LimiterInit ==
  /\ ages = <<>>
  /\ blocked = -BusyTimeout
  /\ read = [p \in Processes |-> 0]
  /\ sleep = [p \in Processes |-> 0]

(* Mutant: only the reservations up to the clock reading are counted. *)
InWindowSoFar(now) == {i \in DOMAIN ages : now <= ages[i] /\ ages[i] < now + Window}

(* The rows of timestamps: the reservations later than now minus           *)
(* window_seconds, those other processes made after this one read its      *)
(* clock included.                                                         *)
InWindow(now) == {i \in DOMAIN ages : ages[i] < now + Window}

(* The longest of the three waits: the block, the interval since the last  *)
(* reservation (earlier ones ask for less), and the oldest one leaving the *)
(* full window.                                                            *)
Wait(now) ==
  LET timestamps == {ages[i] : i \in InWindow(now)}
  IN Greatest({0, blocked + now}
       \cup {Interval - a + now : a \in timestamps}
       \cup (IF Cardinality(InWindow(now)) >= MaxRequests
               THEN {Window - Greatest(timestamps) + now} ELSE {}))

(* now = self.clock() *)
ReadClock(p) ==
  /\ sleep[p] = 0
  /\ read' = [read EXCEPT ![p] = 0]
  /\ UNCHANGED <<ages, blocked, sleep>>

(* The transaction of reserve: the reservation carries the old reading.    *)
Reserve(p) ==
  /\ Wait(read[p]) = 0
  /\ ages' = Append(ages, read[p])
  /\ read' = [read EXCEPT ![p] = 0]
  /\ UNCHANGED <<blocked, sleep>>

(* Mutant: >= for >, so a reservation that need not wait may be refused. *)
RefuseAtZero(p) ==
  /\ Wait(read[p]) >= 0
  /\ sleep' = [sleep EXCEPT ![p] = Wait(read[p])]
  /\ read' = [read EXCEPT ![p] = 0]
  /\ UNCHANGED <<ages, blocked>>

(* wait_and_reserve: refused, sleep and try again. *)
Refuse(p) ==
  /\ Wait(read[p]) > 0
  /\ sleep' = [sleep EXCEPT ![p] = Wait(read[p])]
  /\ read' = [read EXCEPT ![p] = 0]
  /\ UNCHANGED <<ages, blocked>>

(* Mutant: the last 429 decides. *)
BlockAnew(p, delay) ==
  /\ blocked' = delay - read[p]
  /\ read' = [read EXCEPT ![p] = 0]
  /\ UNCHANGED <<ages, sleep>>

(* block: until = clock() + delay, read before the row is written; the row *)
(* keeps max(blocked_until, excluded.blocked_until).                       *)
Block(p, delay) ==
  /\ blocked' = Greatest({blocked, delay - read[p]})
  /\ read' = [read EXCEPT ![p] = 0]
  /\ UNCHANGED <<ages, sleep>>

(* A process that gives up or dies sleeps no more. *)
Forget(p) ==
  /\ read' = [read EXCEPT ![p] = 0]
  /\ sleep' = [sleep EXCEPT ![p] = 0]
  /\ UNCHANGED <<ages, blocked>>

(* The reservations too old to be in anybody's window from now on: being   *)
(* the oldest they come first.                                             *)
Expired == {i \in DOMAIN ages : ages[i] + 1 >= Horizon}

(* locking: the processes whose clock reading is in use. *)
LimiterTick(locking) ==
  /\ LET gone == Cardinality(Expired)
     IN ages' = [i \in 1..(Len(ages) - gone) |-> ages[i + gone] + 1]
  /\ blocked' = Greatest({blocked - 1, -BusyTimeout})
  /\ read' = [p \in Processes |-> IF p \in locking THEN read[p] + 1 ELSE read[p]]
  /\ sleep' = [p \in Processes |-> IF sleep[p] > 0 THEN sleep[p] - 1 ELSE 0]

LimiterTypeOK ==
  /\ ages \in Seq(0..(Horizon - 1))
  /\ blocked \in Int /\ blocked >= -BusyTimeout
  /\ read \in [Processes -> 0..BusyTimeout]
  /\ sleep \in [Processes -> Nat]

(* What the policy promises the provider, whatever process reserves with   *)
(* however old a clock reading: reservations are min_interval_seconds      *)
(* apart, and any max_requests + 1 of them span the whole window.          *)
PolicyKept ==
  /\ \A i \in 1..(Len(ages) - 1) : ages[i] >= ages[i + 1] + Interval
  /\ \A i \in 1..(Len(ages) - MaxRequests) : ages[i] >= ages[i + MaxRequests] + Window
=============================================================================
