------------------------ MODULE ProviderClientProofs ------------------------
(***************************************************************************)
(* The rate limiter and the cached client for any number of processes, any *)
(* policy and any delays: what the policy promises the provider holds      *)
(* whatever process reserves with however old a clock reading, and a       *)
(* recorded Retry-After is respected.                                      *)
(***************************************************************************)
EXTENDS ProviderClient, FiniteSetTheorems, WellFoundedInduction, SequenceTheorems, TLAPS

-----------------------------------------------------------------------------
(* The greatest element of a set.                                          *)

LEMMA GreatestOf ==
  ASSUME NEW S \in SUBSET Int, S # {}, NEW b \in Int, \A x \in S : x <= b
  PROVE  Greatest(S) \in S /\ \A y \in S : y <= Greatest(S)
<1> DEFINE D == {d \in Nat : b - d \in S}
<1>1. D # {}
  <2>1. PICK x \in S : TRUE
    OBVIOUS
  <2>2. b - x \in Nat /\ b - (b - x) = x
    BY <2>1
  <2> QED
    BY <2>1, <2>2
<1>2. PICK d \in D : \A e \in D : d <= e
  <2> DEFINE Below == {ss \in Nat \X Nat : ss[1] < ss[2]}
  <2>1. IsWellFoundedOn(Below, Nat)
    BY NatLessThanWellFounded, Zenon DEF OpToRel
  <2>2. D \subseteq Nat
    OBVIOUS
  <2>3. PICK d \in D : \A e \in D : ~(<<e, d>> \in Below)
    <3> HIDE DEF D, Below
    <3> QED
      BY <1>1, <2>1, <2>2, WFMin
  <2>4. ASSUME NEW e \in D PROVE d <= e
    <3>1. d \in Nat /\ e \in Nat
      BY <2>2
    <3>2. ~(e < d)
      BY <2>3, <2>4, <3>1
    <3> QED
      BY <3>1, <3>2
  <2> QED
    BY <2>4
<1>3. \A y \in S : y <= b - d
  <2>1. \A y \in S : b - y \in Nat /\ b - (b - y) = y
    OBVIOUS
  <2>2. \A y \in S : b - y \in D
    BY <2>1
  <2>3. d \in Nat
    OBVIOUS
  <2> HIDE DEF D
  <2> QED
    BY <1>2, <2>2, <2>3
<1>4. \E x \in S : \A y \in S : y <= x
  BY <1>2, <1>3
<1> QED
  BY <1>4 DEF Greatest

(* Of two, and of a block that another process may have set.               *)
LEMMA GreatestOfTwo ==
  ASSUME NEW a \in Int, NEW b \in Int
  PROVE  Greatest({a, b}) \in {a, b} /\ Greatest({a, b}) >= a /\ Greatest({a, b}) >= b
<1>1. \A x \in {a, b} : x <= (IF a <= b THEN b ELSE a)
  OBVIOUS
<1> HIDE DEF Greatest
<1>2. Greatest({a, b}) \in {a, b} /\ \A y \in {a, b} : y <= Greatest({a, b})
  <2>1. {a, b} \in SUBSET Int /\ {a, b} # {} /\ (IF a <= b THEN b ELSE a) \in Int
    OBVIOUS
  <2> QED
    BY <1>1, <2>1, GreatestOf
<1> QED
  BY <1>2

-----------------------------------------------------------------------------
(* The reservations: the oldest come first.                                *)

Sorted == \A i, j \in DOMAIN ages : i < j => ages[i] >= ages[j]

Reservations == LimiterTypeOK /\ Sorted

LEMMA AgesType ==
  ASSUME LimiterTypeOK
  PROVE  /\ Len(ages) \in Nat /\ DOMAIN ages = 1..Len(ages)
         /\ Horizon \in Nat /\ Horizon = Window + BusyTimeout /\ Window >= 1
         /\ \A i \in 1..Len(ages) : ages[i] \in 0..(Horizon - 1)
  BY RateLimiterAssumption DEF LimiterTypeOK, Horizon

(* A set of positions has no more elements than the sequence, and at least *)
(* those of any range of positions within it.                              *)
LEMMA Positions ==
  ASSUME LimiterTypeOK, NEW P \in SUBSET DOMAIN ages
  PROVE  /\ IsFiniteSet(P) /\ Cardinality(P) \in 0..Len(ages)
         /\ \A i \in 1..Len(ages), j \in 1..Len(ages) :
              i <= j /\ i..j \subseteq P => Cardinality(P) >= j - i + 1
<1>1. /\ IsFiniteSet(1..Len(ages)) /\ Cardinality(1..Len(ages)) = Len(ages)
      /\ P \in SUBSET (1..Len(ages)) /\ Len(ages) \in Nat
  <2>1. Len(ages) \in Nat /\ DOMAIN ages = 1..Len(ages)
    BY AgesType
  <2> QED
    BY <2>1, FS_Interval
<1>2. IsFiniteSet(P) /\ Cardinality(P) <= Len(ages)
  BY <1>1, FS_Subset
<1>3. Cardinality(P) \in Nat
  BY <1>2, FS_CardinalityType
<1>4. ASSUME NEW i \in 1..Len(ages), NEW j \in 1..Len(ages), i <= j, i..j \subseteq P
      PROVE  Cardinality(P) >= j - i + 1
  <2>1. i \in Int /\ j \in Int
    BY <1>1
  <2>2. IsFiniteSet(i..j) /\ Cardinality(i..j) = j - i + 1
    BY <1>4, <2>1, FS_Interval
  <2>3. Cardinality(i..j) <= Cardinality(P)
    BY <1>2, <1>4, FS_Subset
  <2> QED
    BY <1>3, <2>1, <2>2, <2>3
<1> QED
  BY <1>1, <1>2, <1>3, <1>4

(* What the wait computed by reserve is made of. *)
Timestamps(now) == {ages[i] : i \in InWindow(now)}

Waits(now) ==
  {0, blocked + now}
    \cup {Interval - a + now : a \in Timestamps(now)}
    \cup (IF Cardinality(InWindow(now)) >= MaxRequests
            THEN {Window - Greatest(Timestamps(now)) + now} ELSE {})

LEMMA OldestInWindow ==
  ASSUME LimiterTypeOK, NEW now \in 0..BusyTimeout,
         Cardinality(InWindow(now)) >= MaxRequests
  PROVE  /\ Greatest(Timestamps(now)) \in Timestamps(now)
         /\ Greatest(Timestamps(now)) \in 0..(now + Window - 1)
<1>1. Timestamps(now) \subseteq 0..(now + Window - 1) /\ now + Window - 1 \in Int
  BY AgesType, RateLimiterAssumption DEF Timestamps, InWindow
<1>2. InWindow(now) # {}
  <2>1. Cardinality({}) = 0 /\ MaxRequests >= 1
    BY FS_EmptySet, RateLimiterAssumption
  <2> QED
    BY <2>1, RateLimiterAssumption
<1>3. Timestamps(now) # {}
  BY <1>2 DEF Timestamps
<1>4. Timestamps(now) \in SUBSET Int /\ \A x \in Timestamps(now) : x <= now + Window - 1
  BY <1>1
<1>5. Greatest(Timestamps(now)) \in Timestamps(now)
  BY <1>1, <1>3, <1>4, GreatestOf
<1> QED
  BY <1>1, <1>5

LEMMA WaitOfAll ==
  ASSUME LimiterTypeOK, NEW now \in 0..BusyTimeout
  PROVE  Wait(now) \in Nat /\ \A w \in Waits(now) : w <= Wait(now)
<1> DEFINE b == (IF blocked + now > 0 THEN blocked + now ELSE 0) + Interval + Window + now
<1>1. /\ Waits(now) \subseteq Int /\ 0 \in Waits(now) /\ b \in Int
      /\ \A w \in Waits(now) : w <= b
  <2>1. /\ blocked \in Int /\ now \in Nat /\ Interval \in Nat /\ Window \in Nat
        /\ Timestamps(now) \subseteq Nat
    BY AgesType, RateLimiterAssumption DEF LimiterTypeOK, Timestamps, InWindow
  <2>2. Cardinality(InWindow(now)) >= MaxRequests => Greatest(Timestamps(now)) \in Nat
    BY OldestInWindow
  <2>3. \A a \in Timestamps(now) : Interval - a + now \in Int /\ Interval - a + now <= b
    BY <2>1
  <2>4. Cardinality(InWindow(now)) >= MaxRequests =>
          /\ Window - Greatest(Timestamps(now)) + now \in Int
          /\ Window - Greatest(Timestamps(now)) + now <= b
    BY <2>1, <2>2
  <2>5. b \in Int /\ 0 <= b /\ blocked + now <= b /\ blocked + now \in Int
    BY <2>1
  <2> HIDE DEF b
  <2> QED
    BY <2>3, <2>4, <2>5 DEF Waits
<1> HIDE DEF b
<1>2. Greatest(Waits(now)) \in Waits(now) /\ \A w \in Waits(now) : w <= Greatest(Waits(now))
  BY <1>1, GreatestOf
<1>3. Wait(now) = Greatest(Waits(now))
  BY DEF Wait, Waits, Timestamps
<1> QED
  BY <1>1, <1>2, <1>3

(* A reservation that need not wait: no block runs, the interval since     *)
(* every reservation in the window is over, and the window is not full.    *)
LEMMA NoWait ==
  ASSUME LimiterTypeOK, NEW now \in 0..BusyTimeout, Wait(now) = 0
  PROVE  /\ blocked + now <= 0
         /\ \A i \in InWindow(now) : ages[i] >= now + Interval
         /\ Cardinality(InWindow(now)) < MaxRequests
<1>1. \A w \in Waits(now) : w <= 0
  BY WaitOfAll
<1>2. blocked + now <= 0
  BY <1>1 DEF Waits
<1>3. \A a \in Timestamps(now) : Interval - a + now <= 0
  BY <1>1 DEF Waits
<1>4. \A i \in InWindow(now) : ages[i] >= now + Interval
  <2>1. \A i \in InWindow(now) : ages[i] \in Nat /\ ages[i] \in Timestamps(now)
    BY AgesType DEF InWindow, Timestamps
  <2> QED
    BY <1>3, <2>1, RateLimiterAssumption
<1>5. ~(Cardinality(InWindow(now)) >= MaxRequests)
  <2>1. SUFFICES ASSUME Cardinality(InWindow(now)) >= MaxRequests PROVE FALSE
    OBVIOUS
  <2>2. Window - Greatest(Timestamps(now)) + now <= 0
    BY <1>1, <2>1 DEF Waits
  <2>3. Greatest(Timestamps(now)) \in 0..(now + Window - 1)
    BY <2>1, OldestInWindow
  <2> QED
    BY <2>2, <2>3, RateLimiterAssumption
<1>6. Cardinality(InWindow(now)) \in Nat
  BY Positions DEF InWindow
<1> QED
  BY <1>2, <1>4, <1>5, <1>6, RateLimiterAssumption

-----------------------------------------------------------------------------
(* The steps of the limiter.                                               *)

(* A reservation is younger than every other one. *)
LEMMA ReserveYoungest ==
  ASSUME Reservations, NEW p \in Processes, Reserve(p)
  PROVE  /\ read[p] \in 0..BusyTimeout /\ ages' = Append(ages, read[p])
         /\ Len(ages') = Len(ages) + 1 /\ ages'[Len(ages) + 1] = read[p]
         /\ \A i \in 1..Len(ages) : ages'[i] = ages[i] /\ ages[i] >= read[p]
<1>1. read[p] \in 0..BusyTimeout
  BY DEF Reservations, LimiterTypeOK
<1>2. ages \in Seq(0..(Horizon - 1)) /\ read[p] \in 0..(Horizon - 1)
  BY <1>1, AgesType, RateLimiterAssumption DEF Reservations, LimiterTypeOK
<1>3. \A i \in 1..Len(ages) : ages[i] >= read[p]
  <2>1. \A i \in InWindow(read[p]) : ages[i] >= read[p] + Interval
    BY <1>1, NoWait DEF Reservations, Reserve
  <2>2. ASSUME NEW i \in 1..Len(ages) PROVE ages[i] >= read[p]
    <3>1. ages[i] \in Nat /\ (i \in InWindow(read[p]) \/ ages[i] >= read[p] + Window)
      BY <1>1, AgesType, RateLimiterAssumption DEF InWindow, Reservations
    <3> QED
      BY <1>1, <2>1, <3>1, RateLimiterAssumption
  <2> QED
    BY <2>2
<1> QED
  BY <1>1, <1>2, <1>3, AppendProperties DEF Reserve

LEMMA ReserveTypes ==
  ASSUME Reservations, NEW p \in Processes, Reserve(p)
  PROVE  Reservations'
<1>1. LimiterTypeOK'
  <2>1. read[p] \in 0..(Horizon - 1) /\ ages \in Seq(0..(Horizon - 1))
    BY ReserveYoungest, AgesType, RateLimiterAssumption DEF Reservations, LimiterTypeOK
  <2>2. ages' \in Seq(0..(Horizon - 1))
    BY <2>1, AppendProperties DEF Reserve
  <2>3. read' \in [Processes -> 0..BusyTimeout]
    BY RateLimiterAssumption DEF Reserve, Reservations, LimiterTypeOK
  <2> QED
    BY <2>2, <2>3 DEF Reserve, Reservations, LimiterTypeOK, Horizon
<1>2. Sorted'
  <2>1. Len(ages) \in Nat /\ DOMAIN ages = 1..Len(ages) /\ DOMAIN ages' = 1..(Len(ages) + 1)
    BY <1>1, ReserveYoungest, AgesType, LenProperties DEF Reservations, LimiterTypeOK
  <2>2. ASSUME NEW i \in 1..(Len(ages) + 1), NEW j \in 1..(Len(ages) + 1), i < j
        PROVE  ages'[i] >= ages'[j]
    <3>1. CASE j = Len(ages) + 1
      BY <2>1, <2>2, <3>1, ReserveYoungest
    <3>2. CASE j # Len(ages) + 1
      BY <2>1, <2>2, <3>2, ReserveYoungest DEF Reservations, Sorted
    <3> QED
      BY <3>1, <3>2
  <2> QED
    BY <2>1, <2>2 DEF Sorted
<1> QED
  BY <1>1, <1>2 DEF Reservations

(* The reservations that a tick drops are the first ones. *)
LEMMA ExpiredFirst ==
  ASSUME Reservations
  PROVE  /\ Cardinality(Expired) \in 0..Len(ages)
         /\ \A i \in 1..Len(ages) : i > Cardinality(Expired) => i \notin Expired
<1>1. Expired \in SUBSET DOMAIN ages
  BY DEF Expired
<1>2. LimiterTypeOK /\ Len(ages) \in Nat /\ DOMAIN ages = 1..Len(ages)
  BY AgesType DEF Reservations
<1>3. ASSUME NEW i \in 1..Len(ages), i \in Expired PROVE i <= Cardinality(Expired)
  <2>1. 1..i \subseteq Expired
    <3>1. ASSUME NEW j \in 1..i PROVE j \in Expired
      <4>1. j \in 1..Len(ages) /\ (j = i \/ j < i)
        BY <1>2, <1>3
      <4>2. ages[j] \in Nat /\ ages[i] \in Nat /\ ages[j] >= ages[i]
        BY <1>2, <1>3, <4>1, AgesType DEF Reservations, Sorted
      <4> QED
        BY <1>2, <1>3, <4>1, <4>2, AgesType DEF Expired
    <3> QED
      BY <3>1
  <2>2. 1 \in 1..Len(ages) /\ 1 <= i
    BY <1>2
  <2>3. Cardinality(Expired) >= i - 1 + 1
    BY <1>1, <1>2, <1>3, <2>1, <2>2, Positions
  <2>4. Cardinality(Expired) \in Nat
    BY <1>1, <1>2, Positions
  <2> QED
    BY <1>2, <2>3, <2>4
<1> QED
  BY <1>1, <1>2, <1>3, Positions

(* What a tick leaves of the reservations. *)
LEMMA TickAges ==
  ASSUME Reservations, NEW locking, LimiterTick(locking)
  PROVE  LET gone == Cardinality(Expired)
         IN  /\ gone \in 0..Len(ages) /\ Len(ages') = Len(ages) - gone
             /\ ages' \in Seq(0..(Horizon - 1))
             /\ \A i \in 1..(Len(ages) - gone) :
                  i + gone \in 1..Len(ages) /\ ages'[i] = ages[i + gone] + 1
<1> DEFINE gone == Cardinality(Expired)
<1>1. gone \in 0..Len(ages) /\ Len(ages) \in Nat /\ DOMAIN ages = 1..Len(ages) /\ Horizon \in Nat
  BY ExpiredFirst, AgesType DEF Reservations
<1>2. ages' = [i \in 1..(Len(ages) - gone) |-> ages[i + gone] + 1]
  BY DEF LimiterTick
<1>3. \A i \in 1..(Len(ages) - gone) :
        i + gone \in 1..Len(ages) /\ ages[i + gone] + 1 \in 0..(Horizon - 1)
  <2>1. ASSUME NEW i \in 1..(Len(ages) - gone)
        PROVE  i + gone \in 1..Len(ages) /\ ages[i + gone] + 1 \in 0..(Horizon - 1)
    <3>1. i + gone \in 1..Len(ages) /\ i + gone > gone
      BY <1>1
    <3>2. i + gone \notin Expired
      BY <3>1, ExpiredFirst
    <3>3. ages[i + gone] \in Nat
      BY <3>1, AgesType DEF Reservations
    <3> QED
      BY <1>1, <3>1, <3>2, <3>3 DEF Expired
  <2> QED
    BY <2>1
<1> HIDE DEF gone
<1>4. Len(ages) - gone \in Nat
  BY <1>1
<1>5. ages' \in [1..(Len(ages) - gone) -> 0..(Horizon - 1)]
  BY <1>2, <1>3
<1>6. ages' \in Seq(0..(Horizon - 1))
  BY <1>4, <1>5, SeqDef
<1>7. Len(ages') = Len(ages) - gone
  <2>1. Len(ages') \in Nat /\ DOMAIN ages' = 1..Len(ages')
    BY <1>6, LenProperties
  <2> QED
    BY <1>4, <1>5, <2>1
<1> QED
  BY <1>1, <1>2, <1>3, <1>6, <1>7 DEF gone

LEMMA TickTypes ==
  ASSUME Reservations, NEW locking \in SUBSET Processes, LimiterTick(locking),
         \A p \in locking : read[p] < BusyTimeout
  PROVE  Reservations'
<1>1. blocked' \in Int /\ blocked' >= -BusyTimeout
  <2>1. blocked - 1 \in Int /\ -BusyTimeout \in Int
    BY RateLimiterAssumption DEF Reservations, LimiterTypeOK
  <2>2. blocked' = Greatest({blocked - 1, -BusyTimeout})
    BY DEF LimiterTick
  <2>3. blocked' \in {blocked - 1, -BusyTimeout} /\ blocked' >= -BusyTimeout
    BY <2>1, <2>2, GreatestOfTwo
  <2> QED
    BY <2>1, <2>3
<1>2. read' \in [Processes -> 0..BusyTimeout] /\ sleep' \in [Processes -> Nat]
  BY RateLimiterAssumption DEF Reservations, LimiterTypeOK, LimiterTick
<1>3. Sorted'
  <2> DEFINE gone == Cardinality(Expired)
  <2>1. /\ gone \in Nat /\ Len(ages) \in Nat /\ DOMAIN ages = 1..Len(ages)
        /\ DOMAIN ages' = 1..(Len(ages) - gone)
        /\ \A i \in 1..(Len(ages) - gone) :
             i + gone \in 1..Len(ages) /\ ages'[i] = ages[i + gone] + 1
    BY TickAges, AgesType, LenProperties DEF Reservations
  <2> HIDE DEF gone
  <2>2. ASSUME NEW i \in 1..(Len(ages) - gone), NEW j \in 1..(Len(ages) - gone), i < j
        PROVE  ages'[i] >= ages'[j]
    <3>1. i + gone \in DOMAIN ages /\ j + gone \in DOMAIN ages /\ i + gone < j + gone
      BY <2>1, <2>2
    <3>2. ages[i + gone] >= ages[j + gone]
      BY <3>1 DEF Reservations, Sorted
    <3>3. ages[i + gone] \in Nat /\ ages[j + gone] \in Nat
      BY <2>1, <3>1, AgesType DEF Reservations
    <3> QED
      BY <2>1, <3>2, <3>3
  <2> QED
    BY <2>1, <2>2 DEF Sorted
<1> QED
  BY <1>1, <1>2, <1>3, TickAges DEF Reservations, LimiterTypeOK, Horizon

(* The steps that leave the reservations alone. *)
LEMMA OtherTypes ==
  ASSUME Reservations, NEW p \in Processes,
         \/ ReadClock(p) \/ Refuse(p) \/ Forget(p)
         \/ \E delay \in Delays : Block(p, delay)
         \/ UNCHANGED limits
  PROVE  Reservations' /\ UNCHANGED ages
<1>1. UNCHANGED ages
  BY DEF ReadClock, Refuse, Forget, Block, limits
<1>2. read' \in [Processes -> 0..BusyTimeout]
  <2>1. 0 \in 0..BusyTimeout /\ read \in [Processes -> 0..BusyTimeout]
    BY RateLimiterAssumption DEF Reservations, LimiterTypeOK
  <2>2. UNCHANGED read \/ read' = [read EXCEPT ![p] = 0]
    BY DEF ReadClock, Refuse, Forget, Block, limits
  <2> QED
    BY <2>1, <2>2
<1>3. blocked' \in Int /\ blocked' >= -BusyTimeout
  <2>1. ASSUME NEW delay \in Delays, Block(p, delay)
        PROVE  blocked' \in Int /\ blocked' >= -BusyTimeout
    <3>1. delay - read[p] \in Int /\ blocked \in Int /\ blocked >= -BusyTimeout
      BY RateLimiterAssumption DEF Reservations, LimiterTypeOK
    <3>2. blocked' = Greatest({blocked, delay - read[p]})
      BY <2>1 DEF Block
    <3>3. blocked' \in {blocked, delay - read[p]} /\ blocked' >= blocked
      BY <3>1, <3>2, GreatestOfTwo
    <3> QED
      BY <3>1, <3>3, RateLimiterAssumption
  <2> QED
    BY <2>1 DEF ReadClock, Refuse, Forget, limits, Reservations, LimiterTypeOK
<1>4. sleep' \in [Processes -> Nat]
  <2>1. Wait(read[p]) \in Nat
    BY WaitOfAll DEF Reservations, LimiterTypeOK
  <2>2. UNCHANGED sleep \/ \E n \in Nat : sleep' = [sleep EXCEPT ![p] = n]
    BY <2>1 DEF ReadClock, Refuse, Forget, Block, limits
  <2> QED
    BY <2>2 DEF Reservations, LimiterTypeOK
<1> QED
  BY <1>1, <1>2, <1>3, <1>4 DEF Reservations, LimiterTypeOK, Sorted, Horizon

-----------------------------------------------------------------------------
(* The policy, for every pair of reservations and not only for neighbours: *)
(* the interval lies between any two, and the window between any two that  *)
(* are max_requests apart.                                                 *)

Spaced == \A i, j \in DOMAIN ages : i < j => ages[i] >= ages[j] + Interval

NeverFull ==
  \A i, j \in DOMAIN ages : j = i + MaxRequests => ages[i] >= ages[j] + Window

Policy == Spaced /\ NeverFull

LEMMA PolicyIsKept ==
  ASSUME Reservations, Policy
  PROVE  PolicyKept
<1>1. Len(ages) \in Nat /\ DOMAIN ages = 1..Len(ages) /\ MaxRequests \in Nat \ {0}
  BY AgesType, RateLimiterAssumption DEF Reservations
<1>2. \A i \in 1..(Len(ages) - 1) : i \in DOMAIN ages /\ i + 1 \in DOMAIN ages /\ i < i + 1
  BY <1>1
<1>3. \A i \in 1..(Len(ages) - MaxRequests) :
        i \in DOMAIN ages /\ i + MaxRequests \in DOMAIN ages
  BY <1>1
<1> QED
  BY <1>2, <1>3 DEF Policy, Spaced, NeverFull, PolicyKept

(* A reservation is granted only the interval after every earlier one. *)
LEMMA ReserveSpaced ==
  ASSUME Interval <= Window, Reservations, NEW p \in Processes, Reserve(p)
  PROVE  \A i \in 1..Len(ages) : ages[i] >= read[p] + Interval
<1>1. read[p] \in 0..BusyTimeout /\ LimiterTypeOK
  BY DEF Reservations, LimiterTypeOK
<1>2. \A i \in InWindow(read[p]) : ages[i] >= read[p] + Interval
  BY <1>1, NoWait DEF Reserve
<1>3. ASSUME NEW i \in 1..Len(ages) PROVE ages[i] >= read[p] + Interval
  <2>1. ages[i] \in Nat /\ (i \in InWindow(read[p]) \/ ages[i] >= read[p] + Window)
    BY <1>1, AgesType, RateLimiterAssumption DEF InWindow
  <2> QED
    BY <1>1, <1>2, <2>1, RateLimiterAssumption
<1> QED
  BY <1>3

(* The reservation max_requests before it has left the window. *)
LEMMA ReserveOverdue ==
  ASSUME Reservations, NEW p \in Processes, Reserve(p),
         NEW i \in 1..Len(ages), i + MaxRequests = Len(ages) + 1
  PROVE  ages[i] >= read[p] + Window
<1> DEFINE now == read[p]
<1>1. /\ now \in 0..BusyTimeout /\ LimiterTypeOK /\ Len(ages) \in Nat
      /\ DOMAIN ages = 1..Len(ages) /\ MaxRequests \in Nat \ {0} /\ Window \in Nat
  BY AgesType, RateLimiterAssumption DEF Reservations, LimiterTypeOK
<1>2. ages[i] \in Nat
  BY <1>1, AgesType
<1>3. Cardinality(InWindow(now)) < MaxRequests /\ Cardinality(InWindow(now)) \in Nat
  <2>1. InWindow(now) \in SUBSET DOMAIN ages
    BY DEF InWindow
  <2> QED
    BY <1>1, <2>1, NoWait, Positions DEF Reserve
<1>4. ASSUME ages[i] < now + Window PROVE FALSE
  <2>1. i..Len(ages) \subseteq InWindow(now)
    <3>1. ASSUME NEW k \in i..Len(ages) PROVE k \in InWindow(now)
      <4>1. k \in 1..Len(ages) /\ (k = i \/ i < k)
        BY <1>1
      <4>2. ages[k] \in Nat
        BY <1>1, <4>1, AgesType
      <4>3. ages[k] <= ages[i]
        BY <1>1, <1>2, <4>1, <4>2 DEF Reservations, Sorted
      <4> QED
        BY <1>1, <1>2, <1>4, <4>1, <4>2, <4>3 DEF InWindow
    <3> QED
      BY <3>1
  <2>2. i <= Len(ages) /\ Len(ages) \in 1..Len(ages)
    BY <1>1
  <2>3. Cardinality(InWindow(now)) >= Len(ages) - i + 1
    <3>1. InWindow(now) \in SUBSET DOMAIN ages
      BY DEF InWindow
    <3> QED
      BY <1>1, <2>1, <2>2, <3>1, Positions
  <2> QED
    BY <1>1, <1>3, <2>3
<1> QED
  BY <1>1, <1>2, <1>4

LEMMA ReservePolicy ==
  ASSUME Interval <= Window, Reservations, Reservations', Policy, NEW p \in Processes, Reserve(p)
  PROVE  Policy'
<1>1. /\ Len(ages) \in Nat /\ DOMAIN ages = 1..Len(ages)
      /\ DOMAIN ages' = 1..(Len(ages) + 1) /\ MaxRequests \in Nat \ {0}
      /\ ages'[Len(ages) + 1] = read[p]
      /\ \A i \in 1..Len(ages) : ages'[i] = ages[i]
  <2>1. ages' \in Seq(0..(Horizon - 1))
    BY DEF Reservations, LimiterTypeOK, Horizon
  <2> QED
    BY <2>1, LenProperties, ReserveYoungest, AgesType, RateLimiterAssumption DEF Reservations
<1>2. Spaced'
  <2>1. ASSUME NEW i \in 1..(Len(ages) + 1), NEW j \in 1..(Len(ages) + 1), i < j
        PROVE  ages'[i] >= ages'[j] + Interval
    <3>1. i \in 1..Len(ages) /\ (j = Len(ages) + 1 \/ j \in 1..Len(ages))
      BY <1>1, <2>1
    <3>2. CASE j = Len(ages) + 1
      BY <1>1, <3>1, <3>2, ReserveSpaced
    <3>3. CASE j \in 1..Len(ages)
      BY <1>1, <2>1, <3>1, <3>3 DEF Policy, Spaced
    <3> QED
      BY <3>1, <3>2, <3>3
  <2> QED
    BY <1>1, <2>1 DEF Spaced
<1>3. NeverFull'
  <2>1. ASSUME NEW i \in 1..(Len(ages) + 1), NEW j \in 1..(Len(ages) + 1), j = i + MaxRequests
        PROVE  ages'[i] >= ages'[j] + Window
    <3>1. i \in 1..Len(ages) /\ (j = Len(ages) + 1 \/ j \in 1..Len(ages))
      BY <1>1, <2>1
    <3>2. CASE j = Len(ages) + 1
      BY <1>1, <2>1, <3>1, <3>2, ReserveOverdue
    <3>3. CASE j \in 1..Len(ages)
      BY <1>1, <2>1, <3>1, <3>3 DEF Policy, NeverFull
    <3> QED
      BY <3>1, <3>2, <3>3
  <2> QED
    BY <1>1, <2>1 DEF NeverFull
<1> QED
  BY <1>2, <1>3 DEF Policy

(* Time keeps every distance. *)
LEMMA TickPolicy ==
  ASSUME Reservations, Policy, NEW locking, LimiterTick(locking)
  PROVE  Policy'
<1> DEFINE gone == Cardinality(Expired)
<1>1. /\ gone \in Nat /\ Len(ages) \in Nat /\ DOMAIN ages = 1..Len(ages)
      /\ DOMAIN ages' = 1..(Len(ages) - gone) /\ MaxRequests \in Nat
      /\ \A i \in 1..(Len(ages) - gone) :
           i + gone \in 1..Len(ages) /\ ages'[i] = ages[i + gone] + 1
      /\ \A i \in 1..Len(ages) : ages[i] \in Nat
      /\ Interval \in Nat /\ Window \in Nat
  BY TickAges, AgesType, LenProperties, RateLimiterAssumption DEF Reservations
<1> HIDE DEF gone
<1>2. ASSUME NEW i \in DOMAIN ages', NEW j \in DOMAIN ages', i < j
      PROVE  ages'[i] >= ages'[j] + Interval
  <2>1. /\ i + gone \in 1..Len(ages) /\ j + gone \in 1..Len(ages) /\ i + gone < j + gone
        /\ ages'[i] = ages[i + gone] + 1 /\ ages'[j] = ages[j + gone] + 1
    BY <1>1, <1>2
  <2>2. ages[i + gone] >= ages[j + gone] + Interval
    BY <1>1, <2>1 DEF Policy, Spaced
  <2>3. ages[i + gone] \in Nat /\ ages[j + gone] \in Nat
    BY <1>1, <2>1
  <2> QED
    BY <1>1, <2>1, <2>2, <2>3
<1>3. ASSUME NEW i \in DOMAIN ages', NEW j \in DOMAIN ages', j = i + MaxRequests
      PROVE  ages'[i] >= ages'[j] + Window
  <2>1. /\ i + gone \in 1..Len(ages) /\ j + gone \in 1..Len(ages)
        /\ ages'[i] = ages[i + gone] + 1 /\ ages'[j] = ages[j + gone] + 1
    BY <1>1
  <2>0. j + gone = i + gone + MaxRequests
    BY <1>1, <1>3
  <2>2. ages[i + gone] >= ages[j + gone] + Window
    BY <1>1, <2>0, <2>1 DEF Policy, NeverFull
  <2>3. ages[i + gone] \in Nat /\ ages[j + gone] \in Nat
    BY <1>1, <2>1
  <2> QED
    BY <1>1, <2>1, <2>2, <2>3
<1> QED
  BY <1>2, <1>3 DEF Policy, Spaced, NeverFull

-----------------------------------------------------------------------------
(* The client.                                                             *)

Clients ==
  [pc : Steps, mode : Modes, schema : Versions, attempt : 0..MaxRetries, held : Age]

ClientType ==
  /\ installed \in Versions
  /\ cache \subseteq Rows
  /\ client \in [Processes -> Clients]
  /\ promised \in Nat /\ mixed \in BOOLEAN

(* The block lasts as long as every Retry-After that was recorded. *)
Owed == promised > 0 => promised <= blocked

Typed == Reservations /\ ClientType

Kept == Owed /\ RowTellsItsAge

(* Getting older keeps an age an age, and the older of two the older. *)
LEMMA OlderAge ==
  /\ 0 \in Age
  /\ \A a \in Age : Older(a) \in Age
  /\ \A a, b \in Age : a <= b => Older(a) <= Older(b)
  BY ProviderClientAssumption DEF Age, Older

LEMMA IdleType == Idle \in Clients
<1>1. (CHOOSE v \in Versions : TRUE) \in Versions
  BY ProviderClientAssumption
<1>2. 0 \in 0..MaxRetries /\ 0 \in Age
  BY ProviderClientAssumption DEF Age
<1> QED
  BY <1>1, <1>2 DEF Idle, Clients, Steps, Modes

(* What a process does next, and only that of its call. *)
LEMMA GoToType ==
  ASSUME ClientType, NEW p \in Processes, NEW pc \in Steps, GoTo(p, pc)
  PROVE  client' \in [Processes -> Clients]
<1>1. client[p] \in Clients
  BY DEF ClientType
<1>2. [client[p] EXCEPT !.pc = pc] \in Clients
  BY <1>1 DEF Clients
<1> QED
  BY <1>2 DEF GoTo, ClientType

LEMMA StopType ==
  ASSUME ClientType, NEW p \in Processes, Stop(p)
  PROVE  client' \in [Processes -> Clients]
  BY IdleType DEF Stop, ClientType

(* The steps on the cache. *)
LEMMA CacheSteps ==
  ASSUME Typed, Kept, NEW p \in Processes,
         Get(p) \/ Rewrite(p) \/ MigrationFails(p) \/ Answered(p)
  PROVE  Typed' /\ Kept'
<1> USE DEF Typed
<1>c. client[p] \in Clients
  BY DEF ClientType
<1>r. Reservations' /\ UNCHANGED <<ages, blocked, promised, installed>>
  <2>1. UNCHANGED limits /\ UNCHANGED <<installed, promised>>
    BY DEF Get, Rewrite, MigrationFails, Answered, Alone
  <2> QED
    BY <2>1, OtherTypes DEF limits
<1>1. CASE Get(p)
  <2>1. ASSUME NEW mode \in Modes, NEW row \in cache,
               client' = [client EXCEPT ![p] = Call(mode, "migrating", row.age)]
        PROVE  client' \in [Processes -> Clients]
    <3>1. row.age \in Age /\ 0 \in 0..MaxRetries
      BY ProviderClientAssumption DEF ClientType, Rows
    <3>2. Call(mode, "migrating", row.age) \in Clients
      BY <3>1 DEF Call, Clients, Steps, ClientType
    <3> QED
      BY <2>1, <3>2 DEF ClientType
  <2>2. ASSUME NEW mode \in Modes, client' = [client EXCEPT ![p] = Call(mode, "waiting", 0)]
        PROVE  client' \in [Processes -> Clients]
    <3>1. 0 \in Age /\ 0 \in 0..MaxRetries
      BY ProviderClientAssumption, OlderAge
    <3>2. Call(mode, "waiting", 0) \in Clients
      BY <3>1 DEF Call, Clients, Steps, ClientType
    <3> QED
      BY <2>2, <3>2 DEF ClientType
  <2>3. client' \in [Processes -> Clients]
    BY <1>1, <2>1, <2>2 DEF Get, Hit, ReadOldSchema, Miss, Usable, ClientType
  <2> QED
    BY <1>1, <1>r, <2>3 DEF Get, Alone, ClientType, Kept, Owed, RowTellsItsAge
<1>2. CASE Rewrite(p)
  <2>1. cache' \subseteq Rows
    <3>1. ASSUME NEW row \in cache
          PROVE  [row EXCEPT !.schema = client[p].schema, !.source = client[p].held] \in Rows
      BY <1>c DEF ClientType, Rows, Clients
    <3> QED
      BY <1>2, <3>1 DEF Rewrite
  <2>2. RowTellsItsAge'
    <3>1. ASSUME ~mixed', NEW new \in cache' PROVE new.source <= new.age
      <4>1. PICK row \in cache :
              new = [row EXCEPT !.schema = client[p].schema, !.source = client[p].held]
        BY <1>2 DEF Rewrite
      <4>2. ~(row.age < client[p].held)
        BY <1>2, <3>1 DEF Rewrite
      <4>3. row \in Rows /\ row.age \in Int /\ client[p].held \in Int
        BY <1>c DEF ClientType, Rows, Clients, Age
      <4>4. new.source = client[p].held /\ new.age = row.age
        BY <4>1, <4>3 DEF Rows
      <4> QED
        BY <4>2, <4>3, <4>4
    <3> QED
      BY <3>1 DEF RowTellsItsAge
  <2>3. client' \in [Processes -> Clients]
    BY <1>2, StopType DEF Rewrite
  <2> QED
    BY <1>2, <1>r, <2>1, <2>2, <2>3 DEF Rewrite, ClientType, Kept, Owed
<1>3. CASE MigrationFails(p)
  <2>1. [client[p] EXCEPT !.pc = "waiting", !.held = 0] \in Clients
    BY <1>c, OlderAge DEF Clients, Steps
  <2>2. client' \in [Processes -> Clients]
    BY <1>3, <2>1, StopType DEF MigrationFails, ClientType
  <2> QED
    BY <1>3, <1>r, <2>2 DEF MigrationFails, Alone, ClientType, Kept, Owed, RowTellsItsAge
<1>4. CASE Answered(p)
  <2>1. Put(client[p].schema) \in Rows
    BY <1>c, OlderAge DEF Put, Rows, Clients
  <2>2. Put(client[p].schema).source = 0 /\ Put(client[p].schema).age = 0
    BY DEF Put
  <2>3. client' \in [Processes -> Clients]
    BY <1>4, StopType DEF Answered
  <2> QED
    BY <1>4, <1>r, <2>1, <2>2, <2>3 DEF Answered, ClientType, Kept, Owed, RowTellsItsAge
<1> QED
  BY <1>1, <1>2, <1>3, <1>4

(* The steps that leave the cache alone. *)
LEMMA CallSteps ==
  ASSUME Typed, Kept, NEW p \in Processes,
         \/ OpenReservation(p) \/ Allowed(p) \/ Refused(p) \/ DatabaseBusy(p)
         \/ Retry(p) \/ GiveUp(p) \/ RateLimited(p) \/ Die(p)
  PROVE  Typed' /\ Kept'
<1> USE DEF Typed
<1>1. UNCHANGED <<installed, cache, promised, mixed, blocked>>
  BY DEF OpenReservation, Allowed, Refused, DatabaseBusy, Retry, GiveUp, RateLimited, Die,
         Alone, limits, ReadClock, Reserve, Refuse, Forget
<1>2. Reservations'
  BY ReserveTypes, OtherTypes
     DEF OpenReservation, Allowed, Refused, DatabaseBusy, Retry, GiveUp, RateLimited, Die, Alone
<1>3. client' \in [Processes -> Clients]
  <2>1. CASE Retry(p)
    <3>1. client[p] \in Clients /\ client[p].attempt \in 0..MaxRetries
      BY DEF ClientType, Clients
    <3>2. client[p].attempt + 1 \in 0..MaxRetries
      BY <2>1, <3>1, ProviderClientAssumption DEF Retry
    <3>3. [client[p] EXCEPT !.pc = "waiting", !.attempt = @ + 1] \in Clients
      BY <3>1, <3>2 DEF Clients, Steps
    <3> QED
      BY <2>1, <3>3 DEF Retry, ClientType
  <2> QED
    BY <2>1, GoToType, StopType
       DEF OpenReservation, Allowed, Refused, DatabaseBusy, GiveUp, RateLimited, Die, Steps
<1> QED
  BY <1>1, <1>2, <1>3 DEF ClientType, Kept, Owed, RowTellsItsAge

(* A block is the longest of those recorded. *)
LEMMA BlockSteps ==
  ASSUME Typed, Kept, NEW p \in Processes, BlockBucket(p)
  PROVE  Typed' /\ Kept'
<1> USE DEF Typed
<1>1. PICK delay \in Delays :
        Block(p, delay) /\ promised' = Greatest({promised, delay - read[p]})
  BY DEF BlockBucket
<1>2. Reservations' /\ UNCHANGED ages
  BY <1>1, OtherTypes
<1>3. client' \in [Processes -> Clients] /\ UNCHANGED <<installed, cache, mixed>>
  BY StopType DEF BlockBucket
<1>4. promised \in Int /\ promised >= 0 /\ blocked \in Int /\ delay - read[p] \in Int
  BY RateLimiterAssumption DEF ClientType, Reservations, LimiterTypeOK
<1>5. /\ promised' \in {promised, delay - read[p]} /\ promised' >= promised
      /\ blocked' >= blocked /\ blocked' >= delay - read[p] /\ blocked' \in Int
  BY <1>1, <1>4, GreatestOfTwo DEF Block
<1>6. promised' \in Nat
  BY <1>4, <1>5
<1>7. Owed'
  BY <1>4, <1>5 DEF Kept, Owed
<1> QED
  BY <1>2, <1>3, <1>6, <1>7 DEF ClientType, Kept, RowTellsItsAge

LEMMA TimeSteps ==
  ASSUME Typed, Kept, Tick \/ Install
  PROVE  Typed' /\ Kept'
<1> USE DEF Typed
<1>1. CASE Tick
  <2>1. Reservations'
    BY <1>1, TickTypes DEF Tick, Locking
  <2>2. /\ promised \in Int /\ promised >= 0 /\ blocked \in Int
        /\ 0 \in Int /\ promised - 1 \in Int /\ blocked - 1 \in Int /\ -BusyTimeout \in Int
    BY RateLimiterAssumption DEF ClientType, Reservations, LimiterTypeOK
  <2>3. /\ promised' \in {0, promised - 1} /\ promised' >= 0
        /\ blocked' >= blocked - 1 /\ blocked' \in {blocked - 1, -BusyTimeout}
    BY <1>1, <2>2, GreatestOfTwo DEF Tick, LimiterTick
  <2>4. promised' \in Nat /\ Owed'
    BY <2>2, <2>3 DEF Kept, Owed
  <2>5. ASSUME NEW row \in cache
        PROVE  /\ [row EXCEPT !.age = Older(@), !.source = Older(@)] \in Rows
               /\ row.source <= row.age =>
                    [row EXCEPT !.age = Older(@), !.source = Older(@)].source
                      <= [row EXCEPT !.age = Older(@), !.source = Older(@)].age
    BY OlderAge DEF ClientType, Rows
  <2>6. cache' \subseteq Rows /\ RowTellsItsAge'
    BY <1>1, <2>5 DEF Tick, Kept, RowTellsItsAge
  <2>7. ASSUME NEW p \in Processes
        PROVE  [client[p] EXCEPT !.held = Older(@)] \in Clients /\ client[p] \in Clients
    BY OlderAge DEF ClientType, Clients
  <2>8. client' \in [Processes -> Clients]
    BY <1>1, <2>7 DEF Tick
  <2> QED
    BY <1>1, <2>1, <2>4, <2>6, <2>8 DEF Tick, ClientType, Kept
<1>2. CASE Install
  <2>1. Reservations' /\ UNCHANGED <<ages, blocked>>
    BY <1>2 DEF Install, limits, Reservations, LimiterTypeOK, Sorted, Horizon
  <2> QED
    BY <1>2, <2>1 DEF Install, ClientType, Kept, Owed, RowTellsItsAge
<1> QED
  BY <1>1, <1>2

LEMMA InitTyped == Init => Typed /\ Kept /\ Policy
<1> SUFFICES ASSUME Init PROVE Typed /\ Kept /\ Policy
  OBVIOUS
<1>1. ages = <<>> /\ Len(ages) = 0 /\ DOMAIN ages = {} /\ ages \in Seq(0..(Horizon - 1))
  BY DEF Init, LimiterInit
<1>2. Reservations /\ Policy
  BY <1>1, RateLimiterAssumption
     DEF Init, LimiterInit, Reservations, LimiterTypeOK, Sorted, Policy, Spaced, NeverFull
<1>3. client \in [Processes -> Clients]
  <2>1. client = [p \in Processes |-> Idle]
    BY DEF Init
  <2> QED
    BY <2>1, IdleType
<1>4. /\ installed \in Versions /\ cache = {} /\ promised = 0 /\ mixed = FALSE
  BY DEF Init
<1>5. ClientType
  BY <1>3, <1>4 DEF ClientType
<1>6. Kept
  BY <1>4 DEF Kept, Owed, RowTellsItsAge
<1> QED
  BY <1>2, <1>5, <1>6 DEF Typed

LEMMA NextTyped == Typed /\ Kept /\ [Next]_vars => Typed' /\ Kept'
<1> SUFFICES ASSUME Typed, Kept, [Next]_vars PROVE Typed' /\ Kept'
  OBVIOUS
<1>1. CASE UNCHANGED vars
  BY <1>1 DEF vars, limits, Typed, ClientType, Kept, Owed, RowTellsItsAge, Reservations,
              LimiterTypeOK, Sorted, Horizon
<1> QED
  BY <1>1, CacheSteps, CallSteps, BlockSteps, TimeSteps DEF Next

(* Only a granted reservation lets a request through. *)
LEMMA LetThrough ==
  ASSUME Typed, Next, NEW p \in Processes, At(p, "locking"), At(p, "sending")'
  PROVE  Allowed(p)
<1> USE DEF Typed
<1>1. client[p].pc = "locking" /\ client'[p].pc = "sending"
  BY DEF At
<1>2. ~Tick /\ ~Install
  <2>1. CASE Tick
    <3>1. client'[p] = client[p]
      BY <1>1, <2>1 DEF Tick, At
    <3> QED
      BY <1>1, <3>1
  <2>2. CASE Install
    BY <1>1, <2>2 DEF Install
  <2> QED
    BY <2>1, <2>2
<1>3. ASSUME NEW q \in Processes, q # p, NEW c, client' = [client EXCEPT ![q] = c]
      PROVE  FALSE
  BY <1>1, <1>3 DEF ClientType
<1>4. ASSUME NEW q \in Processes,
             \/ Get(q) \/ Rewrite(q) \/ MigrationFails(q)
             \/ OpenReservation(q) \/ Allowed(q) \/ Refused(q) \/ DatabaseBusy(q)
             \/ Retry(q) \/ GiveUp(q) \/ RateLimited(q) \/ BlockBucket(q) \/ Answered(q) \/ Die(q)
      PROVE  q = p
  <2>1. UNCHANGED client \/ \E c : client' = [client EXCEPT ![q] = c]
    BY <1>4 DEF Get, Hit, ReadOldSchema, Miss, Rewrite, MigrationFails, OpenReservation,
       Allowed, Refused, DatabaseBusy, Retry, GiveUp, RateLimited, BlockBucket, Answered,
       Die, GoTo, Stop
  <2> QED
    BY <1>1, <1>3, <2>1
<1>5. ~(\/ Get(p) \/ Rewrite(p) \/ MigrationFails(p) \/ OpenReservation(p)
        \/ Retry(p) \/ GiveUp(p) \/ RateLimited(p) \/ BlockBucket(p) \/ Answered(p))
  BY <1>1 DEF Get, Rewrite, MigrationFails, OpenReservation, Retry, GiveUp, RateLimited,
              BlockBucket, Answered, At
<1>6. ASSUME NEW pc, GoTo(p, pc) \/ (Stop(p) /\ pc = "idle")
      PROVE  client'[p].pc = pc
  BY <1>6 DEF GoTo, Stop, Idle, ClientType, Clients
<1>7. ~(Refused(p) \/ DatabaseBusy(p) \/ Die(p))
  BY <1>1, <1>6 DEF Refused, DatabaseBusy, Die
<1> QED
  BY <1>2, <1>4, <1>5, <1>7 DEF Next

(* The types of the limiter, the cache row and the calls, for any number   *)
(* of processes and any policy: no process waits for the database longer   *)
(* than the busy timeout, and no request is retried more than max_retries  *)
(* times.                                                                  *)
THEOREM TypeCorrect == Spec => []TypeOK
<1>1. Typed => TypeOK
  BY DEF Typed, Reservations, ClientType, Clients, TypeOK
<1> QED
  BY <1>1, InitTyped, NextTyped, PTL DEF Spec

(* As long as no migration has overwritten a newer answer, no row of the   *)
(* cache is younger than the answer its candidates come from.              *)
THEOREM RowsTellTheirAge == Spec => []RowTellsItsAge
<1>1. Kept => RowTellsItsAge
  BY DEF Kept
<1> QED
  BY <1>1, InitTyped, NextTyped, PTL DEF Spec

(* Whatever process reserves with however old a clock reading, and         *)
(* whatever others reserved since it was read: reservations are            *)
(* min_interval_seconds apart, and any max_requests + 1 of them span the   *)
(* whole window.  An interval longer than the window would not be kept,    *)
(* as reserve looks no further back than the window.                       *)
THEOREM PolicyHolds ==
  ASSUME Interval <= Window
  PROVE  Spec => []PolicyKept
<1>1. Typed /\ Kept /\ Policy /\ [Next]_vars => Policy'
  <2> SUFFICES ASSUME Typed, Kept, Policy, [Next]_vars PROVE Policy'
    OBVIOUS
  <2>1. CASE UNCHANGED ages
    BY <2>1 DEF Policy, Spaced, NeverFull
  <2>2. CASE Tick
    BY <2>2, TickPolicy DEF Tick, Typed
  <2>3. ASSUME NEW p \in Processes, Allowed(p) PROVE Policy'
    BY <2>3, NextTyped, ReservePolicy DEF Allowed, Typed
  <2> QED
    BY <2>1, <2>2, <2>3
       DEF Next, vars, limits, Alone, Install, Get, Rewrite, MigrationFails, OpenReservation,
           Refused, DatabaseBusy, Retry, GiveUp, RateLimited, BlockBucket, Answered, Die,
           ReadClock, Refuse, Forget, Block
<1>2. Typed /\ Policy => PolicyKept
  BY PolicyIsKept DEF Typed
<1> QED
  BY <1>1, <1>2, InitTyped, NextTyped, PTL DEF Spec

(* However old the clock reading a process reserves with, and whatever     *)
(* 429s were recorded since: no request is let through while a recorded    *)
(* Retry-After runs.                                                       *)
THEOREM BlocksRespected == Spec => BlockRespected
<1>1. Typed /\ Kept /\ [Next]_vars =>
        [\A p \in Processes : At(p, "locking") /\ At(p, "sending")' => promised = 0]_vars
  <2> SUFFICES ASSUME Typed, Kept, Next, NEW p \in Processes,
                      At(p, "locking"), At(p, "sending")'
               PROVE  promised = 0
    OBVIOUS
  <2>1. Allowed(p)
    BY LetThrough
  <2>2. blocked + read[p] <= 0 /\ read[p] \in Nat /\ blocked \in Int
    BY <2>1, NoWait DEF Allowed, Reserve, Typed, Reservations, LimiterTypeOK
  <2> QED
    BY <2>2 DEF Typed, ClientType, Kept, Owed
<1> QED
  BY <1>1, InitTyped, NextTyped, PTL DEF Spec, BlockRespected

=============================================================================
