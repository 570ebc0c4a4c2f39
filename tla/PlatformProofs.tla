---------------------------- MODULE PlatformProofs ----------------------------
(***************************************************************************)
(* The services beside the two workers, for any instance: the rate limiter,  *)
(* the dispatch lock, the event stream, the integrations of a tenant and the *)
(* sandboxes in use, each from an inductive invariant of its own; and the    *)
(* types of all of them together, because no step of the process touches     *)
(* more than one.                                                            *)
(***************************************************************************)
EXTENDS MCPlatform, SandboxProofs, SequenceTheorems

-----------------------------------------------------------------------------
(* The rate limiter.  A request that the script let through has a member of  *)
(* its instant in the sorted set for as long as it is in the window; so the   *)
(* instants are no more than the members, and those no more than the limit.  *)

RateFunctions ==
    DOMAIN entries = Keys /\ DOMAIN admitted = Keys /\ DOMAIN unjudged = Keys

AdmittedIsCounted ==
    \A key \in Keys : \A age \in admitted[key] : entries[key][age] > 0

CountWithin == \A key \in Keys : Count(key) <= Config(key[2]).max_requests

RateInv == RateLimiterTypeOK /\ RateFunctions /\ AdmittedIsCounted /\ CountWithin

\* A finite set is no larger than one it maps into without collisions.
LEMMA Injected ==
    ASSUME NEW S, NEW T, NEW f \in [S -> T], IsFiniteSet(S), IsFiniteSet(T),
           \A a, b \in S : f[a] = f[b] => a = b
    PROVE  Cardinality(S) <= Cardinality(T)
<1>1. ~(Cardinality(T) < Cardinality(S))
  BY FS_PigeonHole
<1>2. Cardinality(S) \in Nat /\ Cardinality(T) \in Nat
  BY FS_CardinalityType
<1> QED
  BY <1>1, <1>2

\* The numbers up to a number.
LEMMA UpTo ==
    ASSUME NEW n \in Nat
    PROVE  IsFiniteSet(1 .. n) /\ Cardinality(1 .. n) = n /\ IsFiniteSet(0 .. n - 1)
<1>1. 1 \in Int /\ 0 \in Int /\ n \in Int /\ n - 1 \in Int
  OBVIOUS
<1>2. IsFiniteSet(1 .. n) /\ Cardinality(1 .. n) = IF 1 > n THEN 0 ELSE n - 1 + 1
  BY <1>1, FS_Interval
<1>3. IsFiniteSet(0 .. n - 1)
  BY <1>1, FS_Interval
<1> QED
  BY <1>2, <1>3

\* Every bucket has a limit and a window.
LEMMA ConfigTypes ==
    ASSUME NEW bucket
    PROVE  Config(bucket) \in [max_requests : Nat, window : Nat \ {0}]
BY RateLimitsAssumption DEF Config, DefaultConfig, LimitedPrefixes

\* The sorted sets are finite.
LEMMA MembersFinite ==
    ASSUME NEW key, NEW M \in SUBSET (Ages(key) \X (1 .. Config(key[2]).max_requests))
    PROVE  IsFiniteSet(M)
<1> DEFINE limit == Config(key[2]).max_requests
           span == Config(key[2]).window
<1>1. limit \in Nat /\ span \in Nat \ {0}
  BY ConfigTypes
<1>2. IsFiniteSet(Ages(key)) /\ IsFiniteSet(1 .. limit)
  BY <1>1, UpTo DEF Ages
<1>3. IsFiniteSet(Ages(key) \X (1 .. limit))
  BY <1>2, FS_Product
<1> QED
  BY <1>3, FS_Subset

\* What is in one instant is at most what is in the window.
LEMMA OneInstant ==
    ASSUME NEW key \in Keys, NEW age \in Ages(key),
           entries[key] \in [Ages(key) -> 0 .. Config(key[2]).max_requests]
    PROVE  entries[key][age] <= Count(key)
<1> DEFINE limit == Config(key[2]).max_requests
           many == entries[key][age]
           f == [n \in 1 .. many |-> <<age, n>>]
<1>1. limit \in Nat /\ many \in 0 .. limit
  BY ConfigTypes
<1>2. f \in [1 .. many -> Members(key)]
  BY <1>1 DEF Members
<1>3. \A a, b \in 1 .. many : f[a] = f[b] => a = b
  OBVIOUS
<1> HIDE DEF f, many
<1>4. many \in Nat
  BY <1>1
<1>5. IsFiniteSet(1 .. many) /\ Cardinality(1 .. many) = many
  BY <1>4, UpTo
<1>6. IsFiniteSet(Members(key))
  BY MembersFinite DEF Members
<1>7. Cardinality(1 .. many) <= Cardinality(Members(key))
  BY <1>2, <1>3, <1>5, <1>6, Injected
<1> QED
  BY <1>5, <1>7 DEF Count, many

\* The limiter starts with nothing.
LEMMA RateInit == RateLimiterInit => RateInv
<1> SUFFICES ASSUME RateLimiterInit PROVE RateInv
  OBVIOUS
<1>1. ASSUME NEW key \in Keys
      PROVE  /\ Members(key) = {}
             /\ Config(key[2]).max_requests \in Nat /\ 0 \in 0 .. Config(key[2]).max_requests
  BY ConfigTypes DEF RateLimiterInit, NoEntries, Members
<1>2. ASSUME NEW key \in Keys PROVE Count(key) = 0
  BY <1>1, FS_EmptySet DEF Count
<1>3. RateLimiterTypeOK
  BY <1>1 DEF RateLimiterInit, RateLimiterTypeOK, NoEntries
<1>4. ASSUME NEW key \in Keys PROVE Count(key) <= Config(key[2]).max_requests
  BY <1>1, <1>2
<1> QED
  BY <1>3, <1>4 DEF RateLimiterInit, RateInv, RateFunctions, AdmittedIsCounted, CountWithin,
                          NoEntries

\* Time passes: what is a window old is gone, and the rest is as old as it is.
LEMMA PassRates == ASSUME RateInv, Pass PROVE RateInv'
<1>1. /\ entries' = [key \in Keys |-> [age \in Ages(key) |->
                        IF age = 0 THEN 0 ELSE entries[key][age - 1]]]
      /\ admitted' = Older(admitted) /\ unjudged' = Older(unjudged)
      /\ UNCHANGED <<redis, attached, scriptSha, scripts>>
  BY DEF Pass
<1>2. ASSUME NEW key \in Keys
      PROVE  /\ entries'[key] \in [Ages(key) -> 0 .. Config(key[2]).max_requests]
             /\ admitted'[key] \subseteq Ages(key) /\ unjudged'[key] \subseteq Ages(key)
             /\ \A age \in admitted'[key] : entries'[key][age] > 0
  <2>1. /\ entries[key] \in [Ages(key) -> 0 .. Config(key[2]).max_requests]
        /\ Config(key[2]).max_requests \in Nat /\ Config(key[2]).window \in Nat \ {0}
        /\ admitted[key] \subseteq Ages(key)
    BY ConfigTypes DEF RateInv, RateLimiterTypeOK
  <2>2. ASSUME NEW age \in Ages(key), age # 0 PROVE age - 1 \in Ages(key)
    BY <2>1, <2>2 DEF Ages
  <2>3. entries'[key] \in [Ages(key) -> 0 .. Config(key[2]).max_requests]
    BY <1>1, <2>1, <2>2
  <2>4. /\ admitted'[key] = {age + 1 : age \in admitted[key]} \cap Ages(key)
        /\ unjudged'[key] = {age + 1 : age \in unjudged[key]} \cap Ages(key)
    BY <1>1 DEF Older
  <2>5. ASSUME NEW age \in admitted'[key] PROVE entries'[key][age] > 0
    <3>1. PICK a \in admitted[key] : age = a + 1
      BY <2>4, <2>5
    <3>2. a \in Ages(key) /\ a \in Nat /\ age \in Ages(key) /\ entries[key][a] > 0
      BY <2>1, <2>4, <2>5, <3>1 DEF Ages, RateInv, AdmittedIsCounted
    <3>3. age # 0 /\ age - 1 = a
      BY <3>1, <3>2
    <3> QED
      BY <1>1, <3>2, <3>3
  <2> QED
    BY <2>3, <2>4, <2>5
<1>3. ASSUME NEW key \in Keys PROVE Count(key)' <= Count(key)
  <2> DEFINE limit == Config(key[2]).max_requests
             f == [m \in Members(key)' |-> <<m[1] - 1, m[2]>>]
  <2>1. limit \in Nat /\ Config(key[2]).window \in Nat \ {0}
    BY ConfigTypes
  <2>2. ASSUME NEW m \in Members(key)' PROVE f[m] \in Members(key) /\ m = <<f[m][1] + 1, f[m][2]>>
    <3>1. PICK age \in Ages(key), n \in 1 .. limit : m = <<age, n>> /\ n <= entries'[key][age]
      BY DEF Members
    <3>2. age # 0
      BY <1>1, <3>1
    <3>3. age - 1 \in Ages(key) /\ (age - 1) + 1 = age
      BY <2>1, <3>2 DEF Ages
    <3>4. n <= entries[key][age - 1]
      BY <1>1, <3>1, <3>2
    <3>5. f[m] = <<age - 1, n>>
      BY <3>1
    <3> HIDE DEF f
    <3> QED
      BY <3>1, <3>3, <3>4, <3>5 DEF Members
  <2>3. f \in [Members(key)' -> Members(key)]
    BY <2>2
  <2>4. \A a, b \in Members(key)' : f[a] = f[b] => a = b
    <3> HIDE DEF f
    <3> QED
      BY <2>2
  <2>5. IsFiniteSet(Members(key)) /\ IsFiniteSet(Members(key)')
    BY MembersFinite DEF Members
  <2> HIDE DEF f
  <2> QED
    BY <2>3, <2>4, <2>5, Injected DEF Count
<1> QED
  <2>1. RateLimiterTypeOK'
    <3>1. /\ redis' \in {"up", "down"} /\ attached' \subseteq Servers
          /\ scriptSha' \subseteq attached' /\ scripts' \in BOOLEAN
      BY <1>1 DEF RateInv, RateLimiterTypeOK
    <3> QED
      BY <1>2, <3>1 DEF RateLimiterTypeOK
  <2>2. CountWithin'
    <3> SUFFICES ASSUME NEW key \in Keys PROVE Count(key)' <= Config(key[2]).max_requests
      BY DEF CountWithin
    <3>1. Count(key)' \in Nat /\ Count(key) \in Nat /\ Config(key[2]).max_requests \in Nat
      BY ConfigTypes, MembersFinite, FS_CardinalityType DEF Count, Members
    <3>2. Count(key) <= Config(key[2]).max_requests
      BY DEF RateInv, CountWithin
    <3> QED
      BY <1>3, <3>1, <3>2
  <2>3. RateFunctions' /\ AdmittedIsCounted'
    BY <1>1, <1>2 DEF RateFunctions, AdmittedIsCounted, Older
  <2> QED
    BY <2>1, <2>2, <2>3 DEF RateInv

\* The script adds at most one member, and only while there is room.
LEMMA CheckRates ==
    ASSUME RateInv, NEW s \in Servers, NEW c \in Clients, NEW path \in Paths, Check(s, c, path)
    PROVE  RateInv'
<1>0. PICK key : key = <<c, Bucket(path)>>
  OBVIOUS
<1> DEFINE limit == Config(key[2]).max_requests
<1>1. /\ path \notin ExemptPaths /\ attached' = attached \cup {s} /\ UNCHANGED redis
  BY DEF Check
<1>2. key \in Keys
  BY <1>0, <1>1 DEF Keys
<1>a. limit \in Nat /\ Config(key[2]).window \in Nat \ {0}
  BY ConfigTypes
<1>3. /\ limit \in Nat /\ 0 \in Ages(key)
      /\ entries[key] \in [Ages(key) -> 0 .. limit]
      /\ admitted[key] \subseteq Ages(key) /\ unjudged[key] \subseteq Ages(key)
      /\ DOMAIN entries = Keys /\ DOMAIN admitted = Keys /\ DOMAIN unjudged = Keys
      /\ Count(key) <= limit
  BY <1>2, <1>a DEF RateInv, RateLimiterTypeOK, RateFunctions, CountWithin, Ages
<1>4. /\ scriptSha' \subseteq attached' /\ scripts' \in BOOLEAN
      /\ redis' \in {"up", "down"} /\ attached' \subseteq Servers
  <2>1. /\ scriptSha' \in {scriptSha, scriptSha \cup {s}}
        /\ scripts' = scripts \/ scripts' = (scripts \/ s \notin scriptSha)
    BY DEF Check
  <2> QED
    BY <1>1, <2>1 DEF RateInv, RateLimiterTypeOK
<1>5. CASE UNCHANGED <<entries, admitted>> /\ unjudged' \in {unjudged, Admit(key, unjudged)}
  <2>1. ASSUME NEW k \in Keys PROVE unjudged'[k] \subseteq Ages(k)
    BY <1>3, <1>5 DEF Admit, RateInv, RateLimiterTypeOK
  <2>2. DOMAIN unjudged' = Keys
    BY <1>3, <1>5 DEF Admit
  <2> QED
    BY <1>4, <1>5, <2>1, <2>2
    DEF RateInv, RateLimiterTypeOK, RateFunctions, AdmittedIsCounted, CountWithin, Count, Members
<1>6. CASE /\ UNCHANGED unjudged /\ entries' = entries /\ entries[key][0] > 0
           /\ admitted' = Admit(key, admitted)
  <2>1. ASSUME NEW k \in Keys
        PROVE  /\ admitted'[k] \subseteq Ages(k)
               /\ \A age \in admitted'[k] : entries[k][age] > 0
    BY <1>3, <1>6 DEF Admit, RateInv, RateLimiterTypeOK, AdmittedIsCounted
  <2>2. DOMAIN admitted' = Keys
    BY <1>3, <1>6 DEF Admit
  <2> QED
    BY <1>4, <1>6, <2>1, <2>2
    DEF RateInv, RateLimiterTypeOK, RateFunctions, AdmittedIsCounted, CountWithin, Count, Members
<1>7. CASE /\ UNCHANGED unjudged /\ Count(key) < limit
           /\ entries' = [entries EXCEPT ![key][0] = @ + 1]
           /\ admitted' = Admit(key, admitted)
  <2> DEFINE n == entries[key][0] + 1
  <2>1. n \in 1 .. limit
    <3>1. entries[key][0] \in 0 .. limit /\ entries[key][0] <= Count(key)
      BY <1>2, <1>3, OneInstant
    <3>2. Count(key) \in Nat
      BY MembersFinite, FS_CardinalityType DEF Count, Members
    <3> QED
      BY <1>3, <1>7, <3>1, <3>2
  <2>2. /\ \A k \in Keys : k # key => entries'[k] = entries[k] /\ admitted'[k] = admitted[k]
        /\ entries'[key] = [entries[key] EXCEPT ![0] = n]
        /\ admitted'[key] = admitted[key] \cup {0}
        /\ DOMAIN entries' = Keys /\ DOMAIN admitted' = Keys
    BY <1>2, <1>3, <1>7 DEF Admit
  <2>3. /\ entries'[key] \in [Ages(key) -> 0 .. limit]
        /\ entries'[key][0] = n /\ \A age \in Ages(key) \ {0} : entries'[key][age] = entries[key][age]
    BY <1>3, <2>1, <2>2
  <2>4. Count(key)' <= limit
    <3>1. Members(key)' = Members(key) \cup {<<0, n>>}
      BY <1>3, <2>1, <2>3 DEF Members
    <3>2. IsFiniteSet(Members(key)) /\ Count(key) \in Nat
      BY MembersFinite, FS_CardinalityType DEF Count, Members
    <3>3. /\ Cardinality(Members(key) \cup {<<0, n>>}) <= Cardinality(Members(key)) + 1
          /\ Cardinality(Members(key) \cup {<<0, n>>}) \in Nat
      <4> PICK M : M = Members(key)
        OBVIOUS
      <4> PICK x : x = <<0, n>>
        OBVIOUS
      <4>1. IsFiniteSet(M)
        BY <3>2
      <4>2. /\ IsFiniteSet(M \cup {x})
            /\ Cardinality(M \cup {x}) = IF x \in M THEN Cardinality(M) ELSE Cardinality(M) + 1
        BY <4>1, FS_AddElement
      <4>3. Cardinality(M) \in Nat /\ Cardinality(M \cup {x}) \in Nat
        BY <4>1, <4>2, FS_CardinalityType
      <4>4. Cardinality(M \cup {x}) <= Cardinality(M) + 1
        BY <4>2, <4>3
      <4> QED
        BY <4>3, <4>4
    <3>4. Count(key)' <= Count(key) + 1 /\ Count(key)' \in Nat
      <4>1. Count(key)' = Cardinality(Members(key) \cup {<<0, n>>})
        BY <3>1 DEF Count
      <4>2. Count(key) = Cardinality(Members(key))
        BY DEF Count
      <4> HIDE DEF n
      <4> QED
        BY <3>3, <4>1, <4>2
    <3> HIDE DEF limit
    <3> QED
      BY <1>3, <1>7, <3>2, <3>4
  <2>5. ASSUME NEW k \in Keys
        PROVE  /\ entries'[k] \in [Ages(k) -> 0 .. Config(k[2]).max_requests]
               /\ admitted'[k] \subseteq Ages(k)
               /\ \A age \in admitted'[k] : entries'[k][age] > 0
               /\ Count(k)' <= Config(k[2]).max_requests
    <3>1. CASE k = key
      <4>1. \A age \in admitted[key] : entries[key][age] > 0
        BY <1>2 DEF RateInv, AdmittedIsCounted
      <4>2. \A age \in admitted[key] \cup {0} : entries'[key][age] > 0
        BY <1>3, <2>1, <2>3, <4>1
      <4> QED
        BY <1>3, <2>2, <2>3, <2>4, <3>1, <4>2
    <3>2. CASE k # key
      <4>1. entries'[k] = entries[k] /\ admitted'[k] = admitted[k]
        BY <2>2, <3>2
      <4> QED
        BY <4>1 DEF RateInv, RateLimiterTypeOK, AdmittedIsCounted, CountWithin, Count, Members
    <3> QED
      BY <3>1, <3>2
  <2> QED
    BY <1>4, <1>7, <2>2, <2>5
    DEF RateInv, RateLimiterTypeOK, RateFunctions, AdmittedIsCounted, CountWithin
<1> QED
  <2>1. CASE UNCHANGED <<entries, admitted, unjudged>>
    BY <1>5, <2>1
  <2>2. CASE SlidingWindow(key, TRUE) /\ admitted' = Admit(key, admitted) /\ UNCHANGED unjudged
    BY <1>6, <1>7, <2>2 DEF SlidingWindow
  <2>3. CASE SlidingWindow(key, FALSE) /\ UNCHANGED admitted /\ UNCHANGED unjudged
    BY <1>5, <2>3 DEF SlidingWindow
  <2>4. CASE unjudged' = Admit(key, unjudged) /\ UNCHANGED <<entries, admitted>>
    BY <1>5, <2>4
  <2> QED
    BY <1>0, <2>1, <2>2, <2>3, <2>4, Zenon DEF Check

\* RateInv is inductive.
LEMMA RateStep == RateInv /\ [RateLimiterNext]_rateVars => RateInv'
<1> SUFFICES ASSUME RateInv, [RateLimiterNext]_rateVars PROVE RateInv'
  OBVIOUS
<1>1. CASE Outage \/ Recover \/ UNCHANGED rateVars
  BY <1>1 DEF Outage, Recover, rateVars, RateInv, RateLimiterTypeOK, RateFunctions,
              AdmittedIsCounted, CountWithin, Count, Members
<1> QED
  BY <1>1, PassRates, CheckRates DEF RateLimiterNext

\* The script enforces the limit (core/rate_limiter.py: _SLIDING_WINDOW_LUA),
\* for any processes, clients, paths and limits, and through any outages and
\* restarts of Redis.
THEOREM LimitsHold == RateLimiterSpec => []LimitHolds
<1>1. RateInv => LimitHolds
  <2> SUFFICES ASSUME RateInv, NEW key \in Keys
               PROVE  Cardinality(admitted[key]) <= Config(key[2]).max_requests
    BY DEF LimitHolds
  <2> DEFINE limit == Config(key[2]).max_requests
             f == [age \in admitted[key] |-> <<age, 1>>]
  <2>1. /\ limit \in Nat /\ Config(key[2]).window \in Nat
        /\ admitted[key] \subseteq Ages(key) /\ Count(key) <= limit
        /\ \A age \in admitted[key] : entries[key][age] \in 0 .. limit /\ entries[key][age] > 0
    BY ConfigTypes DEF RateInv, RateLimiterTypeOK, CountWithin, AdmittedIsCounted
  <2>2. f \in [admitted[key] -> Members(key)]
    BY <2>1 DEF Members
  <2>3. IsFiniteSet(Members(key)) /\ IsFiniteSet(admitted[key])
    BY <2>1, MembersFinite, UpTo, FS_Subset DEF Members, Ages
  <2>4. \A a, b \in admitted[key] : f[a] = f[b] => a = b
    OBVIOUS
  <2> HIDE DEF f
  <2>5. Cardinality(admitted[key]) <= Count(key)
    BY <2>2, <2>3, <2>4, Injected DEF Count
  <2>6. Cardinality(admitted[key]) \in Nat /\ Count(key) \in Nat
    BY <2>3, FS_CardinalityType DEF Count
  <2> QED
    BY <2>1, <2>5, <2>6
<1> QED
  BY <1>1, RateInit, RateStep, PTL DEF RateLimiterSpec

----------------------------------------------------------------------------
(* The dispatch lock.  The keys tell the runs apart, and whoever dispatches a *)
(* run is the owner of its key: so no second session is granted the lock, and *)
(* a session that was refused cannot be the one that frees it, except on the  *)
(* fallback.                                                                  *)

LockTypes ==
    /\ postgres \in BOOLEAN
    /\ stray \in BOOLEAN
    /\ owner \in [Keys64 -> [who : Sessions \cup {Nobody}, times : Int]]
    /\ inside \subseteq Sessions \X Digests
    /\ refused \subseteq Sessions \X Digests

DispatchingOwns ==
    postgres \/ ~stray =>
        \A s \in Sessions, r \in Digests :
            <<s, r>> \in inside => owner[AdvisoryKeyForRun(r)].who = s

RefusedIsOutside == inside \cap refused = {}

LockInv == LockTypes /\ DispatchingOwns /\ RefusedIsOutside


\* Reading an unsigned number as a signed one of the same width loses nothing.
LEMMA KeysApart ==
    /\ \A r \in Digests : AdvisoryKeyForRun(r) \in Keys64
    /\ \A r, q \in Digests : AdvisoryKeyForRun(r) = AdvisoryKeyForRun(q) => r = q
BY DigestsAssumption DEF AdvisoryKeyForRun, Keys64

LEMMA LockInitInv == DispatchLockInit => LockInv
<1> SUFFICES ASSUME DispatchLockInit  PROVE LockInv
  OBVIOUS
<1>1. owner \in [Keys64 -> [who : Sessions \cup {Nobody}, times : Int]]
  BY DEF DispatchLockInit
<1>2. postgres \in BOOLEAN /\ stray \in BOOLEAN
  BY DEF DispatchLockInit
<1>3. inside = {} /\ refused = {}
  BY DEF DispatchLockInit
<1> QED  BY <1>1, <1>2, <1>3 DEF LockInv, LockTypes, DispatchingOwns, RefusedIsOutside

LEMMA TryInv ==
    ASSUME NEW s \in Sessions, NEW r \in Digests, LockInv, TryRunDispatchLock(s, r)
    PROVE  LockInv'
<1> DEFINE k == AdvisoryKeyForRun(r)
<1>1. k \in Keys64
  BY KeysApart
<1>2. owner[k] \in [who : Sessions \cup {Nobody}, times : Int]
  BY <1>1 DEF LockInv, LockTypes
<1>3. UNCHANGED <<postgres, stray>> /\ <<s, r>> \notin inside \cup refused
  BY DEF TryRunDispatchLock
<1>4. CASE /\ Grants(s, k)
           /\ owner' = [owner EXCEPT ![k] = [who |-> s, times |-> @.times + 1]]
           /\ inside' = inside \cup {<<s, r>>}
           /\ UNCHANGED refused
  <2>1. LockTypes'
    BY <1>1, <1>2, <1>3, <1>4 DEF LockInv, LockTypes
  <2>2. ASSUME postgres \/ ~stray, NEW t \in Sessions, NEW q \in Digests, <<t, q>> \in inside'
        PROVE  owner'[AdvisoryKeyForRun(q)].who = t
    <3>1. owner'[k].who = s
      BY <1>1, <1>4 DEF LockInv, LockTypes
    <3>2. CASE <<t, q>> = <<s, r>>
      BY <3>1, <3>2
    <3>3. CASE <<t, q>> \in inside
      <4>1. owner[AdvisoryKeyForRun(q)].who = t
        BY <2>2, <3>3 DEF LockInv, DispatchingOwns
      <4>2. CASE AdvisoryKeyForRun(q) = k
        <5>1. t = s
          BY <4>1, <4>2, <1>4, SessionsAssumption DEF Grants
        <5> QED  BY <5>1, <3>1, <4>2
      <4>3. CASE AdvisoryKeyForRun(q) # k
        <5>1. owner'[AdvisoryKeyForRun(q)] = owner[AdvisoryKeyForRun(q)]
          BY <4>3, <1>1, <1>4, KeysApart DEF LockInv, LockTypes
        <5> QED  BY <5>1, <4>1
      <4> QED  BY <4>2, <4>3
    <3> QED  BY <2>2, <3>2, <3>3, <1>4
  <2>3. DispatchingOwns'
    BY <2>2, <1>3 DEF DispatchingOwns
  <2>4. RefusedIsOutside'
    BY <1>3, <1>4 DEF LockInv, RefusedIsOutside
  <2> QED  BY <2>1, <2>3, <2>4 DEF LockInv
<1>5. CASE refused' = refused \cup {<<s, r>>} /\ UNCHANGED <<owner, inside>>
  BY <1>3, <1>5 DEF LockInv, LockTypes, DispatchingOwns, RefusedIsOutside
<1> QED  BY <1>4, <1>5 DEF TryRunDispatchLock

LEMMA ReleaseInv ==
    ASSUME NEW s \in Sessions, NEW r \in Digests, LockInv, ReleaseRunDispatchLock(s, r)
    PROVE  LockInv'
<1> DEFINE k == AdvisoryKeyForRun(r)
           frees == owner[k].who # Nobody /\ (owner[k].who = s \/ ~postgres)
<1>1. k \in Keys64
  BY KeysApart
<1>2. owner[k] \in [who : Sessions \cup {Nobody}, times : Int]
  BY <1>1 DEF LockInv, LockTypes
<1>3. /\ <<s, r>> \in inside \cup refused
      /\ postgres' = postgres
      /\ inside' = inside \ {<<s, r>>} /\ refused' = refused \ {<<s, r>>}
      /\ stray' = (stray \/ (frees /\ owner[k].who # s))
      /\ owner' = IF ~frees THEN owner
                  ELSE [owner EXCEPT ![k] = IF @.times = 1 THEN [who |-> Nobody, times |-> 0]
                                            ELSE [who |-> @.who, times |-> @.times - 1]]
  BY DEF ReleaseRunDispatchLock
<1>4. LockTypes'
  <2>1. owner' \in [Keys64 -> [who : Sessions \cup {Nobody}, times : Int]]
    BY <1>1, <1>2, <1>3 DEF LockInv, LockTypes
  <2>2. stray' \in BOOLEAN
    BY <1>3 DEF LockInv, LockTypes
  <2> QED  BY <2>1, <2>2, <1>3 DEF LockInv, LockTypes
<1>5. ASSUME postgres' \/ ~stray', NEW t \in Sessions, NEW q \in Digests, <<t, q>> \in inside'
      PROVE  owner'[AdvisoryKeyForRun(q)].who = t
  <2>1. <<t, q>> \in inside /\ <<t, q>> # <<s, r>>
    BY <1>3, <1>5
  <2>2. postgres \/ ~stray
    BY <1>3, <1>5
  <2>3. owner[AdvisoryKeyForRun(q)].who = t
    BY <2>1, <2>2 DEF LockInv, DispatchingOwns
  <2>4. CASE AdvisoryKeyForRun(q) # k \/ ~frees
    <3>1. owner'[AdvisoryKeyForRun(q)] = owner[AdvisoryKeyForRun(q)]
      BY <2>4, <1>1, <1>3, KeysApart DEF LockInv, LockTypes
    <3> QED  BY <3>1, <2>3
  <2>5. CASE AdvisoryKeyForRun(q) = k /\ frees
    <3>1. q = r
      BY <2>5, KeysApart
    <3>2. owner[k].who = s
      BY <2>5, <1>3, <1>5
    <3> QED  BY <3>1, <3>2, <2>1, <2>3, <2>5
  <2> QED  BY <2>4, <2>5
<1>6. DispatchingOwns'
  BY <1>5 DEF DispatchingOwns
<1>7. RefusedIsOutside'
  BY <1>3 DEF LockInv, RefusedIsOutside
<1> QED  BY <1>4, <1>6, <1>7 DEF LockInv

LEMMA DisconnectInv ==
    ASSUME NEW s \in Sessions, LockInv, Disconnect(s)
    PROVE  LockInv'
<1>1. /\ UNCHANGED <<postgres, stray>>
      /\ owner' = [k \in Keys64 |-> IF owner[k].who = s THEN [who |-> Nobody, times |-> 0] ELSE owner[k]]
      /\ inside' = {x \in inside : x[1] # s} /\ refused' = {x \in refused : x[1] # s}
  BY DEF Disconnect
<1>2. LockTypes'
  BY <1>1 DEF LockInv, LockTypes
<1>3. ASSUME postgres \/ ~stray, NEW t \in Sessions, NEW q \in Digests, <<t, q>> \in inside'
      PROVE  owner'[AdvisoryKeyForRun(q)].who = t
  <2>1. <<t, q>> \in inside /\ t # s
    BY <1>1, <1>3
  <2>2. owner[AdvisoryKeyForRun(q)].who = t
    BY <2>1, <1>3 DEF LockInv, DispatchingOwns
  <2> QED  BY <2>1, <2>2, <1>1, KeysApart
<1>4. DispatchingOwns'
  BY <1>1, <1>3 DEF DispatchingOwns
<1>5. RefusedIsOutside'
  BY <1>1 DEF LockInv, RefusedIsOutside
<1> QED  BY <1>2, <1>4, <1>5 DEF LockInv

LEMMA LockStepInv == LockInv /\ [DispatchLockNext]_lockVars => LockInv'
<1> SUFFICES ASSUME LockInv, [DispatchLockNext]_lockVars  PROVE LockInv'
  OBVIOUS
<1>1. CASE DispatchLockNext
  BY <1>1, TryInv, ReleaseInv, DisconnectInv DEF DispatchLockNext
<1>2. CASE UNCHANGED lockVars
  BY <1>2 DEF lockVars, LockInv, LockTypes, DispatchingOwns, RefusedIsOutside
<1> QED  BY <1>1, <1>2

\* Two sessions never dispatch one run (core/advisory_lock.py: try_run_dispatch_lock and
\* release_run_dispatch_lock), through refusals, repeated releases and the
\* death of processes, unless on the fallback a refused caller has released.
THEOREM DispatchersExclude == DispatchLockSpec => []OneDispatcher
<1>1. LockInv => OneDispatcher
  <2> SUFFICES ASSUME LockInv, NEW x \in inside, NEW y \in inside, x[2] = y[2],
                      postgres \/ ~stray
               PROVE  x = y
    BY DEF OneDispatcher, LockInv, LockTypes
  <2>1. /\ x = <<x[1], x[2]>> /\ y = <<y[1], y[2]>>
        /\ x[1] \in Sessions /\ x[2] \in Digests /\ y[1] \in Sessions
    BY DEF LockInv, LockTypes
  <2>2. owner[AdvisoryKeyForRun(x[2])].who = x[1] /\ owner[AdvisoryKeyForRun(y[2])].who = y[1]
    BY <2>1 DEF LockInv, DispatchingOwns
  <2> QED  BY <2>1, <2>2
<1> QED  BY <1>1, LockInitInv, LockStepInv, PTL DEF DispatchLockSpec

\* A key nobody owns has been taken no times, and a session has not taken a
\* key more often than it has tried.
TimesWithin ==
    /\ tries \in [Sessions -> 0 .. MaxTries]
    /\ \A k \in Keys64 : owner[k].who = Nobody => owner[k].times = 0
    /\ \A k \in Keys64 : owner[k].who # Nobody => owner[k].times \in 1 .. tries[owner[k].who]

LEMMA TimesInit == DispatchLockInit => TimesWithin
BY MaxTriesAssumption DEF DispatchLockInit, TimesWithin

LEMMA TimesTry ==
    ASSUME NEW s \in Sessions, NEW r \in Digests, LockTypes, TimesWithin, TryRunDispatchLock(s, r)
    PROVE  TimesWithin'
<1> DEFINE k == AdvisoryKeyForRun(r)
<1>1. k \in Keys64
  BY KeysApart
<1>2. /\ tries[s] < MaxTries /\ tries' = [tries EXCEPT ![s] = @ + 1]
      /\ \/ /\ Grants(s, k)
            /\ owner' = [owner EXCEPT ![k] = [who |-> s, times |-> @.times + 1]]
         \/ UNCHANGED owner
  BY DEF TryRunDispatchLock
<1>3. /\ \A t \in Sessions : tries[t] \in 0 .. MaxTries
      /\ owner \in [Keys64 -> [who : Sessions \cup {Nobody}, times : Int]]
      /\ MaxTries \in Nat
  BY MaxTriesAssumption DEF LockTypes, TimesWithin
<1>4. /\ tries' \in [Sessions -> 0 .. MaxTries]
      /\ tries'[s] = tries[s] + 1
      /\ \A t \in Sessions : tries[t] <= tries'[t]
  BY <1>2, <1>3 DEF TimesWithin
<1>5. ASSUME NEW q \in Keys64
      PROVE  /\ owner'[q].who = Nobody => owner'[q].times = 0
             /\ owner'[q].who # Nobody => owner'[q].times \in 1 .. tries'[owner'[q].who]
  <2>0. /\ owner[q].who \in Sessions \cup {Nobody} /\ owner[q].times \in Int
        /\ owner[q].who = Nobody => owner[q].times = 0
        /\ owner[q].who # Nobody => owner[q].times \in 1 .. tries[owner[q].who]
    BY <1>3, <1>5 DEF TimesWithin
  <2>1. CASE owner'[q] = owner[q]
    BY <2>0, <2>1, <1>3, <1>4
  <2>2. CASE q = k /\ Grants(s, k) /\ owner'[q] = [who |-> s, times |-> owner[q].times + 1]
    <3>1. owner[q].who = Nobody \/ owner[q].who = s
      BY <2>2 DEF Grants
    <3>2. owner[q].times \in 0 .. tries[s]
      BY <2>0, <3>1, <1>3
    <3>3. s # Nobody
      BY SessionsAssumption
    <3> HIDE DEF k
    <3> QED
      BY <2>2, <3>2, <3>3, <1>3, <1>4
  <2> HIDE DEF k
  <2> QED
    BY <1>1, <1>2, <1>3, <1>5, <2>1, <2>2
<1> QED
  BY <1>4, <1>5 DEF TimesWithin

LEMMA TimesRelease ==
    ASSUME NEW s \in Sessions, NEW r \in Digests, LockTypes, TimesWithin, ReleaseRunDispatchLock(s, r)
    PROVE  TimesWithin'
<1> PICK k : k = AdvisoryKeyForRun(r)
  OBVIOUS
<1>1. k \in Keys64
  BY KeysApart
<1>2. /\ UNCHANGED tries
      /\ \/ UNCHANGED owner
         \/ /\ owner[k].who # Nobody
            /\ owner' = [owner EXCEPT ![k] = IF @.times = 1 THEN [who |-> Nobody, times |-> 0]
                                             ELSE [who |-> @.who, times |-> @.times - 1]]
  BY DEF ReleaseRunDispatchLock
<1>3. /\ \A t \in Sessions : tries[t] \in 0 .. MaxTries
      /\ owner \in [Keys64 -> [who : Sessions \cup {Nobody}, times : Int]]
      /\ MaxTries \in Nat
  BY MaxTriesAssumption DEF LockTypes, TimesWithin
<1>4. ASSUME NEW q \in Keys64
      PROVE  /\ owner'[q].who = Nobody => owner'[q].times = 0
             /\ owner'[q].who # Nobody => owner'[q].times \in 1 .. tries[owner'[q].who]
  <2>0. /\ owner[q].who \in Sessions \cup {Nobody} /\ owner[q].times \in Int
        /\ owner[q].who = Nobody => owner[q].times = 0
        /\ owner[q].who # Nobody => owner[q].times \in 1 .. tries[owner[q].who]
    BY <1>3, <1>4 DEF TimesWithin
  <2>1. CASE owner'[q] = owner[q]
    BY <2>0, <2>1
  <2>2. CASE owner'[q] = [who |-> Nobody, times |-> 0]
    BY <2>2
  <2>3. CASE /\ owner[q].who # Nobody /\ owner[q].times # 1
             /\ owner'[q] = [who |-> owner[q].who, times |-> owner[q].times - 1]
    <3>1. owner'[q].who = owner[q].who /\ owner'[q].times = owner[q].times - 1
      BY <2>3
    <3>2. tries[owner[q].who] \in Nat
      BY <2>0, <2>3, <1>3
    <3> QED
      BY <2>0, <2>3, <3>1, <3>2
  <2> QED
    BY <1>1, <1>2, <1>3, <1>4, <2>1, <2>2, <2>3
<1> QED
  BY <1>2, <1>4 DEF TimesWithin

LEMMA TimesDisconnect ==
    ASSUME NEW s \in Sessions, LockTypes, TimesWithin, Disconnect(s)
    PROVE  TimesWithin'
BY DEF LockTypes, TimesWithin, Disconnect

LEMMA TimesStep == LockTypes /\ TimesWithin /\ [DispatchLockNext]_lockVars => TimesWithin'
<1> SUFFICES ASSUME LockTypes, TimesWithin, [DispatchLockNext]_lockVars  PROVE TimesWithin'
  OBVIOUS
<1>1. CASE DispatchLockNext
  BY <1>1, TimesTry, TimesRelease, TimesDisconnect DEF DispatchLockNext
<1>2. CASE UNCHANGED lockVars
  BY <1>2 DEF lockVars, TimesWithin
<1> QED
  BY <1>1, <1>2

LEMMA LockTyped == LockInv /\ TimesWithin => DispatchLockTypeOK
<1> SUFFICES ASSUME LockInv, TimesWithin  PROVE DispatchLockTypeOK
  OBVIOUS
<1>1. {AdvisoryKeyForRun(r) : r \in Digests} \subseteq Keys64
  BY KeysApart
<1>2. ASSUME NEW k \in Keys64  PROVE owner[k].who \in Sessions \cup {Nobody} /\ owner[k].times \in 0 .. MaxTries
  <2>1. owner[k].who \in Sessions \cup {Nobody} /\ owner[k].times \in Int
    BY DEF LockInv, LockTypes
  <2>2. /\ owner[k].who = Nobody => owner[k].times = 0
        /\ owner[k].who # Nobody => owner[k].times \in 1 .. tries[owner[k].who]
        /\ \A t \in Sessions : tries[t] \in 0 .. MaxTries
    BY DEF TimesWithin
  <2> QED
    BY <2>1, <2>2, MaxTriesAssumption
<1> QED
  BY <1>1, <1>2 DEF LockInv, LockTypes, TimesWithin, DispatchLockTypeOK

----------------------------------------------------------------------------
(* The event stream.  The last event of the wire is the cursor, and a pending *)
(* read starts at the cursor: so what the read returns continues the wire.    *)
(* What can be missed lies before the first read that saw something.          *)

Consecutive(s) == \A i \in 1 .. Len(s) - 1 : s[i + 1] = s[i] + 1

CursorWithin == lastId <= stream /\ from <= stream

WireEndsAtCursor ==
    /\ Consecutive(wire)
    /\ wire = <<>> => lastId = 0
    /\ wire # <<>> => wire[Len(wire)] = lastId

ReadsFromCursor ==
    connection = "reading" =>
        /\ lastId # 0 => from = lastId
        /\ lastId = 0 => \A n \in missed : n <= from

MissedBeforeFirst ==
    /\ \A n \in missed : n <= stream
    /\ wire # <<>> => \A n \in missed : n < wire[1]

EventStreamInv ==
    /\ EventStreamTypeOK
    /\ CursorWithin
    /\ WireEndsAtCursor
    /\ ReadsFromCursor
    /\ MissedBeforeFirst


\* A batch of the events from + 1 .. from + n that continues a wire.
LEMMA BatchContinues ==
    ASSUME NEW s \in Seq(Nat), NEW f \in Nat, NEW n \in Nat \ {0},
           Consecutive(s), s # <<>> => s[Len(s)] = f
    PROVE  LET t == s \o [i \in 1 .. n |-> f + i]
           IN  /\ t # <<>> /\ Consecutive(t) /\ t[Len(t)] = f + n
               /\ t[1] = IF s = <<>> THEN f + 1 ELSE s[1]
<1> DEFINE b == [i \in 1 .. n |-> f + i]
           t == s \o b
<1>1. b \in Seq(Nat) /\ Len(b) = n /\ \A i \in 1 .. n : b[i] = f + i
  OBVIOUS
<1>2. /\ t \in Seq(Nat) /\ Len(t) = Len(s) + n
      /\ \A i \in 1 .. Len(s) : t[i] = s[i]
      /\ \A i \in 1 .. n : t[Len(s) + i] = f + i
  BY <1>1
<1>3. Len(s) \in Nat /\ (s = <<>> <=> Len(s) = 0)
  OBVIOUS
<1> HIDE DEF b, t
<1>4. t # <<>> /\ t[Len(t)] = f + n
  BY <1>2, <1>3
<1>5. t[1] = IF s = <<>> THEN f + 1 ELSE s[1]
  <2>1. CASE s = <<>>
    BY <2>1, <1>2, <1>3
  <2>2. CASE s # <<>>
    BY <2>2, <1>2, <1>3
  <2> QED  BY <2>1, <2>2
<1>6. Consecutive(t)
  <2> SUFFICES ASSUME NEW i \in 1 .. Len(t) - 1  PROVE t[i + 1] = t[i] + 1
    BY DEF Consecutive
  <2>1. CASE i < Len(s)
    <3>1. i \in 1 .. Len(s) - 1 /\ i \in 1 .. Len(s) /\ i + 1 \in 1 .. Len(s)
      BY <2>1, <1>3, <1>2
    <3>2. s[i + 1] = s[i] + 1
      BY <3>1 DEF Consecutive
    <3>3. t[i] = s[i] /\ t[i + 1] = s[i + 1]
      BY <3>1, <1>2
    <3> QED  BY <3>2, <3>3
  <2>2. CASE i = Len(s)
    <3>1. t[i] = f
      BY <2>2, <1>2, <1>3
    <3>2. t[i + 1] = f + 1
      BY <2>2, <1>2, <1>3
    <3> QED  BY <3>1, <3>2
  <2>3. CASE i > Len(s)
    <3>1. PICK j \in 1 .. n - 1 : i = Len(s) + j
      <4>1. i - Len(s) \in 1 .. n - 1 /\ i = Len(s) + (i - Len(s))
        BY <2>3, <1>2, <1>3
      <4> QED  BY <4>1
    <3>2. t[i] = f + j
      BY <3>1, <1>2
    <3>3. i + 1 = Len(s) + (j + 1) /\ j + 1 \in 1 .. n
      BY <3>1, <1>3
    <3>4. t[i + 1] = f + (j + 1)
      BY <3>3, <1>2
    <3> QED  BY <3>2, <3>4, <3>1
  <2> QED  BY <2>1, <2>2, <2>3, <1>2, <1>3
<1> QED  BY <1>4, <1>5, <1>6 DEF t, b

LEMMA EventStreamInitInv == EventStreamInit => EventStreamInv
BY EventBoundsAssumption
DEF EventStreamInit, EventStreamInv, EventStreamTypeOK, CursorWithin, WireEndsAtCursor,
    ReadsFromCursor, MissedBeforeFirst, Consecutive

\* The step that writes to the wire.
LEMMA MessagesInv == EventStreamInv /\ Messages => EventStreamInv'
<1> SUFFICES ASSUME EventStreamInv, Messages  PROVE EventStreamInv'
  OBVIOUS
<1> DEFINE upTo == IF stream - from > BatchSize THEN from + BatchSize ELSE stream
           n == upTo - from
<1>1. /\ stream \in 0 .. MaxEvents /\ from \in 0 .. MaxEvents /\ stream > from
      /\ lastId \in 0 .. MaxEvents /\ wire \in Seq(1 .. MaxEvents) /\ missed \subseteq 1 .. MaxEvents
      /\ MaxEvents \in Nat /\ BatchSize \in Nat /\ BatchSize > 0
  BY EventBoundsAssumption DEF EventStreamInv, EventStreamTypeOK, Messages
<1>2. n \in Nat \ {0} /\ from + n = upTo /\ upTo <= stream /\ upTo \in 0 .. MaxEvents
  BY <1>1
<1>3. /\ wire' = wire \o [i \in 1 .. n |-> from + i] /\ lastId' = upTo
      /\ connection = "reading" /\ connection' = "between"
      /\ UNCHANGED <<stream, from, missed, connects, hiccups>>
  BY DEF Messages
<1> HIDE DEF upTo, n
<1>4. /\ wire' # <<>> /\ Consecutive(wire') /\ wire'[Len(wire')] = from + n
      /\ wire'[1] = IF wire = <<>> THEN from + 1 ELSE wire[1]
  <2>1. wire \in Seq(Nat) /\ from \in Nat
    BY <1>1
  <2>2. wire # <<>> => wire[Len(wire)] = from
    <3> SUFFICES ASSUME wire # <<>>  PROVE wire[Len(wire)] = from
      OBVIOUS
    <3>1. wire[Len(wire)] = lastId /\ Len(wire) \in 1 .. Len(wire)
      BY <1>1 DEF EventStreamInv, WireEndsAtCursor
    <3>2. lastId # 0
      BY <3>1, <1>1
    <3> QED  BY <3>1, <3>2, <1>3 DEF EventStreamInv, ReadsFromCursor
  <2>3. Consecutive(wire)
    BY DEF EventStreamInv, WireEndsAtCursor
  <2> QED  BY <2>1, <2>2, <2>3, <1>2, <1>3, BatchContinues
<1>5. EventStreamTypeOK'
  <2>1. [i \in 1 .. n |-> from + i] \in Seq(1 .. MaxEvents)
    <3>1. \A i \in 1 .. n : from + i \in 1 .. MaxEvents
      BY <1>1, <1>2
    <3> QED  BY <3>1, <1>2
  <2>2. wire' \in Seq(1 .. MaxEvents)
    BY <2>1, <1>1, <1>3
  <2> QED  BY <2>2, <1>1, <1>2, <1>3 DEF EventStreamInv, EventStreamTypeOK
<1>6. CursorWithin'
  BY <1>1, <1>2, <1>3 DEF EventStreamInv, CursorWithin
<1>7. WireEndsAtCursor'
  BY <1>2, <1>3, <1>4 DEF WireEndsAtCursor, Consecutive
<1>8. MissedBeforeFirst'
  <2>1. \A k \in missed : k <= stream
    BY DEF EventStreamInv, MissedBeforeFirst
  <2>2. \A k \in missed : k < wire'[1]
    <3>1. CASE wire = <<>>
      <4>1. lastId = 0
        BY <3>1 DEF EventStreamInv, WireEndsAtCursor
      <4>2. \A k \in missed : k <= from
        BY <4>1, <1>3 DEF EventStreamInv, ReadsFromCursor
      <4> QED  BY <4>2, <3>1, <1>4, <1>1
    <3>2. CASE wire # <<>>
      BY <3>2, <1>4 DEF EventStreamInv, MissedBeforeFirst
    <3> QED  BY <3>1, <3>2
  <2> QED  BY <2>1, <2>2, <1>3 DEF MissedBeforeFirst
<1>9. ReadsFromCursor'
  BY <1>3 DEF ReadsFromCursor
<1> QED  BY <1>5, <1>6, <1>7, <1>8, <1>9 DEF EventStreamInv

\* The cursor is 0 just when nothing has been written.
LEMMA CursorAtNothing ==
    ASSUME EventStreamInv  PROVE lastId = 0 <=> wire = <<>>
<1>1. wire \in Seq(1 .. MaxEvents)
  BY DEF EventStreamInv, EventStreamTypeOK
<1>2. ASSUME wire # <<>>  PROVE lastId # 0
  <2>1. Len(wire) \in 1 .. Len(wire)
    BY <1>1, <1>2
  <2>2. wire[Len(wire)] \in 1 .. MaxEvents
    BY <1>1, <2>1, ElementOfSeq
  <2> QED  BY <2>2, <1>2 DEF EventStreamInv, WireEndsAtCursor
<1> QED  BY <1>2 DEF EventStreamInv, WireEndsAtCursor

LEMMA EventStreamStepInv == EventStreamInv /\ [EventStreamNext]_eventVars => EventStreamInv'
<1> SUFFICES ASSUME EventStreamInv, [EventStreamNext]_eventVars  PROVE EventStreamInv'
  OBVIOUS
<1> USE EventBoundsAssumption
<1>1. CASE PublishProjectEvent
  <2>1. \A k \in missed' : k <= stream'
    BY <1>1 DEF PublishProjectEvent, EventStreamInv, EventStreamTypeOK, MissedBeforeFirst
  <2>2. wire # <<>> => missed' = missed
    BY <1>1, CursorAtNothing DEF PublishProjectEvent
  <2>3. connection = "reading" => missed' = missed
    BY <1>1 DEF PublishProjectEvent
  <2>4. EventStreamTypeOK' /\ CursorWithin'
    BY <1>1 DEF PublishProjectEvent, EventStreamInv, EventStreamTypeOK, CursorWithin
  <2>5. UNCHANGED <<connection, lastId, from, wire, connects, hiccups>>
    BY <1>1 DEF PublishProjectEvent
  <2> QED  BY <2>1, <2>2, <2>3, <2>4, <2>5
           DEF EventStreamInv, WireEndsAtCursor, ReadsFromCursor, MissedBeforeFirst, Consecutive
<1>2. CASE StreamProjectEvents
  BY <1>2 DEF StreamProjectEvents, EventStreamInv, EventStreamTypeOK, CursorWithin,
              WireEndsAtCursor, ReadsFromCursor, MissedBeforeFirst, Consecutive
<1>3. CASE TailStream
  BY <1>3 DEF TailStream, EventStreamInv, EventStreamTypeOK, CursorWithin,
              WireEndsAtCursor, ReadsFromCursor, MissedBeforeFirst, Consecutive
<1>4. CASE Messages
  BY <1>4, MessagesInv
<1>5. CASE Heartbeat
  BY <1>5 DEF Heartbeat, EventStreamInv, EventStreamTypeOK, CursorWithin,
              WireEndsAtCursor, ReadsFromCursor, MissedBeforeFirst, Consecutive
<1>6. CASE Hiccup
  <2>1. \A k \in missed' : k <= stream'
    BY <1>6 DEF Hiccup, EventStreamInv, EventStreamTypeOK, MissedBeforeFirst
  <2>2. wire # <<>> => missed' = missed
    BY <1>6, CursorAtNothing DEF Hiccup
  <2>3. EventStreamTypeOK' /\ CursorWithin'
    BY <1>6 DEF Hiccup, EventStreamInv, EventStreamTypeOK, CursorWithin
  <2>4. connection' = "between" /\ UNCHANGED <<stream, lastId, from, wire, connects>>
    BY <1>6 DEF Hiccup
  <2> QED  BY <2>1, <2>2, <2>3, <2>4
           DEF EventStreamInv, WireEndsAtCursor, ReadsFromCursor, MissedBeforeFirst, Consecutive
<1>7. CASE Disconnected
  BY <1>7 DEF Disconnected, EventStreamInv, EventStreamTypeOK, CursorWithin,
              WireEndsAtCursor, ReadsFromCursor, MissedBeforeFirst, Consecutive
<1>8. CASE UNCHANGED eventVars
  BY <1>8 DEF eventVars, EventStreamInv, EventStreamTypeOK, CursorWithin,
              WireEndsAtCursor, ReadsFromCursor, MissedBeforeFirst, Consecutive
<1> QED  BY <1>1, <1>2, <1>3, <1>4, <1>5, <1>6, <1>7, <1>8 DEF EventStreamNext

LEMMA EventStreamInvariant == EventStreamSpec => []EventStreamInv
BY EventStreamInitInv, EventStreamStepInv, PTL DEF EventStreamSpec

\* A connection that has seen its first event (api/events.py: the cursor of
\* stream_project_events) is sent every later one once and in order, whatever
\* the number of events, failed reads and reconnections and the batch size.
THEOREM StreamHasNoGap == EventStreamSpec => []NoGapAfterTheFirst
<1>1. EventStreamInv => NoGapAfterTheFirst
  BY DEF EventStreamInv, WireEndsAtCursor, MissedBeforeFirst, Consecutive, NoGapAfterTheFirst
<1> QED  BY <1>1, EventStreamInvariant, PTL

----------------------------------------------------------------------------
(* The integrations.  The row a dispatch goes by is one that was saved, and   *)
(* rows are only added: so the fail mode it was checked under is the one it   *)
(* is judged by.  A minter is never made or lost while the process lives.     *)

DispatchPlaces == {"idle", "lock", "load", "store", "resolve", "preflight", "compose"}
DispatchRecords ==
    [at : DispatchPlaces, row : Nat, heard : BOOLEAN, outcome : {"none", "pass", "blocked", "raised"}]

IntegrationTypes ==
    /\ saved \in Seq(SettingsRows) /\ Len(saved) \in 1 .. MaxSaves + 1
    /\ saving \in BOOLEAN
    /\ snapshot \in [row : Nat, live : BOOLEAN]
    /\ loader \in Dispatches \cup {NoLoader}
    /\ minter \in {"absent", "empty", "token"}
    /\ dispatch \in [Dispatches -> DispatchRecords]

\* A live snapshot and a dispatch that has resolved are of a row that was saved.
RowsAreSaved ==
    /\ snapshot.row <= Len(saved) /\ (snapshot.live => snapshot.row # 0)
    /\ \A d \in Dispatches :
          /\ dispatch[d].row <= Len(saved)
          /\ dispatch[d].at \in {"store", "resolve", "preflight"} => dispatch[d].row # 0

IntegrationsInv == IntegrationTypes /\ RowsAreSaved /\ ClosedMeansAudited

\* One dispatch has the audit's verdict, by the row it goes by.
Audited(d) ==
    (/\ dispatch[d].at = "preflight" /\ dispatch[d].outcome = "pass"
     /\ Row(d).fail_mode = "closed" /\ Configured(Row(d)))
    => \/ dispatch[d].heard
       \/ minter = "absent" /\ d \notin Forwarded /\ ~ApiKey(Row(d))

LEMMA AuditedEach == ClosedMeansAudited <=> \A d \in Dispatches : Audited(d)
BY DEF ClosedMeansAudited, Audited

LEMMA IntegrationsInit1 == IntegrationsInit => IntegrationsInv
<1> SUFFICES ASSUME IntegrationsInit  PROVE IntegrationsInv
  OBVIOUS
<1>1. \E row \in SettingsRows : saved = <<row>>
  BY Zenon DEF IntegrationsInit
<1>2. /\ saving = FALSE /\ snapshot = [row |-> 0, live |-> FALSE] /\ loader = NoLoader
      /\ minter \in {"absent", "empty"}
      /\ dispatch = [d \in Dispatches |-> [at |-> "idle", row |-> 0, heard |-> FALSE, outcome |-> "none"]]
  BY DEF IntegrationsInit, NoSnapshot, NoDispatch
<1>3. saved \in Seq(SettingsRows) /\ Len(saved) = 1
  BY <1>1
<1>4. IntegrationTypes
  <2>1. [at |-> "idle", row |-> 0, heard |-> FALSE, outcome |-> "none"] \in DispatchRecords
    BY DEF DispatchRecords, DispatchPlaces
  <2>2. dispatch \in [Dispatches -> DispatchRecords]
    BY <1>2, <2>1
  <2>3. Len(saved) \in 1 .. MaxSaves + 1
    BY <1>3, MaxSavesAssumption
  <2> QED
    BY <1>2, <1>3, <2>2, <2>3 DEF IntegrationTypes
<1>5. RowsAreSaved
  BY <1>2, <1>3 DEF RowsAreSaved
<1>6. \A d \in Dispatches : Audited(d)
  BY <1>2 DEF Audited
<1> QED
  BY <1>4, <1>5, <1>6, AuditedEach DEF IntegrationsInv

\* A dispatch that stays where it was keeps its verdict.
LEMMA AuditedKept ==
    ASSUME IntegrationsInv, NEW d \in Dispatches, dispatch'[d] = dispatch[d],
           \A i \in 1 .. Len(saved) : saved'[i] = saved[i],
           minter = "absent" => minter' = "absent"
    PROVE  Audited(d)'
<1>1. Audited(d)
  BY AuditedEach DEF IntegrationsInv
<1>2. CASE dispatch[d].at # "preflight"
  BY <1>2 DEF Audited
<1>3. CASE dispatch[d].at = "preflight"
  <2>1. dispatch[d].row \in 1 .. Len(saved)
    BY <1>3 DEF IntegrationsInv, RowsAreSaved, IntegrationTypes, DispatchRecords
  <2>2. Row(d)' = Row(d)
    BY <2>1 DEF Row
  <2> QED
    BY <1>1, <2>2 DEF Audited, Configured, ApiKey
<1> QED
  BY <1>2, <1>3

\* Dispatch d moves; what it moves to is typed, of a saved row and audited.
LEMMA DispatchMoves ==
    ASSUME IntegrationsInv, NEW d \in Dispatches, UNCHANGED <<saved, saving>>,
           NEW r \in DispatchRecords, dispatch' = [dispatch EXCEPT ![d] = r],
           r.row <= Len(saved), r.at \in {"store", "resolve", "preflight"} => r.row # 0,
           snapshot' \in [row : Nat, live : BOOLEAN],
           snapshot'.row <= Len(saved), snapshot'.live => snapshot'.row # 0,
           loader' \in Dispatches \cup {NoLoader},
           minter' \in {"absent", "empty", "token"}, minter = "absent" => minter' = "absent",
           Audited(d)'
    PROVE  IntegrationsInv'
<1>1. /\ dispatch' \in [Dispatches -> DispatchRecords] /\ dispatch'[d] = r
      /\ \A e \in Dispatches \ {d} : dispatch'[e] = dispatch[e]
  BY DEF IntegrationsInv, IntegrationTypes
<1>2. IntegrationTypes'
  BY <1>1 DEF IntegrationsInv, IntegrationTypes
<1>3. RowsAreSaved'
  BY <1>1 DEF IntegrationsInv, RowsAreSaved
<1>4. \A e \in Dispatches : Audited(e)'
  BY <1>1, AuditedKept
<1>5. ClosedMeansAudited'
  BY <1>4, Zenon DEF ClosedMeansAudited, Audited
<1> QED
  BY <1>2, <1>3, <1>5 DEF IntegrationsInv

\* Every dispatch stays where it is.
LEMMA DispatchesStay ==
    ASSUME IntegrationsInv, UNCHANGED <<dispatch, loader>>,
           saved' \in Seq(SettingsRows), Len(saved') \in Len(saved) .. MaxSaves + 1,
           \A i \in 1 .. Len(saved) : saved'[i] = saved[i],
           saving' \in BOOLEAN, snapshot' \in [row : Nat, live : BOOLEAN],
           snapshot'.row <= Len(saved), snapshot'.live => snapshot'.row # 0,
           minter' \in {"absent", "empty", "token"}, minter = "absent" => minter' = "absent"
    PROVE  IntegrationsInv'
<1>1. Len(saved) \in 1 .. MaxSaves + 1 /\ MaxSaves \in Nat
  BY MaxSavesAssumption DEF IntegrationsInv, IntegrationTypes
<1>2. Len(saved') \in 1 .. MaxSaves + 1 /\ Len(saved) <= Len(saved')
  BY <1>1
<1>3. IntegrationTypes'
  BY <1>2 DEF IntegrationsInv, IntegrationTypes
<1>4. RowsAreSaved'
  <2>1. snapshot'.row <= Len(saved')
    <3>1. snapshot'.row \in Nat
      OBVIOUS
    <3> QED
      BY <1>1, <1>2, <3>1
  <2>2. ASSUME NEW d \in Dispatches  PROVE dispatch[d].row <= Len(saved')
    <3>1. dispatch[d].row \in Nat /\ dispatch[d].row <= Len(saved)
      BY DEF IntegrationsInv, IntegrationTypes, RowsAreSaved, DispatchRecords
    <3> QED
      BY <1>1, <1>2, <3>1
  <2> QED
    BY <2>1, <2>2 DEF IntegrationsInv, RowsAreSaved
<1>5. \A d \in Dispatches : Audited(d)'
  BY AuditedKept
<1>6. ClosedMeansAudited'
  BY <1>5, Zenon DEF ClosedMeansAudited, Audited
<1> QED
  BY <1>3, <1>4, <1>6 DEF IntegrationsInv

LEMMA SettingsStep ==
    ASSUME IntegrationsInv,
           \/ \E row \in SettingsRows : UpdateIntegration(row)
           \/ InvalidateTenantCache \/ SnapshotExpires \/ TokenExpires
           \/ UNCHANGED integrationVars
    PROVE  IntegrationsInv'
<1>1. /\ saved \in Seq(SettingsRows) /\ Len(saved) \in 1 .. MaxSaves + 1 /\ MaxSaves \in Nat
      /\ saving \in BOOLEAN /\ snapshot \in [row : Nat, live : BOOLEAN]
      /\ minter \in {"absent", "empty", "token"}
      /\ snapshot.row <= Len(saved) /\ (snapshot.live => snapshot.row # 0)
  BY MaxSavesAssumption DEF IntegrationsInv, IntegrationTypes, RowsAreSaved
<1>2. ASSUME NEW row \in SettingsRows, UpdateIntegration(row)  PROVE IntegrationsInv'
  <2>1. /\ Len(saved) <= MaxSaves /\ saved' = Append(saved, row) /\ saving' = TRUE
        /\ UNCHANGED <<snapshot, loader, minter, dispatch>>
    BY <1>2 DEF UpdateIntegration
  <2>2. /\ saved' \in Seq(SettingsRows) /\ Len(saved') = Len(saved) + 1
        /\ \A i \in 1 .. Len(saved) : saved'[i] = saved[i]
    BY <1>1, <2>1
  <2>3. Len(saved') \in Len(saved) .. MaxSaves + 1
    BY <1>1, <2>1, <2>2
  <2> QED
    BY <1>1, <2>1, <2>2, <2>3, DispatchesStay
<1>3. Len(saved) \in Len(saved) .. MaxSaves + 1
  BY <1>1
<1>4. CASE InvalidateTenantCache
  <2>1. /\ saving' = FALSE /\ snapshot' = [row |-> 0, live |-> FALSE]
        /\ UNCHANGED <<saved, loader, minter, dispatch>>
    BY <1>4 DEF InvalidateTenantCache, NoSnapshot
  <2>2. /\ snapshot' \in [row : Nat, live : BOOLEAN] /\ snapshot'.row <= Len(saved)
        /\ ~snapshot'.live
    BY <1>1, <2>1
  <2> QED
    BY <1>1, <1>3, <2>1, <2>2, DispatchesStay
<1>5. CASE SnapshotExpires
  <2>1. /\ snapshot' = [snapshot EXCEPT !.live = FALSE]
        /\ UNCHANGED <<saved, saving, loader, minter, dispatch>>
    BY <1>5 DEF SnapshotExpires
  <2>2. /\ snapshot' \in [row : Nat, live : BOOLEAN] /\ snapshot'.row = snapshot.row
        /\ ~snapshot'.live
    BY <1>1, <2>1
  <2> QED
    BY <1>1, <1>3, <2>1, <2>2, DispatchesStay
<1>6. CASE TokenExpires
  <2>1. /\ minter = "token" /\ minter' = "empty"
        /\ UNCHANGED <<saved, saving, snapshot, loader, dispatch>>
    BY <1>6 DEF TokenExpires
  <2> QED
    BY <1>1, <1>3, <2>1, DispatchesStay
<1>7. CASE UNCHANGED integrationVars
  BY <1>1, <1>3, <1>7, DispatchesStay DEF integrationVars
<1> QED
  BY <1>2, <1>4, <1>5, <1>6, <1>7

\* What resolves the settings has no verdict yet.
LEMMA ResolvingStep ==
    ASSUME IntegrationsInv, NEW d \in Dispatches, Resolving(d)
    PROVE  IntegrationsInv'
<1>1. /\ dispatch[d] \in DispatchRecords /\ dispatch \in [Dispatches -> DispatchRecords]
      /\ snapshot \in [row : Nat, live : BOOLEAN]
      /\ snapshot.row <= Len(saved) /\ (snapshot.live => snapshot.row # 0)
      /\ loader \in Dispatches \cup {NoLoader} /\ minter \in {"absent", "empty", "token"}
      /\ Len(saved) \in Nat \ {0}
      /\ dispatch[d].row <= Len(saved)
      /\ dispatch[d].at = "store" => dispatch[d].row # 0
  BY DEF IntegrationsInv, IntegrationTypes, RowsAreSaved
<1>2. UNCHANGED <<saved, saving, minter>>
  BY DEF Resolving, GetSnapshot, RecheckSnapshot, LoadRows, StoreSnapshot
<1>3. loader' \in Dispatches \cup {NoLoader}
  BY <1>1 DEF Resolving, GetSnapshot, RecheckSnapshot, LoadRows, StoreSnapshot, BeginLoad
<1>4. /\ snapshot' \in [row : Nat, live : BOOLEAN]
      /\ snapshot'.row <= Len(saved) /\ (snapshot'.live => snapshot'.row # 0)
  <2>1. CASE UNCHANGED snapshot
    BY <1>1, <2>1
  <2>2. CASE StoreSnapshot(d)
    BY <1>1, <2>2 DEF StoreSnapshot, DispatchRecords
  <2> QED
    BY <2>1, <2>2 DEF Resolving, GetSnapshot, RecheckSnapshot, LoadRows
<1>5. PICK r \in DispatchRecords :
         /\ dispatch' = [dispatch EXCEPT ![d] = r]
         /\ r.row <= Len(saved) /\ (r.at \in {"store", "resolve", "preflight"} => r.row # 0)
         /\ r.at # "preflight"
  <2>1. CASE snapshot.live /\ Cached(d)
    <3> DEFINE r == [dispatch[d] EXCEPT !.at = "resolve", !.row = snapshot.row]
    <3>1. r \in DispatchRecords /\ r.at = "resolve" /\ r.row = snapshot.row
      BY <1>1 DEF DispatchRecords, DispatchPlaces
    <3>2. dispatch' = [dispatch EXCEPT ![d] = r]
      BY <1>1, <2>1 DEF Cached, GoesBy
    <3> HIDE DEF r
    <3> QED
      BY <1>1, <2>1, <3>1, <3>2
  <2>2. ASSUME NEW place \in {"load", "lock", "resolve"}, Goes(d, place),
               place = "resolve" => dispatch[d].at = "store"
        PROVE  \E r \in DispatchRecords :
                  /\ dispatch' = [dispatch EXCEPT ![d] = r]
                  /\ r.row <= Len(saved) /\ (r.at \in {"store", "resolve", "preflight"} => r.row # 0)
                  /\ r.at # "preflight"
    <3> DEFINE r == [dispatch[d] EXCEPT !.at = place]
    <3>1. r \in DispatchRecords /\ r.at = place /\ r.row = dispatch[d].row
      BY <1>1 DEF DispatchRecords, DispatchPlaces
    <3>2. dispatch' = [dispatch EXCEPT ![d] = r]
      BY <1>1, <2>2 DEF Goes
    <3> HIDE DEF r
    <3> QED
      BY <1>1, <2>2, <3>1, <3>2
  <2>3. CASE GoesBy(d, "store", Len(saved))
    <3> DEFINE r == [dispatch[d] EXCEPT !.at = "store", !.row = Len(saved)]
    <3>1. r \in DispatchRecords /\ r.at = "store" /\ r.row = Len(saved)
      BY <1>1 DEF DispatchRecords, DispatchPlaces
    <3>2. dispatch' = [dispatch EXCEPT ![d] = r]
      BY <1>1, <2>3 DEF GoesBy
    <3>3. r.row <= Len(saved) /\ r.row # 0 /\ r.at # "preflight"
      BY <1>1, <3>1
    <3> HIDE DEF r
    <3> QED
      BY <3>1, <3>2, <3>3, Zenon
  <2>4. CASE dispatch' = [dispatch EXCEPT ![d].at = "compose", ![d].outcome = "raised"]
    <3> DEFINE r == [dispatch[d] EXCEPT !.at = "compose", !.outcome = "raised"]
    <3>1. r \in DispatchRecords /\ r.at = "compose" /\ r.row = dispatch[d].row
      BY <1>1 DEF DispatchRecords, DispatchPlaces
    <3>2. dispatch' = [dispatch EXCEPT ![d] = r]
      BY <1>1, <2>4
    <3> HIDE DEF r
    <3> QED
      BY <1>1, <3>1, <3>2
  <2> QED
    BY <2>1, <2>2, <2>3, <2>4
    DEF Resolving, GetSnapshot, RecheckSnapshot, LoadRows, StoreSnapshot, BeginLoad
<1>6. Audited(d)'
  <2>1. dispatch'[d] = r
    BY <1>1, <1>5
  <2> QED
    BY <1>5, <2>1 DEF Audited
<1> QED
  BY <1>1, <1>2, <1>3, <1>4, <1>5, <1>6, DispatchMoves

\* Whoever asks for a token leaves an absent minter absent.
LEMMA MintedKeeps ==
    ASSUME minter \in {"absent", "empty", "token"}, NEW adapter, NEW token,
           minter = "absent" => adapter # "minted", Minted(adapter, token)
    PROVE  minter' \in {"absent", "empty", "token"} /\ (minter = "absent" => minter' = "absent")
BY DEF Minted

\* The sink is a Noop for a row that is not configured, or when there is nothing
\* to authenticate by; and what is not the Noop answers, or the fail mode does.
LEMMA PreflightAudits ==
    ASSUME IntegrationsInv, NEW d \in Dispatches, Preflight(d)
    PROVE  IntegrationsInv'
<1>1. /\ dispatch[d] \in DispatchRecords /\ dispatch \in [Dispatches -> DispatchRecords]
      /\ snapshot \in [row : Nat, live : BOOLEAN]
      /\ snapshot.row <= Len(saved) /\ (snapshot.live => snapshot.row # 0)
      /\ loader \in Dispatches \cup {NoLoader} /\ minter \in {"absent", "empty", "token"}
      /\ dispatch[d].row <= Len(saved)
      /\ dispatch[d].at = "resolve" => dispatch[d].row # 0
  BY DEF IntegrationsInv, IntegrationTypes, RowsAreSaved
<1> PICK sink : sink = ResolveAuditSink(d)
  OBVIOUS
<1> PICK mode : mode = Row(d).fail_mode
  OBVIOUS
<1>2. PICK token, reply :
         /\ reply \in AuditReplyTo(sink, token)
         /\ Minted(sink, token)
         /\ dispatch' = [dispatch EXCEPT ![d] =
               [dispatch[d] EXCEPT !.at = "preflight", !.heard = reply \in {"allowed", "silent"},
                                   !.outcome = PreflightOutcome(reply, mode)]]
  BY Zenon DEF Preflight
<1>3. dispatch[d].at = "resolve" /\ UNCHANGED <<saved, saving, snapshot, loader>>
  BY DEF Preflight
<1>4. reply \in AuditReplies \cup {"none"} /\ (reply = "none" => sink = "noop")
  BY <1>2 DEF AuditReplyTo, AuditReplies
<1>5. /\ sink = "minted" => minter # "absent"
      /\ sink = "noop" /\ Configured(Row(d)) => minter = "absent" /\ d \notin Forwarded /\ ~ApiKey(Row(d))
  BY DEF ResolveAuditSink
<1>6. minter' \in {"absent", "empty", "token"} /\ (minter = "absent" => minter' = "absent")
  BY <1>1, <1>2, <1>5, MintedKeeps
<1>7. PICK outcome : outcome = PreflightOutcome(reply, mode)
  OBVIOUS
<1>8. /\ outcome \in {"pass", "blocked", "raised"}
      /\ outcome = "pass" /\ mode = "closed" => reply \in {"none", "allowed", "silent"}
  BY <1>4, <1>7 DEF PreflightOutcome, FailResult, AuditReplies
<1>9. PICK heard : heard = (reply \in {"allowed", "silent"})
  OBVIOUS
<1>15. heard \in BOOLEAN
  BY <1>9
<1>10. PICK r : r = [dispatch[d] EXCEPT !.at = "preflight", !.heard = heard, !.outcome = outcome]
  OBVIOUS
<1>11. dispatch' = [dispatch EXCEPT ![d] = r]
  BY <1>2, <1>7, <1>9, <1>10
<1>12. /\ r \in DispatchRecords /\ r.row = dispatch[d].row
       /\ r.at = "preflight" /\ r.heard = heard /\ r.outcome = outcome
  BY <1>1, <1>8, <1>10, <1>15 DEF DispatchRecords, DispatchPlaces
<1>13. Audited(d)'
  <2>1. dispatch'[d] = r
    BY <1>1, <1>11
  <2>2. Row(d)' = Row(d)
    BY <1>3, <1>12, <2>1 DEF Row
  <2>3. (outcome = "pass" /\ mode = "closed" /\ Configured(Row(d)))
        => heard \/ (minter' = "absent" /\ d \notin Forwarded /\ ~ApiKey(Row(d)))
    <3>1. CASE reply \in {"allowed", "silent"}
      BY <1>9, <3>1
    <3>2. CASE reply = "none"
      BY <1>4, <1>5, <1>6, <3>2
    <3> QED
      BY <1>8, <3>1, <3>2
  <2>4. Configured(Row(d))' = Configured(Row(d)) /\ ApiKey(Row(d))' = ApiKey(Row(d))
    BY <2>2 DEF Configured, ApiKey
  <2> QED
    BY <1>12, <2>1, <2>2, <2>3, <2>4 DEF Audited
<1>14. r.row <= Len(saved) /\ r.row # 0
  BY <1>1, <1>3, <1>12
<1> QED
  BY <1>1, <1>3, <1>6, <1>11, <1>12, <1>13, <1>14, DispatchMoves

LEMMA CallingStep ==
    ASSUME IntegrationsInv, NEW d \in Dispatches, Calling(d)
    PROVE  IntegrationsInv'
<1>1. /\ dispatch \in [Dispatches -> DispatchRecords]
      /\ snapshot \in [row : Nat, live : BOOLEAN]
      /\ snapshot.row <= Len(saved) /\ (snapshot.live => snapshot.row # 0)
      /\ loader \in Dispatches \cup {NoLoader} /\ minter \in {"absent", "empty", "token"}
      /\ Len(saved) \in Nat
  BY DEF IntegrationsInv, IntegrationTypes, RowsAreSaved
<1>2. CASE Compose(d)
  <2> PICK client : client = ResolveKnowledgeClient(d)
    OBVIOUS
  <2>1. /\ \E token : Minted(client, token)
        /\ UNCHANGED <<saved, saving, snapshot, loader>>
        /\ \E call, reply :
              dispatch' = [dispatch EXCEPT ![d] = [at |-> "compose", row |-> 0, heard |-> FALSE,
                                                   outcome |-> KnowledgeOutcome(call, reply)]]
    BY <1>2, Zenon DEF Compose
  <2>2. client = "minted" => minter # "absent"
    BY DEF ResolveKnowledgeClient
  <2>3. minter' \in {"absent", "empty", "token"} /\ (minter = "absent" => minter' = "absent")
    BY <1>1, <2>1, <2>2, MintedKeeps
  <2>4. PICK call, reply :
           dispatch' = [dispatch EXCEPT ![d] = [at |-> "compose", row |-> 0, heard |-> FALSE,
                                                outcome |-> KnowledgeOutcome(call, reply)]]
    BY <2>1
  <2>5. PICK r : r = [at |-> "compose", row |-> 0, heard |-> FALSE, outcome |-> KnowledgeOutcome(call, reply)]
    OBVIOUS
  <2>6. r \in DispatchRecords /\ r.row = 0 /\ r.at = "compose"
    BY <2>5 DEF KnowledgeOutcome, DispatchRecords, DispatchPlaces
  <2>7. dispatch' = [dispatch EXCEPT ![d] = r]
    BY <2>4, <2>5
  <2>8. Audited(d)'
    <3>1. dispatch'[d] = r
      BY <1>1, <2>7
    <3> QED
      BY <2>6, <3>1 DEF Audited
  <2>9. r.row <= Len(saved)
    BY <1>1, <2>6
  <2> QED
    BY <1>1, <2>1, <2>3, <2>6, <2>7, <2>8, <2>9, DispatchMoves
<1>3. CASE EndDispatch(d)
  <2>1. /\ dispatch' = [dispatch EXCEPT ![d] = NoDispatch]
        /\ UNCHANGED <<saved, saving, snapshot, loader, minter>>
    BY <1>3 DEF EndDispatch
  <2>2. NoDispatch \in DispatchRecords /\ NoDispatch.row = 0 /\ NoDispatch.at = "idle"
    BY DEF NoDispatch, DispatchRecords, DispatchPlaces
  <2>3. Audited(d)'
    <3>1. dispatch'[d] = NoDispatch
      BY <1>1, <2>1
    <3> QED
      BY <2>2, <3>1 DEF Audited
  <2>4. NoDispatch.row <= Len(saved)
    BY <1>1, <2>2
  <2> QED
    BY <1>1, <2>1, <2>2, <2>3, <2>4, DispatchMoves
<1> QED
  BY <1>2, <1>3, PreflightAudits DEF Calling

LEMMA IntegrationsStep == IntegrationsInv /\ [IntegrationsNext]_integrationVars => IntegrationsInv'
BY SettingsStep, ResolvingStep, CallingStep DEF IntegrationsNext

LEMMA IntegrationsInvariant == IntegrationsSpec => []IntegrationsInv
BY IntegrationsInit1, IntegrationsStep, PTL DEF IntegrationsSpec

\* fail_mode closed (core/integrations: the preflight of BSupervisor): no
\* dispatch passes without the audit's answer, whatever is saved, cached, minted
\* or replied meanwhile, unless there is nothing at all to authenticate by.
THEOREM ClosedIsAudited == IntegrationsSpec => []ClosedMeansAudited
BY IntegrationsInvariant, PTL DEF IntegrationsInv

----------------------------------------------------------------------------
(* The process.  A step of it is a step of one service, and a stutter of the  *)
(* others.                                                                    *)

LEMMA IntegrationsTyped == IntegrationsInv => IntegrationsTypeOK
<1> SUFFICES ASSUME IntegrationsInv  PROVE IntegrationsTypeOK
  OBVIOUS
<1>1. IntegrationTypes /\ RowsAreSaved
  BY DEF IntegrationsInv
<1>2. Len(saved) \in Nat
  BY <1>1 DEF IntegrationTypes
<1>3. snapshot \in [row : 0 .. Len(saved), live : BOOLEAN]
  BY <1>1, <1>2 DEF IntegrationTypes, RowsAreSaved
<1>4. ASSUME NEW d \in Dispatches
      PROVE  /\ dispatch[d].at \in {"idle", "lock", "load", "store", "resolve", "preflight", "compose"}
             /\ dispatch[d].row \in 0 .. Len(saved)
             /\ dispatch[d].heard \in BOOLEAN
             /\ dispatch[d].outcome \in {"none", "pass", "blocked", "raised"}
  <2>1. dispatch[d] \in DispatchRecords /\ dispatch[d].row <= Len(saved)
    BY <1>1 DEF IntegrationTypes, RowsAreSaved
  <2> QED
    BY <1>2, <2>1 DEF DispatchRecords, DispatchPlaces
<1> QED
  BY <1>1, <1>3, <1>4 DEF IntegrationTypes, IntegrationsTypeOK

\* The services share no state: whatever the process does, each of them behaves
\* as its own specification says, so every theorem about one holds of it there.
THEOREM ServicesApart ==
    PlatformSpec => /\ SandboxSpec /\ IntegrationsSpec /\ RateLimiterSpec
                    /\ DispatchLockSpec /\ EventStreamSpec
<1>1. Init => /\ SandboxInit /\ IntegrationsInit /\ RateLimiterInit
              /\ DispatchLockInit /\ EventStreamInit
  BY DEF Init
<1>2. [Next]_platformVars => /\ [SandboxNext]_sandboxVars
                             /\ [IntegrationsNext]_integrationVars
                             /\ [RateLimiterNext]_rateVars
                             /\ [DispatchLockNext]_lockVars
                             /\ [EventStreamNext]_eventVars
  BY Zenon DEF Next, platformVars
<1> QED
  BY <1>1, <1>2, PTL
  DEF PlatformSpec, SandboxSpec, IntegrationsSpec, RateLimiterSpec, DispatchLockSpec, EventStreamSpec

\* The types of all the services of the process.
THEOREM PlatformTypeCorrect == PlatformSpec => []PlatformTypeOK
<1>1. RateInv => RateLimiterTypeOK
  BY DEF RateInv
<1>2. EventStreamInv => EventStreamTypeOK
  BY DEF EventStreamInv
<1>3. LockInv /\ TimesWithin /\ [DispatchLockNext]_lockVars => TimesWithin'
  BY TimesStep DEF LockInv
<1>4. DispatchLockSpec => []DispatchLockTypeOK
  BY <1>3, LockInitInv, LockStepInv, TimesInit, LockTyped, PTL DEF DispatchLockSpec
<1>5. RateLimiterSpec => []RateLimiterTypeOK
  BY <1>1, RateInit, RateStep, PTL DEF RateLimiterSpec
<1> QED
  BY <1>2, <1>4, <1>5, ServicesApart, SandboxTypeCorrect, IntegrationsInvariant, IntegrationsTyped,
     EventStreamInvariant, PTL DEF PlatformTypeOK

\* The process as a whole, whichever of the sandbox manager, the integrations, the
\* rate limiter, the lock and the event stream is the one that moves: permits are
\* accounted for and bound the live containers, what is in use is kept, closed
\* mode means audited, the limit holds, one session dispatches a run, and a
\* browser's events have no gap after the first.
THEOREM ServicesAreSafe ==
    PlatformSpec => /\ [](PermitsAccounted /\ LiveBounded) /\ OnlyReaperTearsDownInUse
                    /\ [](ClosedMeansAudited /\ LimitHolds)
                    /\ [](OneDispatcher /\ NoGapAfterTheFirst)
BY ServicesApart, PermitsAreAccounted, LiveIsBounded, InUseIsKept, ClosedIsAudited, LimitsHold,
   DispatchersExclude, StreamHasNoGap, PTL

=============================================================================
