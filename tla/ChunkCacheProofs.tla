-------------------------- MODULE ChunkCacheProofs --------------------------
(***************************************************************************)
(* What ChunkCache guarantees for any ranges, callers and budget.          *)
(***************************************************************************)
EXTENDS ChunkCache, FiniteSetTheorems, TLAPS

-----------------------------------------------------------------------------
(* The sum of the costs of some keys is a number (chunkCache.used).         *)
LEMMA WeightType ==
    ASSUME NEW size, NEW ks \in SUBSET Ranges PROVE Weight(size, ks) \in Nat
<1>1. IsFiniteSet(ks) BY FS_Subset, ChunkAssumption
<1>2. /\ Cardinality({k \in ks : size[k] # "none"}) \in Nat
      /\ Cardinality({k \in ks : size[k] = "full"}) \in Nat
  BY <1>1, FS_Subset, FS_CardinalityType
<1> QED BY <1>2 DEF Weight

(* The fetches: a range is registered exactly while its leader fetches it   *)
(* or is about to unregister it, and a fetch that is over has an outcome.   *)
Registered ==
    /\ \A c \in Callers :
        stage[c] \in {"fetch", "unregister"} => inflight[range[c]] = c
    /\ \A k \in Ranges : inflight[k] # None =>
        /\ stage[inflight[k]] \in {"fetch", "unregister"}
        /\ range[inflight[k]] = k

Settled ==
    \A c \in Callers : stage[c] \in {"unregister", "publish"} => outcome[c] # "pending"

FlightInv == ChunkTypeOK /\ Registered /\ Settled /\ FollowersAreAwaited

(* newChunkCache establishes the invariant of the fetches.                  *)
LEMMA FlightInit == ASSUME ChunkInit PROVE FlightInv
  BY ChunkAssumption
     DEF ChunkInit, FlightInv, ChunkTypeOK, Registered, Settled, FollowersAreAwaited,
         At, Sizes, PCs

(* Every step of a call keeps the types (StreamFromTelegram and what it     *)
(* calls).                                                                  *)
LEMMA TypeStep ==
    ASSUME ChunkTypeOK, Settled, NEW c \in Callers, Step(c)
    PROVE  ChunkTypeOK'
<1> USE DEF ChunkTypeOK, At, Goto, cacheVars, historyVars, callVars, getVars, flightVars,
            Sizes, PCs
<1>1. CASE GetLookup(c) BY <1>1 DEF GetLookup
<1>2. CASE GetHit(c) BY <1>2 DEF GetHit
<1>3. CASE GetMissing(c) BY <1>3 DEF GetMissing
<1>4. CASE GetDrop(c) BY <1>4 DEF GetDrop, Cost
<1>5. CASE Follow(c) BY <1>5 DEF Follow
<1>6. CASE Lead(c) BY <1>6 DEF Lead, LeadWhen
<1>7. CASE Fetch(c) BY <1>7 DEF Fetch
<1>8. CASE Unregister(c) BY <1>8 DEF Unregister
<1>9. CASE Publish(c) BY <1>9 DEF Publish, PublishTo, Take, Settled
<1>10. CASE Wake(c) BY <1>10 DEF Wake, Take
<1>11. CASE GiveUp(c) BY <1>11 DEF GiveUp, Take
<1>12. CASE OpenRange(c) BY <1>12 DEF OpenRange
<1>13. CASE WriteRange(c) BY <1>13 DEF WriteRange
<1>14. CASE WriteFails(c) BY <1>14 DEF WriteFails
<1>15. CASE InsertRange(c)
  <2> DEFINE size == [entries EXCEPT ![range[c]] = "full"]
             total == used - Cost(entries[range[c]]) + 2
  <2>1. PICK tried \in SUBSET Ranges, gone \in SUBSET Ranges :
          InsertCounting(c, size, total, tried, gone)
    BY <1>15 DEF InsertRange
  <2>2. range[c] \in Ranges BY <1>15 DEF InsertRange
  <2>3. size \in [Ranges -> Sizes] BY <2>2
  <2>4. used' = total - Weight(size, gone) BY <2>1 DEF InsertCounting
  <2>5. Weight(size, gone) \in Int BY WeightType
  <2>6. used' \in Int
    <3>1. total \in Int BY DEF Cost
    <3> HIDE DEF size, total
    <3> QED BY <3>1, <2>4, <2>5
  <2>7. entries' \in [Ranges -> Sizes] /\ file' \in [Ranges -> {"absent", "torn", "whole"}]
    BY <2>1, <2>3 DEF InsertCounting
  <2>8. linked' \in [Callers -> BOOLEAN]
    BY <2>1, Zenon DEF InsertCounting
  <2>9. /\ stage' = [stage EXCEPT ![c] = "serve"] /\ kept' \subseteq Ranges
        /\ UNCHANGED <<range, live, meta, got, inflight, leader, outcome, leaked>>
    BY <2>1 DEF InsertCounting
  <2> QED BY <1>15, <2>6, <2>7, <2>8, <2>9 DEF InsertRange
<1>16. CASE Serve(c) BY <1>16 DEF Serve
<1> QED
  BY <1>1, <1>2, <1>3, <1>4, <1>5, <1>6, <1>7, <1>8, <1>9, <1>10, <1>11,
     <1>12, <1>13, <1>14, <1>15, <1>16 DEF Step

(* Every step of a call keeps the fetches registered (chunkCoalesce.Do).    *)
LEMMA RegisteredStep ==
    ASSUME ChunkTypeOK, Registered, NEW c \in Callers, Step(c)
    PROVE  Registered'
<1> USE DEF ChunkTypeOK, Registered, At, Goto, cacheVars, historyVars, callVars, getVars, flightVars, PCs
<1>1. CASE Lead(c) BY <1>1, ChunkAssumption DEF Lead, LeadWhen
<1>2. CASE Fetch(c) BY <1>2 DEF Fetch
<1>3. CASE Unregister(c) BY <1>3, ChunkAssumption DEF Unregister
<1>4. CASE Serve(c) BY <1>4 DEF Serve
<1>5. ASSUME stage[c] \notin {"fetch", "unregister"}, stage'[c] \notin {"fetch", "unregister"},
             \A d \in Callers : d # c => stage'[d] = stage[d],
             UNCHANGED <<inflight, range>>
      PROVE  Registered'
  BY <1>5
<1>6. CASE GetLookup(c) \/ GetHit(c) \/ GetMissing(c) \/ GetDrop(c)
  BY <1>5, <1>6 DEF GetLookup, GetHit, GetMissing, GetDrop
<1>7. CASE Follow(c) \/ Publish(c) \/ Wake(c) \/ GiveUp(c)
  BY <1>5, <1>7 DEF Follow, Publish, PublishTo, Wake, GiveUp, Take
<1>8. CASE OpenRange(c) \/ WriteRange(c) \/ WriteFails(c)
  BY <1>5, <1>8 DEF OpenRange, WriteRange, WriteFails
<1>9. CASE InsertRange(c)
  BY <1>5, <1>9 DEF InsertRange, InsertCounting
<1> QED
  BY <1>1, <1>2, <1>3, <1>4, <1>6, <1>7, <1>8, <1>9 DEF Step

(* Every step of a call leaves every finished fetch with its outcome        *)
(* (chunkCoalesce.Do).                                                      *)
LEMMA SettledStep ==
    ASSUME ChunkTypeOK, Settled, NEW c \in Callers, Step(c)
    PROVE  Settled'
<1> USE DEF ChunkTypeOK, Settled, At, Goto, cacheVars, historyVars, callVars, getVars, flightVars, PCs
<1>1. CASE Fetch(c) BY <1>1 DEF Fetch
<1>2. CASE Publish(c) BY <1>2 DEF Publish, PublishTo, Take, Followers
<1>3. CASE Wake(c) \/ GiveUp(c) BY <1>3 DEF Wake, GiveUp, Take
<1>4. ASSUME stage'[c] \notin {"unregister", "publish"} \/ stage[c] = "unregister",
             \A d \in Callers : d # c => stage'[d] = stage[d],
             UNCHANGED outcome
      PROVE  Settled'
  BY <1>4
<1>5. CASE GetLookup(c) \/ GetHit(c) \/ GetMissing(c) \/ GetDrop(c)
  BY <1>4, <1>5 DEF GetLookup, GetHit, GetMissing, GetDrop
<1>6. CASE Follow(c) \/ Lead(c) \/ Unregister(c)
  BY <1>4, <1>6 DEF Follow, Lead, LeadWhen, Unregister
<1>7. CASE OpenRange(c) \/ WriteRange(c) \/ WriteFails(c) \/ Serve(c)
  BY <1>4, <1>7 DEF OpenRange, WriteRange, WriteFails, Serve
<1>8. CASE InsertRange(c)
  BY <1>4, <1>8 DEF InsertRange, InsertCounting
<1> QED
  BY <1>1, <1>2, <1>3, <1>5, <1>6, <1>7, <1>8 DEF Step

(* Every step of a call keeps each waiting follower with a leader that will *)
(* publish (chunkCoalesce.Do).                                              *)
LEMMA AwaitedStep ==
    ASSUME FlightInv, NEW c \in Callers, Step(c)
    PROVE  FollowersAreAwaited'
<1> USE DEF ChunkTypeOK, FollowersAreAwaited, FlightInv, At, Goto,
            cacheVars, historyVars, callVars, getVars, flightVars, PCs
<1>1. CASE Follow(c) BY <1>1, ChunkAssumption DEF Follow, Registered
<1>2. CASE Publish(c) BY <1>2 DEF Publish, PublishTo, Take, Followers, Settled
<1>3. CASE Fetch(c) BY <1>3 DEF Fetch
<1>4. CASE Unregister(c) BY <1>4 DEF Unregister
<1>5. CASE Serve(c) BY <1>5 DEF Serve
<1>6. ASSUME stage[c] \notin {"fetch", "unregister", "publish"}, stage'[c] # "wait",
             \A d \in Callers : d # c => stage'[d] = stage[d],
             UNCHANGED <<outcome, leader, range>>
      PROVE  FollowersAreAwaited'
  BY <1>6
<1>7. CASE GetLookup(c) \/ GetHit(c) \/ GetMissing(c) \/ GetDrop(c)
  BY <1>6, <1>7 DEF GetLookup, GetHit, GetMissing, GetDrop
<1>8. CASE Lead(c) BY <1>6, <1>8 DEF Lead, LeadWhen
<1>11. CASE Wake(c) \/ GiveUp(c) BY <1>11 DEF Wake, GiveUp, Take
<1>9. CASE OpenRange(c) \/ WriteRange(c) \/ WriteFails(c)
  BY <1>6, <1>9 DEF OpenRange, WriteRange, WriteFails
<1>10. CASE InsertRange(c)
  BY <1>6, <1>10 DEF InsertRange, InsertCounting
<1> QED
  BY <1>1, <1>2, <1>3, <1>4, <1>5, <1>7, <1>8, <1>9, <1>10, <1>11 DEF Step

(* The invariant of the fetches is inductive.                               *)
LEMMA FlightNext ==
    ASSUME FlightInv, [ChunkNext]_chunkVars PROVE FlightInv'
<1> USE DEF FlightInv
<1>1. ASSUME NEW c \in Callers, Step(c) PROVE FlightInv'
  BY <1>1, TypeStep, RegisteredStep, SettledStep, AwaitedStep
<1>2. ASSUME NEW c \in Callers, NEW k \in Ranges, Begin(c, k) PROVE FlightInv'
  BY <1>2 DEF Begin, ChunkTypeOK, Registered, Settled, FollowersAreAwaited, At, Goto,
              cacheVars, historyVars, getVars, flightVars, PCs
<1>3. ASSUME NEW c \in Callers, HangUp(c) PROVE FlightInv'
  BY <1>3 DEF HangUp, ChunkTypeOK, Registered, Settled, FollowersAreAwaited, At,
              cacheVars, historyVars, getVars, flightVars
<1>4. CASE Restart
  <2>1. used' \in Int
    BY <1>4, WeightType DEF Restart
  <2> QED
    BY <1>4, <2>1 DEF Restart, SizeOf, ChunkTypeOK, Registered, Settled, FollowersAreAwaited, At,
                      Sizes, PCs
<1>5. CASE UNCHANGED chunkVars
  BY <1>5 DEF chunkVars, ChunkTypeOK, Registered, Settled, FollowersAreAwaited, At,
              cacheVars, historyVars, callVars, getVars, flightVars
<1> QED
  BY <1>1, <1>2, <1>3, <1>4, <1>5 DEF ChunkNext

LEMMA FlightHolds == ChunkSpec => []FlightInv
  BY FlightInit, FlightNext, PTL DEF ChunkSpec

(* Every variable of the chunk cache keeps its type.                        *)
THEOREM TypeCorrect == ChunkSpec => []ChunkTypeOK
  BY FlightHolds, PTL DEF FlightInv

(* Two callers asking for the same range run only one fetch, whoever fails, *)
(* hangs up or comes back in between (stream_cache.go, Do).                 *)
THEOREM OneFetch == ChunkSpec => []OneFetchPerRange
<1>1. FlightInv => OneFetchPerRange
  BY DEF FlightInv, Registered, OneFetchPerRange, At
<1> QED BY <1>1, FlightHolds, PTL

(* No follower waits for a call that will not publish (stream_cache.go,     *)
(* Do).                                                                     *)
THEOREM NoWakeUpIsLost == ChunkSpec => []FollowersAreAwaited
  BY FlightHolds, PTL DEF FlightInv

-----------------------------------------------------------------------------
(* A set of entries that gains or loses one key (chunkCache.entries).       *)
LEMMA Swap ==
    ASSUME NEW S \in SUBSET Ranges, NEW T \in SUBSET Ranges, NEW k \in Ranges,
           \A j \in Ranges : j # k => (j \in S <=> j \in T)
    PROVE  /\ Cardinality(S) \in Nat /\ Cardinality(T) \in Nat
           /\ (k \in S <=> k \in T) => Cardinality(T) = Cardinality(S)
           /\ k \in S /\ k \notin T => Cardinality(T) = Cardinality(S) - 1
           /\ k \notin S /\ k \in T => Cardinality(T) = Cardinality(S) + 1
<1>1. IsFiniteSet(S) /\ IsFiniteSet(T) BY FS_Subset, ChunkAssumption
<1>2. Cardinality(S) \in Nat /\ Cardinality(T) \in Nat
  BY <1>1, FS_CardinalityType
<1>3. ASSUME k \in S <=> k \in T PROVE T = S BY <1>3
<1>4. ASSUME k \in S, k \notin T PROVE T = S \ {k} BY <1>4
<1>5. ASSUME k \notin S, k \in T PROVE T = S \cup {k} BY <1>5
<1>6. ASSUME k \in S, k \notin T PROVE Cardinality(T) = Cardinality(S) - 1
  BY <1>1, <1>2, <1>4, <1>6, FS_RemoveElement
<1>7. ASSUME k \notin S, k \in T PROVE Cardinality(T) = Cardinality(S) + 1
  BY <1>1, <1>2, <1>5, <1>7, FS_AddElement
<1> QED BY <1>2, <1>3, <1>6, <1>7

(* An entry that is made, replaced or dropped changes the sum by its cost.  *)
LEMMA WeightOfAssign ==
    ASSUME NEW size \in [Ranges -> Sizes], NEW k \in Ranges, NEW s \in Sizes,
           NEW new, new = [size EXCEPT ![k] = s]
    PROVE  Weight(new, Ranges) = Weight(size, Ranges) - Cost(size[k]) + Cost(s)
<1> DEFINE S1 == {j \in Ranges : size[j] # "none"}
           T1 == {j \in Ranges : new[j] # "none"}
           S2 == {j \in Ranges : size[j] = "full"}
           T2 == {j \in Ranges : new[j] = "full"}
<1>1. \A j \in Ranges : new[j] = IF j = k THEN s ELSE size[j]
  OBVIOUS
<1>2. /\ S1 \in SUBSET Ranges /\ T1 \in SUBSET Ranges
      /\ S2 \in SUBSET Ranges /\ T2 \in SUBSET Ranges
  OBVIOUS
<1>3. /\ \A j \in Ranges : j # k => (j \in S1 <=> j \in T1)
      /\ \A j \in Ranges : j # k => (j \in S2 <=> j \in T2)
  BY <1>1
<1>4. /\ k \in S1 <=> size[k] # "none"
      /\ k \in T1 <=> s # "none"
      /\ k \in S2 <=> size[k] = "full"
      /\ k \in T2 <=> s = "full"
  BY <1>1
<1>5. /\ Weight(size, Ranges) = Cardinality(S1) + Cardinality(S2)
      /\ Weight(new, Ranges) = Cardinality(T1) + Cardinality(T2)
  BY DEF Weight
<1> HIDE DEF S1, T1, S2, T2
<1>6. /\ Cardinality(S1) \in Nat /\ Cardinality(T1) \in Nat
      /\ (k \in S1 <=> k \in T1) => Cardinality(T1) = Cardinality(S1)
      /\ k \in S1 /\ k \notin T1 => Cardinality(T1) = Cardinality(S1) - 1
      /\ k \notin S1 /\ k \in T1 => Cardinality(T1) = Cardinality(S1) + 1
  BY <1>2, <1>3, Swap
<1>7. /\ Cardinality(S2) \in Nat /\ Cardinality(T2) \in Nat
      /\ (k \in S2 <=> k \in T2) => Cardinality(T2) = Cardinality(S2)
      /\ k \in S2 /\ k \notin T2 => Cardinality(T2) = Cardinality(S2) - 1
      /\ k \notin S2 /\ k \in T2 => Cardinality(T2) = Cardinality(S2) + 1
  BY <1>2, <1>3, Swap
<1>8. size[k] \in Sizes BY DEF Sizes
<1>9. Cardinality(T1) = Cardinality(S1) - (IF size[k] # "none" THEN 1 ELSE 0)
                                        + (IF s # "none" THEN 1 ELSE 0)
  BY <1>4, <1>6
<1>10. Cardinality(T2) = Cardinality(S2) - (IF size[k] = "full" THEN 1 ELSE 0)
                                         + (IF s = "full" THEN 1 ELSE 0)
  BY <1>4, <1>7
<1>11. \A t \in Sizes : Cost(t) = (IF t # "none" THEN 1 ELSE 0) + (IF t = "full" THEN 1 ELSE 0)
  BY DEF Cost, Sizes
<1> QED BY <1>5, <1>6, <1>7, <1>8, <1>9, <1>10, <1>11

(* What an eviction removes is what the sum loses (evictLocked).            *)
LEMMA WeightOfRest ==
    ASSUME NEW size, NEW gone \in SUBSET Ranges,
           NEW rest, rest = [j \in Ranges |-> IF j \in gone THEN "none" ELSE size[j]]
    PROVE  Weight(rest, Ranges) = Weight(size, Ranges) - Weight(size, gone)
<1> DEFINE S1 == {j \in Ranges : size[j] # "none"}
           S2 == {j \in Ranges : size[j] = "full"}
<1>1. /\ {j \in gone : size[j] # "none"} = S1 \cap gone
      /\ {j \in gone : size[j] = "full"} = S2 \cap gone
  OBVIOUS
<1>2. /\ {j \in Ranges : rest[j] # "none"} = S1 \ gone
      /\ {j \in Ranges : rest[j] = "full"} = S2 \ gone
  OBVIOUS
<1>3. IsFiniteSet(S1) /\ IsFiniteSet(S2) BY FS_Subset, ChunkAssumption
<1>4. /\ Cardinality(S1 \ gone) = Cardinality(S1) - Cardinality(S1 \cap gone)
      /\ Cardinality(S2 \ gone) = Cardinality(S2) - Cardinality(S2 \cap gone)
  BY <1>3, FS_Difference
<1>5. /\ Cardinality(S1) \in Nat /\ Cardinality(S1 \cap gone) \in Nat
      /\ Cardinality(S2) \in Nat /\ Cardinality(S2 \cap gone) \in Nat
  BY <1>3, FS_Intersection, FS_CardinalityType
<1>6. /\ Weight(size, Ranges) = Cardinality(S1) + Cardinality(S2)
      /\ Weight(size, gone) = Cardinality(S1 \cap gone) + Cardinality(S2 \cap gone)
      /\ Weight(rest, Ranges) = Cardinality(S1 \ gone) + Cardinality(S2 \ gone)
  BY <1>1, <1>2 DEF Weight
<1> HIDE DEF S1, S2
<1> QED BY <1>4, <1>5, <1>6

CountInv == ChunkTypeOK /\ NeverOvercounts

(* A Put that counts the new range and evicts leaves the count below the    *)
(* entries that are left, and over the budget only with what it tried and   *)
(* could not remove (chunkCache.Put, evictLocked).                          *)
LEMMA InsertCounts ==
    ASSUME CountInv, NEW c \in Callers, InsertRange(c)
    PROVE  /\ NeverOvercounts'
           /\ \/ used' <= MaxBytes
              \/ /\ \A k \in Ranges : entries'[k] # "none" => k \in kept'
                 /\ used' <= Weight(entries', kept') + leaked'
<1> DEFINE k     == range[c]
           size  == [entries EXCEPT ![k] = "full"]
           total == used - Cost(entries[k]) + 2
<1>1. k \in Ranges BY DEF CountInv, ChunkTypeOK, InsertRange, At
<1>2. PICK tried \in SUBSET Ranges, gone \in SUBSET Ranges :
        Evicts(size, total, k, tried, gone) /\ InsertCounting(c, size, total, tried, gone)
  BY DEF InsertRange
<1>3. /\ entries' = [j \in Ranges |-> IF j \in gone THEN "none" ELSE size[j]]
      /\ used' = total - Weight(size, gone)
      /\ kept' = tried \ gone /\ leaked' = leaked
  BY <1>2 DEF InsertCounting
<1>4. Weight(size, Ranges) = Weight(entries, Ranges) - Cost(entries[k]) + 2
  <2>1. entries \in [Ranges -> Sizes] /\ "full" \in Sizes
    BY DEF CountInv, ChunkTypeOK, Sizes
  <2>2. Cost("full") = 2 BY DEF Cost
  <2> QED BY <1>1, <2>1, <2>2, WeightOfAssign
<1>5. Weight(entries', Ranges) = Weight(size, Ranges) - Weight(size, gone)
  BY <1>3, WeightOfRest
<1>6. /\ Weight(entries, Ranges) \in Nat /\ Weight(size, Ranges) \in Nat
      /\ Weight(size, gone) \in Nat /\ Cost(entries[k]) \in Nat
      /\ used \in Int /\ leaked \in Int
  BY WeightType DEF Cost, CountInv, ChunkTypeOK
<1>7. used <= Weight(entries, Ranges) + leaked
  BY DEF CountInv, NeverOvercounts
<1>8. used' <= Weight(entries', Ranges) + leaked'
  <2> HIDE DEF size, k
  <2> QED BY <1>3, <1>4, <1>5, <1>6, <1>7
<1>9. CASE tried = {j \in Ranges : size[j] # "none"}
  <2>1. \A j \in Ranges : entries'[j] # "none" => j \in kept'
    BY <1>3, <1>9
  <2>2. /\ {j \in Ranges : entries'[j] # "none"} = {j \in kept' : entries'[j] # "none"}
        /\ {j \in Ranges : entries'[j] = "full"} = {j \in kept' : entries'[j] = "full"}
    BY <1>3, <2>1
  <2>3. Weight(entries', Ranges) = Weight(entries', kept')
    BY <2>2, Zenon DEF Weight
  <2> QED BY <1>8, <2>1, <2>3 DEF NeverOvercounts
<1>10. CASE tried # {j \in Ranges : size[j] # "none"}
  BY <1>2, <1>3, <1>8, <1>10 DEF Evicts, NeverOvercounts
<1> QED BY <1>9, <1>10

(* Every step of a call keeps the count (chunkCache.Get, Put).              *)
LEMMA CountStep ==
    ASSUME CountInv, NEW c \in Callers, Step(c)
    PROVE  NeverOvercounts'
<1> USE DEF cacheVars, historyVars
<1>1. CASE GetDrop(c)
  <2> DEFINE k == range[c]
  <2>1. /\ k \in Ranges /\ entries \in [Ranges -> Sizes] /\ "none" \in Sizes
        /\ used \in Int /\ leaked \in Int
    BY <1>1 DEF CountInv, ChunkTypeOK, GetDrop, At, Sizes
  <2>2. /\ entries' = [entries EXCEPT ![k] = "none"] /\ used' = used - Cost(meta[c])
        /\ leaked' = IF Cost(entries[k]) > Cost(meta[c])
                       THEN leaked + Cost(entries[k]) - Cost(meta[c]) ELSE leaked
    BY <1>1 DEF GetDrop
  <2>3. Weight(entries', Ranges) = Weight(entries, Ranges) - Cost(entries[k])
    <3>1. Weight(entries', Ranges) = Weight(entries, Ranges) - Cost(entries[k]) + Cost("none")
      BY <2>1, <2>2, WeightOfAssign
    <3>2. Cost("none") = 0 BY DEF Cost
    <3>3. Cost(entries[k]) \in Nat /\ Weight(entries, Ranges) \in Nat
      BY WeightType DEF Cost
    <3> HIDE DEF k
    <3> QED BY <3>1, <3>2, <3>3
  <2>4. Weight(entries, Ranges) \in Nat /\ Cost(entries[k]) \in Nat /\ Cost(meta[c]) \in Nat
    BY WeightType DEF Cost
  <2>5. used <= Weight(entries, Ranges) + leaked
    BY DEF CountInv, NeverOvercounts
  <2> HIDE DEF k
  <2> QED BY <2>1, <2>2, <2>3, <2>4, <2>5 DEF NeverOvercounts
<1>2. CASE InsertRange(c) BY <1>2, InsertCounts
<1>3. ASSUME UNCHANGED <<entries, used, leaked>> PROVE NeverOvercounts'
  BY <1>3 DEF CountInv, NeverOvercounts
<1>4. CASE GetLookup(c) \/ GetHit(c) \/ GetMissing(c)
  BY <1>3, <1>4 DEF GetLookup, GetHit, GetMissing
<1>5. CASE Follow(c) \/ Lead(c) \/ Fetch(c) \/ Unregister(c)
  BY <1>3, <1>5 DEF Follow, Lead, LeadWhen, Fetch, Unregister
<1>6. CASE Publish(c) \/ Wake(c) \/ GiveUp(c)
  BY <1>3, <1>6 DEF Publish, PublishTo, Wake, GiveUp
<1>7. CASE OpenRange(c) \/ WriteRange(c) \/ WriteFails(c) \/ Serve(c)
  BY <1>3, <1>7 DEF OpenRange, WriteRange, WriteFails, Serve
<1> QED BY <1>1, <1>2, <1>4, <1>5, <1>6, <1>7 DEF Step

(* The invariant of the count holds through every failure and restart.      *)
LEMMA CountHolds == ChunkSpec => []CountInv
<1>1. ASSUME ChunkInit PROVE CountInv
  <2>1. ChunkTypeOK BY <1>1, FlightInit DEF FlightInv
  <2>2. used = 0 /\ leaked = 0 /\ Weight(entries, Ranges) \in Nat
    BY <1>1, WeightType DEF ChunkInit
  <2> QED BY <2>1, <2>2 DEF CountInv, NeverOvercounts
<1>2. ASSUME FlightInv, CountInv, [ChunkNext]_chunkVars PROVE CountInv'
  <2>1. ChunkTypeOK' BY <1>2, FlightNext DEF FlightInv
  <2>2. ASSUME NEW c \in Callers, Step(c) PROVE NeverOvercounts'
    BY <1>2, <2>2, CountStep
  <2>3. ASSUME UNCHANGED cacheVars PROVE NeverOvercounts'
    BY <1>2, <2>3 DEF CountInv, NeverOvercounts, cacheVars, historyVars
  <2>4. ASSUME NEW c \in Callers, NEW k \in Ranges, Begin(c, k) PROVE NeverOvercounts'
    BY <2>3, <2>4 DEF Begin
  <2>5. ASSUME NEW c \in Callers, HangUp(c) PROVE NeverOvercounts'
    BY <2>3, <2>5 DEF HangUp
  <2>6. CASE Restart
    <3>1. used' = Weight(entries', Ranges) /\ leaked' = 0 BY <2>6 DEF Restart
    <3>2. Weight(entries', Ranges) \in Nat BY WeightType
    <3> QED BY <2>1, <3>1, <3>2 DEF CountInv, NeverOvercounts
  <2>7. CASE UNCHANGED chunkVars
    <3>1. UNCHANGED cacheVars BY <2>7 DEF chunkVars
    <3> QED BY <2>1, <2>3, <3>1 DEF CountInv
  <2> QED BY <1>2, <2>1, <2>2, <2>4, <2>5, <2>6, <2>7 DEF ChunkNext, CountInv
<1> QED BY <1>1, <1>2, FlightHolds, PTL DEF ChunkSpec

(* The byte count exceeds the sizes of the entries by no more than what Get *)
(* leaks, also with files torn by a full disk or a stop, files that cannot  *)
(* be removed, and restarts over them (chunk_cache.go).                     *)
THEOREM CountHasBacking == ChunkSpec => []NeverOvercounts
  BY CountHolds, PTL DEF CountInv

(* Put evicts down to the budget, or has tried every entry and is over it   *)
(* by what it could not remove and what Get leaked (chunk_cache.go,         *)
(* evictLocked).                                                            *)
THEOREM PutKeepsBudget == ChunkSpec => PutWithinBudget
<1> DEFINE Within ==
      \/ used' <= MaxBytes
      \/ /\ \A k \in Ranges : entries'[k] # "none" => k \in kept'
         /\ used' <= Weight(entries', kept') + leaked'
    Budget == \A c \in Callers : At(c, "insert") /\ stage'[c] = "serve" => Within
<1>1. ASSUME CountInv, [ChunkNext]_chunkVars PROVE [Budget]_chunkVars
  <2> SUFFICES ASSUME ChunkNext, NEW c \in Callers, At(c, "insert"), stage'[c] = "serve"
               PROVE  Within
    BY <1>1
  <2> HIDE DEF Within
  <2>1. ASSUME NEW d \in Callers, Step(d), d # c PROVE FALSE
    BY <1>1, <2>1 DEF CountInv, ChunkTypeOK, At, Goto,
                Step, Take, GetLookup, GetHit, GetMissing, GetDrop, Follow, Lead, LeadWhen,
                Fetch, Unregister, Publish, PublishTo, Wake, GiveUp, OpenRange, WriteRange, WriteFails,
                InsertRange, InsertCounting, Serve
  <2>2. CASE Step(c)
    <3>1. InsertRange(c)
      BY <2>2 DEF At, Step, GetLookup, GetHit, GetMissing, GetDrop, Follow, Lead, LeadWhen, Fetch,
                  Unregister, Publish, PublishTo, Wake, GiveUp, OpenRange, WriteRange, WriteFails, Serve
    <3> QED BY <1>1, <3>1, InsertCounts DEF Within
  <2>3. ASSUME NEW d \in Callers, NEW k \in Ranges, Begin(d, k) PROVE FALSE
    BY <1>1, <2>3 DEF Begin, CountInv, ChunkTypeOK, At, Goto
  <2>4. ASSUME NEW d \in Callers, HangUp(d) PROVE FALSE BY <2>4 DEF HangUp, At
  <2>5. CASE Restart BY <2>5 DEF Restart
  <2> QED BY <2>1, <2>2, <2>3, <2>4, <2>5 DEF ChunkNext
<1> QED BY <1>1, CountHolds, PTL DEF ChunkSpec, PutWithinBudget
=============================================================================
