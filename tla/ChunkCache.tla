----------------------------- MODULE ChunkCache -----------------------------
(***************************************************************************)
(* Streaming a range of a file (internal/drive/service.go,                 *)
(* StreamFromTelegram): the on-disk cache of ranges (chunk_cache.go) and   *)
(* the coalescing of concurrent fetches of one range (stream_cache.go).    *)
(*                                                                         *)
(* A step is one critical section of chunkCache.mu or chunkCoalesce.mu,    *)
(* one disk operation or one fetch.  A range has two units of bytes; a     *)
(* file that os.WriteFile has not finished is torn and has one of them.    *)
(* What a call does not read again is reset at once.                       *)
(***************************************************************************)
EXTENDS Integers, FiniteSets

CONSTANTS
    Ranges,       \* the keys: file, offset and length
    Callers,      \* concurrent calls of StreamFromTelegram
    MaxBytes,     \* chunkCache.maxBytes, in units
    ChunkEvents,  \* what may happen besides the calls
    None          \* no caller, no range

(* "remove_fails": a file that is held open, so that os.Remove fails.       *)
ASSUME ChunkAssumption ==
    /\ MaxBytes \in Nat \ {0}
    /\ ChunkEvents \subseteq {"fetch_fails", "hang_up", "disk_full", "remove_fails", "restart"}
    /\ IsFiniteSet(Ranges)
    /\ None \notin Ranges /\ None \notin Callers

VARIABLES
    file,      \* chunks/<aa>/<hash>: absent, torn or whole
    entries,   \* chunkCache.entries: no entry, or the size it has
    used,      \* chunkCache.used
    inflight,  \* chunkCoalesce.inflight: the caller that fetches, or None
    stage,     \* of each caller: where it is
    range,     \* the range it wants
    meta,      \* the size in the chunkMeta that Get has looked up
    leader,    \* the caller whose fetch a follower waits for
    outcome,   \* what that fetch, or its own, came to
    live,      \* its context is not cancelled
    got,       \* the bytes it has
    linked,    \* the file its WriteFile has open is still in the directory
    kept,      \* the entries that the last eviction tried and could not remove
    leaked     \* what Get has taken out of entries and not out of used

(* kept and leaked are histories: the program has neither.                  *)
historyVars == <<kept, leaked>>
cacheVars  == <<file, entries, used, historyVars>>
callVars   == <<range, live>>
getVars    == <<meta, got, linked>>
flightVars == <<inflight, leader, outcome>>
chunkVars == <<cacheVars, stage, callVars, getVars, flightVars>>

PCs   == {"idle", "lookup", "read", "drop", "join", "wait", "fetch", "unregister",
          "publish", "open", "write", "insert", "serve"}
Sizes == {"none", "torn", "full"}

ChunkTypeOK ==
    /\ file \in [Ranges -> {"absent", "torn", "whole"}]
    /\ entries \in [Ranges -> Sizes] /\ used \in Int
    /\ inflight \in [Ranges -> Callers \cup {None}]
    /\ stage \in [Callers -> PCs] /\ range \in [Callers -> Ranges \cup {None}]
    /\ meta \in [Callers -> Sizes] /\ leader \in [Callers -> Callers \cup {None}]
    /\ outcome \in [Callers -> {"pending", "whole", "error"}]
    /\ live \in [Callers -> BOOLEAN]
    /\ got \in [Callers -> {"none", "torn", "whole", "error"}]
    /\ linked \in [Callers -> BOOLEAN]
    /\ kept \subseteq Ranges /\ leaked \in Int
    /\ \A c \in Callers : stage[c] # "idle" => range[c] \in Ranges

Cost(s) == IF s = "full" THEN 2 ELSE IF s = "torn" THEN 1 ELSE 0

(* The sum of the costs of some keys.                                       *)
Weight(size, ks) ==
    Cardinality({k \in ks : size[k] # "none"}) + Cardinality({k \in ks : size[k] = "full"})

(* newChunkCache on an empty directory.                                     *)
ChunkInit ==
    /\ file = [k \in Ranges |-> "absent"] /\ entries = [k \in Ranges |-> "none"]
    /\ used = 0 /\ kept = {} /\ leaked = 0
    /\ inflight = [k \in Ranges |-> None]
    /\ stage = [c \in Callers |-> "idle"] /\ range = [c \in Callers |-> None]
    /\ live = [c \in Callers |-> TRUE]
    /\ meta = [c \in Callers |-> "none"] /\ got = [c \in Callers |-> "none"]
    /\ linked = [c \in Callers |-> TRUE]
    /\ leader = [c \in Callers |-> None] /\ outcome = [c \in Callers |-> "pending"]

At(c, l)   == stage[c] = l
Goto(c, l) == stage' = [stage EXCEPT ![c] = l]

-----------------------------------------------------------------------------
(* Seeded fault: the key the call works on is not the one it asked for.     *)
BeginsWithoutRange(c, k) ==
    /\ At(c, "idle")
    /\ Goto(c, "lookup")
    /\ UNCHANGED <<cacheVars, callVars, getVars, flightVars>>

(* StreamFromTelegram begins.  Calls that return before they use the cache  *)
(* (no uploader, no version on Telegram) change nothing, and a call for a   *)
(* whole file (length 0) is coalesced and not cached: both are left out.    *)
Begin(c, k) ==
    /\ At(c, "idle")
    /\ range' = [range EXCEPT ![c] = k]
    /\ Goto(c, "lookup")
    /\ UNCHANGED <<cacheVars, live, getVars, flightVars>>

(* chunkCache.Get: the lookup, the read without the lock, and the removal   *)
(* of an entry whose file is gone.  What is subtracted is the size of the   *)
(* entry looked up, not of the one that is removed.                         *)
GetLookup(c) ==
    /\ At(c, "lookup")
    /\ meta' = [meta EXCEPT ![c] = entries[range[c]]]
    /\ Goto(c, IF entries[range[c]] = "none" THEN "join" ELSE "read")
    /\ UNCHANGED <<cacheVars, callVars, got, linked, flightVars>>

GetHit(c) ==
    /\ At(c, "read") /\ file[range[c]] # "absent"
    /\ got' = [got EXCEPT ![c] = file[range[c]]]
    /\ meta' = [meta EXCEPT ![c] = "none"]
    /\ Goto(c, "serve")
    /\ UNCHANGED <<cacheVars, callVars, linked, flightVars>>

GetMissing(c) ==
    /\ At(c, "read") /\ file[range[c]] = "absent"
    /\ Goto(c, "drop")
    /\ UNCHANGED <<cacheVars, callVars, getVars, flightVars>>

GetDrop(c) ==
    /\ At(c, "drop")
    /\ entries' = [entries EXCEPT ![range[c]] = "none"]
    /\ used' = used - Cost(meta[c])
    /\ leaked' = IF Cost(entries[range[c]]) > Cost(meta[c])
                   THEN leaked + Cost(entries[range[c]]) - Cost(meta[c]) ELSE leaked
    /\ meta' = [meta EXCEPT ![c] = "none"]
    /\ Goto(c, "join")
    /\ UNCHANGED <<file, kept, callVars, got, linked, flightVars>>

-----------------------------------------------------------------------------
(* chunkCoalesce.Do: follow the fetch of this range, or lead a new one.     *)
Follow(c) ==
    /\ At(c, "join") /\ inflight[range[c]] # None
    /\ leader' = [leader EXCEPT ![c] = inflight[range[c]]]
    /\ Goto(c, "wait")
    /\ UNCHANGED <<cacheVars, callVars, getVars, inflight, outcome>>

LeadWhen(c, free) ==
    /\ At(c, "join") /\ free
    /\ inflight' = [inflight EXCEPT ![range[c]] = c]
    /\ Goto(c, "fetch")
    /\ UNCHANGED <<cacheVars, callVars, getVars, leader, outcome>>

(* Seeded fault: a caller that finds a fetch may start one of its own.      *)
LeadsAnyway(c) == LeadWhen(c, TRUE)

Lead(c) == LeadWhen(c, inflight[range[c]] = None)

(* streamFromTelegramRaw: with its context cancelled it may fail.           *)
Fetch(c) ==
    /\ At(c, "fetch")
    /\ \E o \in {"whole", "error"} :
        /\ o = "error" => (live[c] => "fetch_fails" \in ChunkEvents)
        /\ outcome' = [outcome EXCEPT ![c] = o]
    /\ live' = [live EXCEPT ![c] = TRUE]
    /\ Goto(c, "unregister")
    /\ UNCHANGED <<cacheVars, range, getVars, inflight, leader>>

Unregister(c) ==
    /\ At(c, "unregister")
    /\ inflight' = [inflight EXCEPT ![range[c]] = None]
    /\ Goto(c, "publish")
    /\ UNCHANGED <<cacheVars, callVars, getVars, leader, outcome>>

(* What a caller does with the outcome of a fetch.                          *)
Take(c, o) ==
    /\ got' = [got EXCEPT ![c] = o]
    /\ live' = [live EXCEPT ![c] = TRUE]
    /\ leader' = [leader EXCEPT ![c] = None]
    /\ Goto(c, IF o = "error" THEN "serve" ELSE "open")

(* close(entry.wait): the followers that wait now see the outcome, and the  *)
(* leader goes on with its own.                                             *)
PublishTo(c, told) ==
    /\ At(c, "publish")
    /\ outcome' = [d \in Callers |-> IF d = c THEN "pending"
                                     ELSE IF d \in told THEN outcome[c] ELSE outcome[d]]
    /\ Take(c, outcome[c])
    /\ UNCHANGED <<cacheVars, range, meta, linked, inflight>>

Followers(c) == {d \in Callers : At(d, "wait") /\ leader[d] = c}

(* Seeded fault: a fetch that failed returns before it closes the channel.  *)
PublishesBytesOnly(c) ==
    PublishTo(c, IF outcome[c] = "error" THEN {} ELSE Followers(c))

Publish(c) == PublishTo(c, Followers(c))

Wake(c) ==
    /\ At(c, "wait") /\ outcome[c] # "pending"
    /\ outcome' = [outcome EXCEPT ![c] = "pending"]
    /\ Take(c, outcome[c])
    /\ UNCHANGED <<cacheVars, range, meta, linked, inflight>>

(* A follower whose own context ends gives up.                              *)
GiveUp(c) ==
    /\ At(c, "wait") /\ ~live[c]
    /\ outcome' = [outcome EXCEPT ![c] = "pending"]
    /\ Take(c, "error")
    /\ UNCHANGED <<cacheVars, range, meta, linked, inflight>>

-----------------------------------------------------------------------------
(* chunkCache.Put, by the leader and by each follower: os.WriteFile opens   *)
(* and truncates, then writes; then the entry is counted.  Where MkdirAll   *)
(* or WriteFile fails, Put returns and leaves the file as it is.            *)
OpenRange(c) ==
    /\ At(c, "open")
    /\ file' = [file EXCEPT ![range[c]] = "torn"]
    /\ Goto(c, "write")
    /\ UNCHANGED <<entries, used, historyVars, callVars, getVars, flightVars>>

WriteRange(c) ==
    /\ At(c, "write")
    /\ file' = IF linked[c] THEN [file EXCEPT ![range[c]] = "whole"] ELSE file
    /\ linked' = [linked EXCEPT ![c] = TRUE]
    /\ Goto(c, "insert")
    /\ UNCHANGED <<entries, used, historyVars, callVars, meta, got, flightVars>>

WriteFails(c) ==
    /\ stage[c] \in {"open", "write"} /\ "disk_full" \in ChunkEvents
    /\ linked' = [linked EXCEPT ![c] = TRUE]
    /\ Goto(c, "serve")
    /\ UNCHANGED <<cacheVars, callVars, meta, got, flightVars>>

(* evictLocked, in an order it may take, with the newest entry k last: it   *)
(* tries entries while the count is over the budget, and what os.Remove     *)
(* cannot remove stays, as an entry and in the count.                       *)
Evicts(size, total, k, tried, gone) ==
    LET cached == {j \in Ranges : size[j] # "none"} IN
    /\ gone \subseteq tried /\ tried \subseteq cached
    /\ gone # tried => "remove_fails" \in ChunkEvents
    /\ tried # cached => total - Weight(size, gone) <= MaxBytes
    /\ tried # {} => \E j \in tried :
        /\ total - Weight(size, gone \ {j}) > MaxBytes
        /\ k \in tried => j = k /\ tried = cached

InsertCounting(c, size, total, tried, gone) ==
    /\ entries' = [j \in Ranges |-> IF j \in gone THEN "none" ELSE size[j]]
    /\ used' = total - Weight(size, gone)
    /\ file' = [j \in Ranges |-> IF j \in gone THEN "absent" ELSE file[j]]
    /\ linked' = [d \in Callers |-> linked[d] /\ (At(d, "write") => range[d] \notin gone)]
    /\ kept' = tried \ gone
    /\ Goto(c, "serve")
    /\ UNCHANGED <<leaked, callVars, meta, got, flightVars>>

(* Seeded fault: the size of the entry that is replaced stays counted.      *)
InsertCountsTwice(c) ==
    /\ At(c, "insert")
    /\ LET size == [entries EXCEPT ![range[c]] = "full"]
           total == used + 2
       IN  \E tried, gone \in SUBSET Ranges :
               /\ Evicts(size, total, range[c], tried, gone)
               /\ InsertCounting(c, size, total, tried, gone)

(* Seeded fault: room is made before the new bytes are counted.             *)
InsertAfterEviction(c) ==
    /\ At(c, "insert")
    /\ LET size == [entries EXCEPT ![range[c]] = "full"]
           total == used - Cost(entries[range[c]])
       IN  \E tried, gone \in SUBSET Ranges :
               /\ Evicts(size, total, range[c], tried, gone)
               /\ InsertCounting(c, size, total + 2, tried, gone)

InsertRange(c) ==
    /\ At(c, "insert")
    /\ LET size == [entries EXCEPT ![range[c]] = "full"]
           total == used - Cost(entries[range[c]]) + 2
       IN  \E tried, gone \in SUBSET Ranges :
               /\ Evicts(size, total, range[c], tried, gone)
               /\ InsertCounting(c, size, total, tried, gone)

(* The bytes or the error go to the caller.                                 *)
Serve(c) ==
    /\ At(c, "serve")
    /\ range' = [range EXCEPT ![c] = None] /\ got' = [got EXCEPT ![c] = "none"]
    /\ kept' = {}
    /\ Goto(c, "idle")
    /\ UNCHANGED <<file, entries, used, leaked, live, meta, linked, flightVars>>

-----------------------------------------------------------------------------
(* The client goes away, while its call waits where its context is read.    *)
HangUp(c) ==
    /\ "hang_up" \in ChunkEvents
    /\ stage[c] \in {"wait", "fetch"} /\ live[c]
    /\ live' = [live EXCEPT ![c] = FALSE]
    /\ UNCHANGED <<cacheVars, stage, range, getVars, flightVars>>

(* The server stops at any moment, and newChunkCache scans the directory:   *)
(* every file is an entry of the size it has, torn or whole.                *)
SizeOf(f) == IF f = "absent" THEN "none" ELSE IF f = "torn" THEN "torn" ELSE "full"

Restart ==
    /\ "restart" \in ChunkEvents
    /\ entries' = [k \in Ranges |-> SizeOf(file[k])]
    /\ used' = Weight(entries', Ranges)
    /\ kept' = {} /\ leaked' = 0
    /\ inflight' = [k \in Ranges |-> None]
    /\ stage' = [c \in Callers |-> "idle"] /\ range' = [c \in Callers |-> None]
    /\ live' = [c \in Callers |-> TRUE]
    /\ meta' = [c \in Callers |-> "none"] /\ got' = [c \in Callers |-> "none"]
    /\ linked' = [c \in Callers |-> TRUE]
    /\ leader' = [c \in Callers |-> None] /\ outcome' = [c \in Callers |-> "pending"]
    /\ UNCHANGED file

Step(c) ==
    \/ GetLookup(c) \/ GetHit(c) \/ GetMissing(c) \/ GetDrop(c)
    \/ Follow(c) \/ Lead(c) \/ Fetch(c) \/ Unregister(c) \/ Publish(c)
    \/ Wake(c) \/ GiveUp(c)
    \/ OpenRange(c) \/ WriteRange(c) \/ WriteFails(c) \/ InsertRange(c) \/ Serve(c)

ChunkNext ==
    \/ \E c \in Callers : Step(c)
    \/ \E c \in Callers, k \in Ranges : Begin(c, k)
    \/ \E c \in Callers : HangUp(c)
    \/ Restart

(* The goroutine of every call runs, and a request to Telegram returns.     *)
ChunkFairness == \A c \in Callers : WF_chunkVars(Step(c))

ChunkSpec     == ChunkInit /\ [][ChunkNext]_chunkVars
ChunkFairSpec == ChunkSpec /\ ChunkFairness

-----------------------------------------------------------------------------
(* Two callers asking for the same range run only one fetch                 *)
(* (stream_cache.go, Do): the check of the map and the entry in it are one  *)
(* critical section, and the entry outlives the fetch.                      *)
OneFetchPerRange ==
    \A c, d \in Callers :
        At(c, "fetch") /\ At(d, "fetch") /\ range[c] = range[d] => c = d

(* A caller that waits for a fetch waits for a call that has yet to publish *)
(* its outcome, and for the range it asked for itself: no wake-up is lost,  *)
(* whatever becomes of the leader, and nobody is served another range       *)
(* (stream_cache.go, Do).                                                   *)
FollowersAreAwaited ==
    \A c \in Callers :
        At(c, "wait") /\ outcome[c] = "pending" =>
            /\ leader[c] \in Callers
            /\ stage[leader[c]] \in {"fetch", "unregister", "publish"}
            /\ range[leader[c]] = range[c]

(* The byte count never exceeds the sizes of the entries by more than what  *)
(* Get has leaked, the sizes of whole entries that it dropped for a torn    *)
(* one it had looked up: nothing else that Get drops, Put replaces and      *)
(* evicts, and a scan finds stays counted without an entry (chunk_cache.go).*)
NeverOvercounts == used <= Weight(entries, Ranges) + leaked

(* Every Put leaves the count within the budget (chunk_cache.go, Put:       *)
(* "evicts LRU entries past the budget"), also after a scan that found more *)
(* on disk; or it has tried every entry, and what is counted is what it     *)
(* could not remove and what Get has leaked.                                *)
PutWithinBudget ==
    [][\A c \in Callers : At(c, "insert") /\ stage'[c] = "serve" =>
           \/ used' <= MaxBytes
           \/ /\ \A k \in Ranges : entries'[k] # "none" => k \in kept'
              /\ used' <= Weight(entries', kept') + leaked']_chunkVars

(* Every call returns: a follower is woken or gives up, also when its       *)
(* leader fails or loses its client (stream_cache.go, Do).                  *)
CallersReturn == \A c \in Callers : ~At(c, "idle") ~> At(c, "idle")

(* A call that succeeds serves the bytes of the range (chunk_cache.go, Get: *)
(* "Get returns cached bytes for the key, or nil if not present").          *)
RangesAreWhole == \A c \in Callers : At(c, "serve") => got[c] # "torn"
=============================================================================
