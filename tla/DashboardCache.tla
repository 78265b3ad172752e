--------------------------- MODULE DashboardCache ---------------------------
(***************************************************************************)
(* The dashboard's cache in memory (CacheService) and the computations     *)
(* behind it (DashboardService, MetricsService).  A miss reads the         *)
(* database at several awaits and stores the result when it has it; a      *)
(* refresh empties the category meanwhile.  A full cache evicts its oldest *)
(* item before it takes another.                                           *)
(***************************************************************************)
EXTENDS Handlers

CONSTANTS Query,    \* overviews, by their query
          Widget,   \* widgets, by their query
          Role,     \* configurations, by role
          Export,   \* metadata of exports
          Ttl,      \* the time each key lives
          MaxSize, MaxTime, MaxWrites

Key == Query \cup Widget \cup Role \cup Export

ASSUME DashAssumption == /\ NONE \notin Key
                         /\ Ttl \in [Key -> Nat]
                         /\ MaxSize \in Nat \ {0} /\ MaxTime \in Nat /\ MaxWrites \in Nat

VARIABLES cache,   \* the item of each key, or NONE
          now,     \* the time
          written, \* how often the database has changed
          floor,   \* written, at the last refresh or clearance (history)
          dashReq  \* the computations in flight

dashVars == <<cache, now, written, floor, dashReq>>

-----------------------------------------------------------------------------
\* An item: when it was stored, what it has seen of the database, and whether
\* it was read before a refresh and stored after it (history).
CacheItem == [at : 0..MaxTime, seen : 0..MaxWrites, overtaken : BOOLEAN]

DashReqs == [pc : {"idle", "read", "store"}, key : Key \cup {NONE},
             seen : 0..MaxWrites, overtaken : BOOLEAN]

DashIdle == [pc |-> "idle", key |-> NONE, seen |-> 0, overtaken |-> FALSE]

DashInit == /\ cache = [k \in Key |-> NONE]
            /\ now = 0 /\ written = 0 /\ floor = 0
            /\ dashReq = [r \in Request |-> DashIdle]

Cached == {k \in Key : cache[k] # NONE}

Expired(k) == cache[k] # NONE /\ now - cache[k].at > Ttl[k]

\* get and has: an expired item is as good as none.
Hit(k) == cache[k] # NONE /\ ~Expired(k)

Dropped(keys) == [k \in Key |-> IF k \in keys THEN NONE ELSE cache[k]]

-----------------------------------------------------------------------------
\* Mutant: the cache makes room when it is over its size.
IsOverfull(keys) == Cardinality(keys) > MaxSize

IsFull(keys) == Cardinality(keys) >= MaxSize

\* evictOldest: an item stored at this very moment is never chosen.
Evictable(keys) == {k \in keys : /\ cache[k].at < now
                                 /\ \A o \in keys : cache[k].at <= cache[o].at}

\* set, when the keys given are there: a full cache loses its oldest item, even
\* when the key is one of them.
Put(keys, k, item) ==
  \E gone \in IF IsFull(keys) /\ Evictable(keys) # {} THEN {{e} : e \in Evictable(keys)}
             ELSE {{}} :
    cache' = [Dropped(gone) EXCEPT ![k] = item]

Item(seen, overtaken) == [at |-> now, seen |-> seen, overtaken |-> overtaken]

-----------------------------------------------------------------------------
\* A request for an overview or a widget that the cache does not have: get
\* deletes the item that has expired.
Miss(r, k) ==
  /\ dashReq[r].pc = "idle" /\ ~Hit(k)
  /\ cache' = Dropped({k})
  /\ dashReq' = [dashReq EXCEPT ![r] = [DashIdle EXCEPT !.pc = "read", !.key = k]]
  /\ UNCHANGED <<now, written, floor>>

\* The metrics are read; one of them stands for all.
ReadMetrics(r) ==
  /\ dashReq[r].pc = "read"
  /\ dashReq' = [dashReq EXCEPT ![r].pc = "store", ![r].seen = written]
  /\ UNCHANGED <<cache, now, written, floor>>

StoreResult(r) ==
  LET q == dashReq[r] IN
  /\ q.pc = "store"
  /\ Put(Cached, q.key, Item(q.seen, q.overtaken))
  /\ dashReq' = [dashReq EXCEPT ![r] = DashIdle]
  /\ UNCHANGED <<now, written, floor>>

DashAbort(r) ==
  /\ dashReq[r].pc # "idle"
  /\ dashReq' = [dashReq EXCEPT ![r] = DashIdle]
  /\ UNCHANGED <<cache, now, written, floor>>

\* updateDashboardConfig, and getDashboardConfig without an item: nothing is awaited
\* between get, which deletes an item that has expired, and set.
StoreConfig(k) ==
  /\ Put({o \in Cached : o # k \/ Hit(k)}, k, Item(written, FALSE))
  /\ UNCHANGED <<now, written, floor, dashReq>>

\* exportDashboard keeps the metadata of the export.
StoreExport(k) ==
  /\ Put(Cached, k, Item(written, FALSE))
  /\ UNCHANGED <<now, written, floor, dashReq>>

-----------------------------------------------------------------------------
\* Mutant: only the overviews are dropped.
DropOverviews == Dropped(Query)

\* invalidateCategory: every key is in the category "dashboard".
DropCategory == Dropped(Key)

\* What has been read by now is older than the refresh.
Invalidate(except) ==
  /\ cache' = DropCategory
  /\ floor' = written
  /\ dashReq' = [r \in Request |->
                   IF r \in DOMAIN except THEN except[r]
                   ELSE IF dashReq[r].pc = "store"
                        THEN [dashReq[r] EXCEPT !.overtaken = TRUE]
                   ELSE dashReq[r]]
  /\ UNCHANGED <<now, written>>

\* refreshDashboard: the category is emptied and the overview computed, no await
\* in between.
Refresh(r, k) ==
  /\ dashReq[r].pc = "idle"
  /\ Invalidate([o \in {r} |-> [DashIdle EXCEPT !.pc = "read", !.key = k]])

\* clearCache, of the category or of everything.
ClearCache == Invalidate(<<>>)

\* cleanup, once a minute.
Cleanup ==
  /\ cache' = Dropped({k \in Key : Expired(k)})
  /\ UNCHANGED <<now, written, floor, dashReq>>

Tick == /\ now < MaxTime /\ now' = now + 1
        /\ UNCHANGED <<cache, written, floor, dashReq>>

DatabaseWrite == /\ written < MaxWrites /\ written' = written + 1
                 /\ UNCHANGED <<cache, now, floor, dashReq>>

DashNext == \/ \E r \in Request : \/ \E k \in Query \cup Widget : Miss(r, k)
                                  \/ ReadMetrics(r) \/ StoreResult(r) \/ DashAbort(r)
                                  \/ \E k \in Query : Refresh(r, k)
            \/ \E k \in Role : StoreConfig(k)
            \/ \E k \in Export : StoreExport(k)
            \/ ClearCache \/ Cleanup \/ Tick \/ DatabaseWrite

DashSpec == DashInit /\ [][DashNext]_dashVars

-----------------------------------------------------------------------------
(* Properties *)

\* Items, times and computations are well formed.
DashTypeOK == /\ cache \in [Key -> CacheItem \cup {NONE}]
              /\ now \in 0..MaxTime /\ written \in 0..MaxWrites /\ floor \in 0..written
              /\ dashReq \in [Request -> DashReqs]
              /\ \A r \in Request : dashReq[r].pc # "idle" => dashReq[r].key \in Query \cup Widget

\* refreshDashboard and clearCache: the cache holds nothing older than the last of
\* them, except what a computation had read before it and stored after it.
RefreshHolds ==
  \A k \in Cached : cache[k].seen < floor => cache[k].overtaken

\* CacheService.set: the cache outgrows its size only while nothing in it is older
\* than the present moment.
CacheBounded ==
  [][Cardinality(Cached') > MaxSize /\ Cardinality(Cached') > Cardinality(Cached)
       => \A k \in Cached : cache[k].at = now]_dashVars
=============================================================================
