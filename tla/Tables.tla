------------------------------- MODULE Tables -------------------------------
(***************************************************************************)
(* The tables of the AMATL database as the queries of                      *)
(* crates/amatl-core/src/storage.rs read and write them.  A table is the   *)
(* sequence of its rows in rowid order: an upsert keeps the rowid of the   *)
(* row it replaces, a new row gets the largest one.  Every instant is a    *)
(* whole second.                                                           *)
(***************************************************************************)
EXTENDS Integers, Sequences, FiniteSets, FiniteSetsExt, Subsequences

CONSTANTS
  SearchPolicy,   \* ProviderSearchCachePolicy: ttl, entries, bytes
  DocumentPolicy, \* DocumentCachePolicy: ttl, entries, bytes
  Retention,      \* days each table keeps its rows, 0 for ever
  Day             \* length of a day

Policies == [ttl : Nat, entries : Nat, bytes : Nat]

ASSUME TablesAssumption ==
  /\ {SearchPolicy, DocumentPolicy} \subseteq Policies
  /\ Day \in Nat \ {0}
  /\ Retention \in [{"telemetry", "history", "search", "documents", "audit"} -> Nat]

CurrentVersion == 7

\* A database nobody has written to: the file does not exist or is empty.
Empty ==
  [version |-> 0, search |-> <<>>, documents |-> <<>>, telemetry |-> <<>>,
   history |-> <<>>, audit |-> <<>>, saved |-> <<>>]

\* run_migrations: the tables that are missing are created, in one transaction.
Migrated(db) == [db EXCEPT !.version = CurrentVersion]

\* What the downgrade script of one version drops.
Downgraded(db, version) ==
  LET down == [db EXCEPT !.version = version - 1]
  IN  CASE version = 7 -> [down EXCEPT !.audit = <<>>]
        [] version = 3 -> [down EXCEPT !.history = <<>>, !.saved = <<>>]
        [] version = 2 -> [down EXCEPT !.documents = <<>>]
        [] OTHER -> down

----------------------------------------------------------------------------
(* The two caches.                                                          *)

CacheRow(key, size, now) ==
  [key |-> key, size |-> size, created |-> now, used |-> now]

Keys(table) == {table[i].key : i \in DOMAIN table}
RowOf(table, key) == table[CHOOSE i \in DOMAIN table : table[i].key = key]

\* INSERT ... ON CONFLICT DO UPDATE.
Upserted(table, row) ==
  IF row.key \in Keys(table)
  THEN [i \in DOMAIN table |-> IF table[i].key = row.key THEN row ELSE table[i]]
  ELSE Append(table, row)

\* DELETE FROM: the rows of a key, one row, the rows created before an instant.
Erased(table, key) == Picked(table, {i \in DOMAIN table : table[i].key # key})
Removed(table, row) == Picked(table, DOMAIN table \ {row})
Pruned(table, before) == Picked(table, {i \in DOMAIN table : table[i].created >= before})

\* ORDER BY last_accessed ASC, rowid ASC: how many rows go before row i.
Coldness(table, i) ==
  Cardinality({j \in DOMAIN table : \/ table[j].used < table[i].used
                                    \/ table[j].used = table[i].used /\ j < i})

\* Mutant: the oldest rows go, whoever read them since.
DropOldest(table, n) ==
  Picked(table, {i \in DOMAIN table :
    Cardinality({j \in DOMAIN table : \/ table[j].created < table[i].created
                                      \/ table[j].created = table[i].created /\ j < i}) >= n})

\* The n coldest rows are deleted.
DropColdest(table, n) == Picked(table, {i \in DOMAIN table : Coldness(table, i) >= n})

\* SUM(payload_bytes): every byte of every row.
TotalBytes(table) ==
  Cardinality(UNION {{i} \X (1 .. table[i].size) : i \in DOMAIN table})

EvictEntries(table, policy) ==
  DropColdest(table, Max({0, Len(table) - policy.entries}))

\* The loop that deletes the coldest row until the rest fits.
EvictBytes(table, policy) ==
  DropColdest(table, Min({n \in 0 .. Len(table) :
                            TotalBytes(DropColdest(table, n)) <= policy.bytes}))

\* Mutant: the bytes are never counted.
PutUnsized(table, row, policy) ==
  EvictEntries(Pruned(Upserted(table, row), row.created - policy.ttl), policy)

\* cache_put and document_cache_put: the row, then age, entries and bytes.
Put(table, row, policy) ==
  EvictBytes(EvictEntries(Pruned(Upserted(table, row), row.created - policy.ttl), policy),
             policy)

\* The rows a query may return: created_at >= now - ttl.
Current(table, now, ttl) ==
  {i \in DOMAIN table : table[i].created >= now - ttl}

Touched(table, i, now) == [table EXCEPT ![i].used = now]

\* cache_get, document_cache_get: the indexes of the current rows of a key.
Hits(table, key, now, policy) ==
  {i \in Current(table, now, policy.ttl) : table[i].key = key}

\* document_cache_get_latest: ORDER BY created_at DESC, rowid DESC LIMIT 1.
LatestHit(table, page, now, policy) ==
  LET rows == {i \in Current(table, now, policy.ttl) : table[i].key[1] = page}
  IN  {i \in rows : \A j \in rows : \/ table[j].created < table[i].created
                                    \/ table[j].created = table[i].created /\ j <= i}

----------------------------------------------------------------------------
(* The other tables.                                                        *)

LogRow(now) == [created |-> now]
Cutoff(kind, now) == now - Retention[kind] * Day

\* security_event_insert: each event prunes what is past the window.
Audited(table, now) == Pruned(Append(table, LogRow(now)), Cutoff("audit", now))

\* One purge cycle of the maintenance task; a retention of 0 keeps everything,
\* and saved documents are never purged.
Purged(db, now) ==
  LET kept(kind, table) == IF Retention[kind] = 0 THEN table
                           ELSE Pruned(table, Cutoff(kind, now))
  IN  [db EXCEPT !.telemetry = kept("telemetry", @), !.history = kept("history", @),
                 !.search = kept("search", @), !.documents = kept("documents", @),
                 !.audit = kept("audit", @)]
=============================================================================
