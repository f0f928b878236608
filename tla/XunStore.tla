------------------------------ MODULE XunStore ------------------------------
(***************************************************************************)
(* The database-backed store of store/xun/xun.go: a bounded cache in front *)
(* of a table, written behind by a background worker.                      *)
(*                                                                         *)
(* Writers hold Store.mu, readers hold nothing, and a flush takes dirtyMu  *)
(* and deletedMu one after the other; a step below is one critical section *)
(* or one database call.  The data is abstracted to versions: the n-th     *)
(* write or deletion accepted on a key is version n, and the cache, the    *)
(* dirty map, the deleted map and the table hold versions (0: absent).     *)
(* Time to live, wildcard deletion and Clear are not in this module.       *)
(***************************************************************************)
EXTENDS Naturals, FiniteSets, Functions

CONSTANTS Keys, Writers, Readers,  \* callers of the two sorts of operation
          Flushers,    \* the background worker and the callers of Flush
          Worker,      \* the background worker, stopped by Close
          CacheSize,   \* Option.CacheSize
          MaxOps,      \* bound: the writes and deletions of a behaviour
          Free, NoKey

ASSUME StoreAssumption ==
  /\ Worker \in Flushers
  /\ CacheSize \in Nat \ {0} /\ MaxOps \in Nat
  /\ Writers \cap Readers = {} /\ Free \notin Writers \union Readers /\ NoKey \notin Keys

Clients == Writers \union Readers

VARIABLES
  mu,        \* Store.mu: the writer inside it, or Free
  cache,     \* Store.cache: the version cached for each key
  dirty,     \* Store.dirty: the version waiting to be persisted
  deleted,   \* Store.deleted: the deletion waiting to be applied
  db,        \* the table: the version whose value the row holds
  pc, key,   \* where each client stands, and the key it works on
  val,       \* the version a client has read from the table
  fpc,       \* where each flusher stands
  fdirty, fdel,  \* the maps it has swapped out and not finished with
  stop,      \* Close has closed stopWorker
  \* History, read by no action:
  latest,    \* the last operation accepted on each key
  applied,   \* the operation the table's state for the key reflects
  live,      \* whether the last operation on the key was a write
  late,      \* keys written or deleted once Close has been called
  failed,    \* keys a database call of a flush failed on
  torn       \* keys whose deletion a flush took between the two sections of
             \* markDirty or markDeleted on them

clientVars == <<mu, pc, key, val>>
mapVars == <<cache, dirty, deleted>>
flushVars == <<fpc, fdirty, fdel>>
ghostVars == <<latest, live, late, failed, torn>>
vars == <<clientVars, mapVars, flushVars, ghostVars, db, applied, stop>>

Zero == [k \in Keys |-> 0]

Init ==
  /\ mu = Free
  /\ cache = Zero /\ dirty = Zero /\ deleted = Zero /\ db = Zero
  /\ pc = [c \in Clients |-> "idle"]
  /\ key = [c \in Clients |-> NoKey]
  /\ val = [c \in Clients |-> 0]
  /\ fpc = [f \in Flushers |-> "idle"]
  /\ fdirty = [f \in Flushers |-> Zero]
  /\ fdel = [f \in Flushers |-> Zero]
  /\ stop = FALSE
  /\ latest = Zero /\ applied = Zero
  /\ live = [k \in Keys |-> FALSE]
  /\ late = {} /\ failed = {} /\ torn = {}

-----------------------------------------------------------------------------
(* The cache and the two maps.                                             *)

\* ARCCache.Add: a key more than the cache holds pushes out some other one,
\* dirty or not.
CacheAdd(k, v) ==
  LET full == [cache EXCEPT ![k] = v]
      kept == {x \in Keys : full[x] # 0}
  IN  IF Cardinality(kept) <= CacheSize
      THEN cache' = full
      ELSE \E x \in kept \ {k} : cache' = [full EXCEPT ![x] = 0]

Total == FoldFunction(+, 0, latest)

Accepted(k, isWrite) ==
  /\ Total < MaxOps
  /\ late' = IF stop THEN late \union {k} ELSE late
  /\ latest' = [latest EXCEPT ![k] = @ + 1]
  /\ live' = [live EXCEPT ![k] = isWrite]

\* Mutation: the key is not marked dirty.
Write_cacheonly(c, k) ==
  /\ Accepted(k, TRUE)
  /\ CacheAdd(k, latest[k] + 1)
  /\ pc' = [pc EXCEPT ![c] = "undelete"]
  /\ val' = [val EXCEPT ![c] = 0]
  /\ UNCHANGED <<dirty, deleted, flushVars, failed, torn, db, applied, stop>>

\* Set and setListToCache up to the end of markDirty's first section.
Write(c, k) ==
  /\ Accepted(k, TRUE)
  /\ CacheAdd(k, latest[k] + 1)
  /\ dirty' = [dirty EXCEPT ![k] = latest[k] + 1]
  /\ pc' = [pc EXCEPT ![c] = "undelete"]
  /\ val' = [val EXCEPT ![c] = 0]
  /\ UNCHANGED <<deleted, flushVars, failed, torn, db, applied, stop>>

Set(c, k) ==
  /\ pc[c] = "idle" /\ mu = Free
  /\ Write(c, k)
  /\ mu' = c /\ key' = [key EXCEPT ![c] = k]

\* Mutation: the client does not leave the operation.
Return_keep(c) ==
  /\ pc' = pc
  /\ key' = [key EXCEPT ![c] = NoKey]
  /\ val' = [val EXCEPT ![c] = 0]

Return(c) ==
  /\ pc' = [pc EXCEPT ![c] = "idle"]
  /\ key' = [key EXCEPT ![c] = NoKey]
  /\ val' = [val EXCEPT ![c] = 0]

\* The second section of markDirty, and the end of a write.
Undelete(c) ==
  /\ pc[c] = "undelete"
  /\ deleted' = [deleted EXCEPT ![key[c]] = 0]
  /\ mu' = Free /\ Return(c)
  /\ UNCHANGED <<cache, dirty, flushVars, ghostVars, db, applied, stop>>

\* Del: the cache entry goes, and markDeleted's first section.
Del(c, k) ==
  /\ pc[c] = "idle" /\ mu = Free
  /\ Accepted(k, FALSE)
  /\ cache' = [cache EXCEPT ![k] = 0]
  /\ deleted' = [deleted EXCEPT ![k] = latest[k] + 1]
  /\ pc' = [pc EXCEPT ![c] = "undirty"]
  /\ mu' = c /\ key' = [key EXCEPT ![c] = k]
  /\ UNCHANGED <<val, dirty, failed, torn, flushVars, db, applied, stop>>

Undirty(c) ==
  /\ pc[c] = "undirty"
  /\ dirty' = [dirty EXCEPT ![key[c]] = 0]
  /\ mu' = Free /\ Return(c)
  /\ UNCHANGED <<cache, deleted, flushVars, ghostVars, db, applied, stop>>

\* No writer is between the two sections of its marking of k.
Settled(k) == \A c \in Clients : pc[c] \in {"undelete", "undirty"} => key[c] # k

-----------------------------------------------------------------------------
(* Readers, and the operations that read and then write (Push, Pop, Pull,  *)
(* PullAll, AddToSet, ArraySet, Incr, Decr): those hold mu throughout.     *)

\* Get (and getListFromCache, Has) begin with the deleted map.
Get(c, k) ==
  /\ pc[c] = "idle" /\ deleted[k] = 0
  /\ pc' = [pc EXCEPT ![c] = "cache"]
  /\ key' = [key EXCEPT ![c] = k]
  /\ UNCHANGED <<mu, val, mapVars, flushVars, ghostVars, db, applied, stop>>

GetFresh(c, k) ==
  /\ pc[c] = "idle" /\ deleted[k] = 0
  /\ pc' = [pc EXCEPT ![c] = "db"]
  /\ key' = [key EXCEPT ![c] = k]
  /\ UNCHANGED <<mu, val, mapVars, flushVars, ghostVars, db, applied, stop>>

Update(c, k) ==
  /\ pc[c] = "idle" /\ mu = Free
  /\ mu' = c
  /\ key' = [key EXCEPT ![c] = k]
  /\ pc' = [pc EXCEPT ![c] = IF deleted[k] # 0 THEN "write" ELSE "cache"]
  /\ UNCHANGED <<val, mapVars, flushVars, ghostVars, db, applied, stop>>

\* A reader is done with its value; an updater goes on to write.
ReadDone(c) ==
  IF mu = c
  THEN /\ pc' = [pc EXCEPT ![c] = "write"]
       /\ UNCHANGED <<key, val>>
  ELSE Return(c)

ReadCache(c) ==
  /\ pc[c] = "cache"
  /\ IF cache[key[c]] # 0 THEN ReadDone(c)
     ELSE /\ pc' = [pc EXCEPT ![c] = "db"]
          /\ UNCHANGED <<key, val>>
  /\ UNCHANGED <<mu, mapVars, flushVars, ghostVars, db, applied, stop>>

\* The lazy load: no row (or an error) ends it.
ReadDB(c) ==
  /\ pc[c] = "db"
  /\ \/ ReadDone(c)
     \/ /\ db[key[c]] # 0
        /\ val' = [val EXCEPT ![c] = db[key[c]]]
        /\ pc' = [pc EXCEPT ![c] = "fill"]
        /\ UNCHANGED key
  /\ UNCHANGED <<mu, mapVars, flushVars, ghostVars, db, applied, stop>>

\* What was read goes into the cache, over whatever is there by now.
Fill(c) ==
  /\ pc[c] = "fill"
  /\ CacheAdd(key[c], val[c])
  /\ ReadDone(c)
  /\ UNCHANGED <<mu, dirty, deleted, flushVars, ghostVars, db, applied, stop>>

\* The new list or number is written; Pop, Pull, ArraySet may find nothing to
\* do and just return.
UpdateWrite(c) == pc[c] = "write" /\ Write(c, key[c]) /\ UNCHANGED <<mu, key>>

UpdateReturn(c) ==
  /\ pc[c] = "write"
  /\ mu' = Free /\ Return(c)
  /\ UNCHANGED <<mapVars, flushVars, ghostVars, db, applied, stop>>

-----------------------------------------------------------------------------
(* flush, the worker's loop and Close.                                     *)

\* Mutation: pending deletions alone do not start a flush.
FlushBegin_dirtyonly(f) ==
  /\ fpc[f] = "idle" /\ dirty # Zero
  /\ fdirty' = [fdirty EXCEPT ![f] = dirty]
  /\ dirty' = Zero
  /\ \E last \in {FALSE, f = Worker /\ stop} :
        fpc' = [fpc EXCEPT ![f] = IF last THEN "lastswap" ELSE "swap"]
  /\ UNCHANGED <<clientVars, cache, deleted, fdel, ghostVars, db, applied, stop>>

\* First section: with both maps empty there is nothing to do, else the dirty
\* map is swapped out.  Once Close has been called the worker's select may
\* still pick the ticker, or make this its last flush.
FlushBegin(f) ==
  /\ fpc[f] = "idle"
  /\ dirty # Zero \/ deleted # Zero
  /\ fdirty' = [fdirty EXCEPT ![f] = dirty]
  /\ dirty' = Zero
  /\ \E last \in {FALSE, f = Worker /\ stop} :
        fpc' = [fpc EXCEPT ![f] = IF last THEN "lastswap" ELSE "swap"]
  /\ UNCHANGED <<clientVars, cache, deleted, fdel, ghostVars, db, applied, stop>>

\* Mutation: the worker ends without its last flush.
WorkerDone_early ==
  /\ fpc[Worker] = "idle" /\ stop
  /\ fpc' = [fpc EXCEPT ![Worker] = "done"]
  /\ UNCHANGED <<clientVars, mapVars, fdirty, fdel, ghostVars, db, applied, stop>>

WorkerDone ==
  /\ fpc[Worker] = "idle" /\ stop
  /\ dirty = Zero /\ deleted = Zero
  /\ fpc' = [fpc EXCEPT ![Worker] = "done"]
  /\ UNCHANGED <<clientVars, mapVars, fdirty, fdel, ghostVars, db, applied, stop>>

\* Second section: the deleted map is swapped out.
FlushSwap(f) ==
  /\ fpc[f] \in {"swap", "lastswap"}
  /\ fdel' = [fdel EXCEPT ![f] = deleted]
  /\ deleted' = Zero
  /\ fpc' = [fpc EXCEPT ![f] = IF @ = "swap" THEN "persist" ELSE "lastpersist"]
  /\ torn' = torn \union {k \in Keys : deleted[k] # 0 /\ ~Settled(k)}
  /\ UNCHANGED <<clientVars, cache, dirty, fdirty, latest, live, late, failed, db,
                 applied, stop>>

\* One dirty entry: skipped if its key was deleted, else written to the table;
\* if that fails the entry goes back to the dirty map.
FlushEntry(f, k) ==
  /\ fpc[f] \in {"persist", "lastpersist"} /\ fdirty[f][k] # 0
  /\ fdirty' = [fdirty EXCEPT ![f][k] = 0]
  /\ \/ /\ fdel[f][k] # 0
        /\ UNCHANGED <<db, applied, dirty, failed>>
     \/ /\ fdel[f][k] = 0
        /\ db' = [db EXCEPT ![k] = fdirty[f][k]]
        /\ applied' = [applied EXCEPT ![k] = fdirty[f][k]]
        /\ UNCHANGED <<dirty, failed>>
     \/ /\ fdel[f][k] = 0
        /\ dirty' = [dirty EXCEPT ![k] = fdirty[f][k]]
        /\ failed' = failed \union {k}
        /\ UNCHANGED <<db, applied>>
  /\ UNCHANGED <<clientVars, cache, deleted, fpc, fdel, latest, live, late, torn, stop>>

\* Mutation: deletions do not wait for the entries to be through.
FlushDelete_any(f, k) ==
  /\ fpc[f] \in {"persist", "lastpersist"} /\ fdel[f][k] # 0
  /\ fdel' = [fdel EXCEPT ![f][k] = 0]
  /\ db' = [db EXCEPT ![k] = 0]
  /\ applied' = [applied EXCEPT ![k] = fdel[f][k]]
  /\ UNCHANGED <<clientVars, mapVars, fpc, fdirty, ghostVars, stop>>

\* One deleted key, once the entries are through; a failure is only logged.
FlushDelete(f, k) ==
  /\ fpc[f] \in {"persist", "lastpersist"} /\ fdirty[f] = Zero /\ fdel[f][k] # 0
  /\ fdel' = [fdel EXCEPT ![f][k] = 0]
  /\ \/ /\ db' = [db EXCEPT ![k] = 0]
        /\ applied' = [applied EXCEPT ![k] = fdel[f][k]]
        /\ UNCHANGED failed
     \/ /\ failed' = failed \union {k}
        /\ UNCHANGED <<db, applied>>
  /\ UNCHANGED <<clientVars, mapVars, fpc, fdirty, latest, live, late, torn, stop>>

FlushEnd(f) ==
  /\ fpc[f] \in {"persist", "lastpersist"} /\ fdirty[f] = Zero /\ fdel[f] = Zero
  /\ fpc' = [fpc EXCEPT ![f] = IF @ = "persist" THEN "idle" ELSE "done"]
  /\ UNCHANGED <<clientVars, mapVars, fdirty, fdel, ghostVars, db, applied, stop>>

\* Close: the worker is told to stop, and waited for.
Close ==
  /\ ~stop /\ stop' = TRUE
  /\ UNCHANGED <<clientVars, mapVars, flushVars, ghostVars, db, applied>>

-----------------------------------------------------------------------------
Call(c) ==
  \E k \in Keys :
     \/ c \in Writers /\ (Set(c, k) \/ Del(c, k) \/ Update(c, k))
     \/ c \in Readers /\ (Get(c, k) \/ GetFresh(c, k))

\* What a client does once inside an operation.
Proceed(c) ==
  \/ Undelete(c) \/ Undirty(c) \/ ReadCache(c) \/ ReadDB(c) \/ Fill(c)
  \/ UpdateWrite(c) \/ UpdateReturn(c)

Flush(f) ==
  \/ FlushBegin(f) \/ FlushSwap(f) \/ FlushEnd(f)
  \/ \E k \in Keys : FlushEntry(f, k) \/ FlushDelete(f, k)

Next ==
  \/ \E c \in Clients : Call(c) \/ Proceed(c)
  \/ \E f \in Flushers : Flush(f)
  \/ WorkerDone \/ Close

\* The worker's ticker ticks and goroutines run; nobody has to call anything.
Fairness ==
  /\ WF_vars(Flush(Worker)) /\ WF_vars(WorkerDone)
  /\ \A c \in Clients : WF_vars(Proceed(c))

Spec == Init /\ [][Next]_vars
FairSpec == Spec /\ Fairness

-----------------------------------------------------------------------------
(* Properties.                                                             *)

TypeOK ==
  /\ mu \in Writers \union {Free}
  /\ cache \in [Keys -> Nat] /\ dirty \in [Keys -> Nat]
  /\ deleted \in [Keys -> Nat] /\ db \in [Keys -> Nat]
  /\ pc \in [Clients -> {"idle", "cache", "db", "fill", "write", "undelete", "undirty"}]
  /\ key \in [Clients -> Keys \union {NoKey}]
  /\ \A c \in Clients : pc[c] # "idle" => key[c] \in Keys
  /\ val \in [Clients -> Nat]
  /\ fpc \in [Flushers -> {"idle", "swap", "persist", "lastswap", "lastpersist", "done"}]
  /\ fdirty \in [Flushers -> [Keys -> Nat]] /\ fdel \in [Flushers -> [Keys -> Nat]]
  /\ stop \in BOOLEAN
  /\ latest \in [Keys -> Nat] /\ applied \in [Keys -> Nat]
  /\ live \in [Keys -> BOOLEAN]
  /\ late \subseteq Keys /\ failed \subseteq Keys /\ torn \subseteq Keys

\* With one flusher the table only moves forward: it never goes back to an
\* older value of a key, nor brings a deleted key back, whatever fails and
\* however writes, deletions and flushes interleave (xun.go:132-175), unless
\* a flush came between the two sections of a marking of the key.
WB == INSTANCE WriteBehind WITH accepted <- latest, durable <- applied, astray <- torn
ImplementsWriteBehind == WB!WBSpec

Sound == Keys \ (failed \union torn)

\* Between operations on it, a sound key waits for at most one
\* of persistence and deletion, and that is its last operation: markDirty and
\* markDeleted keep the two maps apart (xun.go:276-303).
PendingConsistent ==
  \A k \in Sound : Settled(k) =>
     /\ dirty[k] \in {0, latest[k]} /\ deleted[k] \in {0, latest[k]}
     /\ dirty[k] = 0 \/ deleted[k] = 0

Kept(k) ==
  \/ latest[k] \in {applied[k], dirty[k], deleted[k]}
  \/ \E f \in Flushers : \/ fdel[f][k] = latest[k]
                         \/ fdel[f][k] = 0 /\ fdirty[f][k] = latest[k]

\* The last operation on a key is in the table, in one of the maps or in the
\* hands of a flush, even if the cache has evicted the key: unless a database
\* call failed on the key, or a flush took its deletion while a writer was
\* between the two sections of its marking.  And the maps stay apart.
NothingForgotten == (\A k \in Sound : Kept(k)) /\ PendingConsistent

\* What the store is documented to do ("Write: write to cache immediately,
\* async persist to DB", types.go:25): a write on whose key no database call
\* failed is not forgotten.
EveryWriteKept == \A k \in Keys \ failed : live[k] => Kept(k)

\* When the worker has ended, the last operation on a key is in the table if
\* it was accepted before Close; one that overlaps Close may be lost, and may
\* take the pending deletion it replaces with it (xun.go:119-122, 265-268).
CloseDurable ==
  fpc[Worker] = "done" =>
    \A k \in Sound : k \notin late => applied[k] = latest[k]

\* Once the operations end (MaxOps), the table comes to hold exactly the keys
\* that exist, with their last values, as long as the store is not closed.
EventuallyDurable ==
  <>[](fpc[Worker] # "done" =>
         \A k \in Sound : db[k] = IF live[k] THEN latest[k] ELSE 0)
=============================================================================
