--------------------------- MODULE XunStoreProofs ---------------------------
(***************************************************************************)
(* Proofs about XunStore, for every set of keys, writers and readers, every *)
(* cache size and number of operations, and the one flusher that the code   *)
(* starts (xun.go:71): no caller of Flush runs besides the worker.          *)
(***************************************************************************)
EXTENDS XunStore, TLAPS

OneFlusher == Flushers = {Worker}

Entry(k) == fdirty[Worker][k]
Deletion(k) == fdel[Worker][k]
Swapping == fpc[Worker] \in {"swap", "lastswap"}
Marking(k, at) == \E c \in Clients : pc[c] = at /\ key[c] = k

\* Whoever may write or is marking holds Store.mu; readers never get there.
Control ==
  /\ OneFlusher
  /\ \A c \in Clients : pc[c] \in {"write", "undelete", "undirty"} => mu = c
  /\ fpc[Worker] \in {"idle", "done"} => fdirty[Worker] = Zero /\ fdel[Worker] = Zero
  /\ Swapping => fdel[Worker] = Zero

BoundedAt(k) ==
  /\ applied[k] <= latest[k] /\ dirty[k] <= latest[k] /\ deleted[k] <= latest[k]
  /\ Entry(k) <= latest[k] /\ Deletion(k) <= latest[k]

Below(x, y) == x # 0 /\ y # 0 => x <= y

\* Where the versions of an untorn key stand to one another: table first,
\* then what the flush has swapped out, then the maps; dirty and deleted are
\* in the order of their operations except while a marking is under way.
OrderedAt(k) ==
  /\ dirty[k] # 0 => applied[k] <= dirty[k]
  /\ deleted[k] # 0 => applied[k] <= deleted[k]
  /\ Entry(k) # 0 => applied[k] <= Entry(k)
  /\ Deletion(k) # 0 => applied[k] <= Deletion(k)
  /\ Below(Entry(k), dirty[k])
  /\ Below(Deletion(k), dirty[k]) /\ Below(Deletion(k), deleted[k])
  /\ Deletion(k) = 0 => \/ Below(Entry(k), deleted[k])
                        \/ Swapping /\ Marking(k, "undelete")
  /\ Below(dirty[k], deleted[k]) \/ Marking(k, "undelete")
  /\ Swapping => Below(deleted[k], dirty[k]) \/ Marking(k, "undirty")

\* Kept(k), when the worker is the only flusher.
KeptAt(k) ==
  \/ latest[k] \in {applied[k], dirty[k], deleted[k], Deletion(k)}
  \/ Deletion(k) = 0 /\ Entry(k) = latest[k]

SoundAt(k) ==
  /\ KeptAt(k)
  /\ Settled(k) => /\ dirty[k] \in {0, latest[k]} /\ deleted[k] \in {0, latest[k]}
                   /\ dirty[k] = 0 \/ deleted[k] = 0
  /\ Marking(k, "undelete") => dirty[k] \in {0, latest[k]} /\ deleted[k] < latest[k]
  /\ Marking(k, "undirty") => deleted[k] = latest[k]

\* From the swap of the last flush on, nothing of what was accepted before
\* Close is left in the maps.
ClosedAt(k) ==
  /\ fpc[Worker] = "lastswap" => dirty[k] = 0
  /\ fpc[Worker] \in {"lastpersist", "done"} => dirty[k] = 0 /\ deleted[k] = 0
  /\ fpc[Worker] = "done" => applied[k] = latest[k]

Closing ==
  /\ fpc[Worker] \in {"lastswap", "lastpersist", "done"} => stop
  /\ \A k \in Sound \ late : ClosedAt(k)

IInv ==
  /\ TypeOK /\ Control
  /\ \A k \in Keys : BoundedAt(k)
  /\ \A k \in Keys \ torn : OrderedAt(k)
  /\ \A k \in Sound : SoundAt(k)
  /\ Closing

-----------------------------------------------------------------------------
LEMMA InitIInv == OneFlusher /\ Init => IInv
  <1> SUFFICES ASSUME OneFlusher, Init PROVE IInv
    OBVIOUS
  <1> USE StoreAssumption DEF Init, Zero, Clients
  <1>1. TypeOK
    BY DEF TypeOK
  <1>2. Control
    BY DEF Control, OneFlusher, Swapping
  <1>3. ASSUME NEW k \in Keys PROVE BoundedAt(k) /\ OrderedAt(k) /\ SoundAt(k)
    <2>1. Entry(k) = 0 /\ Deletion(k) = 0
      BY DEF Entry, Deletion
    <2>2. BoundedAt(k) /\ OrderedAt(k)
      BY <2>1 DEF BoundedAt, OrderedAt, Below
    <2>3. KeptAt(k) /\ ~Marking(k, "undelete") /\ ~Marking(k, "undirty")
      BY <2>1 DEF KeptAt, Marking
    <2> QED
      BY <2>2, <2>3 DEF SoundAt
  <1>4. Closing
    BY DEF Closing, ClosedAt
  <1> QED
    BY <1>1, <1>2, <1>3, <1>4 DEF IInv, Sound

-----------------------------------------------------------------------------
(* Steps that touch neither the maps, the table nor any marking.           *)

Quiet ==
  /\ UNCHANGED <<dirty, deleted, applied, fpc, fdirty, fdel, latest, late, failed, torn>>
  /\ stop => stop'
  /\ \A c \in Clients : \A at \in {"undelete", "undirty"} :
        (pc'[c] = at <=> pc[c] = at) /\ (pc[c] = at => key'[c] = key[c])

LEMMA QuietStep == IInv /\ Quiet /\ TypeOK' /\ Control' => IInv'
  <1> SUFFICES ASSUME IInv, Quiet, TypeOK', Control' PROVE IInv'
    OBVIOUS
  <1>1. ASSUME NEW k \in Keys, NEW at \in {"undelete", "undirty"}
        PROVE  Marking(k, at)' <=> Marking(k, at)
    BY DEF Quiet, Marking
  <1>2. \A k \in Keys : Settled(k)' <=> Settled(k)
    BY DEF Quiet, Settled
  <1>3. \A k \in Keys : BoundedAt(k)'
    BY DEF IInv, Quiet, BoundedAt, Entry, Deletion
  <1>4. ASSUME NEW k \in Keys \ torn' PROVE OrderedAt(k)'
    <2>1. OrderedAt(k)
      BY DEF IInv, Quiet
    <2> QED
      BY <2>1, <1>1 DEF Quiet, OrderedAt, Entry, Deletion, Swapping, Below
  <1>5. ASSUME NEW k \in Sound' PROVE SoundAt(k)'
    <2>1. SoundAt(k) /\ k \in Keys
      BY DEF IInv, Quiet, Sound
    <2> QED
      BY <2>1, <1>1, <1>2 DEF Quiet, SoundAt, KeptAt, Entry, Deletion
  <1>6. Closing'
    BY DEF IInv, Quiet, Closing, ClosedAt, Sound
  <1> QED
    BY <1>3, <1>4, <1>5, <1>6 DEF IInv

-----------------------------------------------------------------------------
LEMMA CacheAddType ==
  ASSUME TypeOK, NEW k \in Keys, NEW v \in Nat, CacheAdd(k, v)
  PROVE  cache' \in [Keys -> Nat]
  <1> DEFINE full == [cache EXCEPT ![k] = v]
  <1>1. full \in [Keys -> Nat]
    BY DEF TypeOK
  <1>2. CASE cache' = full
    BY <1>1, <1>2
  <1>3. CASE \E x \in Keys : cache' = [full EXCEPT ![x] = 0]
    BY <1>1, <1>3
  <1> QED
    BY <1>2, <1>3 DEF CacheAdd

\* A write is accepted: by Set, or by an updater that holds the lock.
LEMMA WriteStep ==
  ASSUME IInv, NEW c \in Writers, NEW k \in Keys, Write(c, k),
         mu' = c, key'[c] = k, key' \in [Clients -> Keys \union {NoKey}],
         \A d \in Clients \ {c} : key'[d] = key[d],
         mu \in {Free, c}, pc[c] \in {"idle", "write"}
  PROVE  IInv'
  <1> USE StoreAssumption DEF IInv, flushVars
  <1>0. c \in Clients
    BY DEF Clients
  <1>n. \A d \in Clients : pc[d] \notin {"undelete", "undirty"}
    BY <1>0 DEF Control, Clients
  <1>v. /\ latest[k] \in Nat /\ dirty'[k] = latest[k] + 1 /\ latest'[k] = latest[k] + 1
        /\ \A x \in Keys \ {k} : dirty'[x] = dirty[x] /\ latest'[x] = latest[x]
        /\ UNCHANGED <<deleted, applied, fpc, fdirty, fdel, failed, torn, stop>>
        /\ late' = IF stop THEN late \union {k} ELSE late
        /\ pc' = [pc EXCEPT ![c] = "undelete"]
    BY DEF TypeOK, Write, Accepted
  <1>1. TypeOK'
    <2>1. cache' \in [Keys -> Nat]
      BY <1>v, CacheAddType DEF Write
    <2>2. dirty' \in [Keys -> Nat] /\ latest' \in [Keys -> Nat] /\ live' \in [Keys -> BOOLEAN]
      BY <1>v DEF TypeOK, Write, Accepted
    <2>3. pc' \in [Clients -> {"idle", "cache", "db", "fill", "write", "undelete", "undirty"}]
          /\ \A d \in Clients : pc'[d] # "idle" => key'[d] \in Keys
      BY <1>v, <1>0 DEF TypeOK
    <2> QED
      BY <1>v, <1>0, <2>1, <2>2, <2>3 DEF TypeOK, Write
  <1>2. Control'
    BY <1>v, <1>0, <1>1 DEF Control, TypeOK, OneFlusher, Swapping, Clients
  <1>m. \A x \in Keys : /\ Marking(x, "undelete")' <=> x = k
                        /\ ~Marking(x, "undirty")' /\ ~Marking(x, "undelete")
                        /\ ~Marking(x, "undirty") /\ Settled(x)
                        /\ x # k => Settled(x)'
    BY <1>v, <1>n, <1>0, <1>1 DEF Marking, Settled, TypeOK
  <1>b. \A x \in Keys : BoundedAt(x)'
    <2>1. TAKE x \in Keys
    <2>2. BoundedAt(x)
      OBVIOUS
    <2> QED
      BY <2>2, <1>v DEF BoundedAt, TypeOK, Entry, Deletion, OneFlusher
  <1>o. ASSUME NEW x \in Keys \ torn' PROVE OrderedAt(x)'
    <2>1. OrderedAt(x) /\ BoundedAt(x)
      BY <1>v
    <2> QED
      BY <2>1, <1>v, <1>m DEF OrderedAt, BoundedAt, TypeOK, Below, Entry, Deletion, Swapping
  <1>s. ASSUME NEW x \in Sound' PROVE SoundAt(x)'
    <2>1. SoundAt(x) /\ BoundedAt(x) /\ x \in Keys
      BY <1>v DEF Sound
    <2>2. CASE x = k
      <3>1. latest'[x] = dirty'[x] /\ deleted'[x] < latest'[x]
        BY <2>1, <2>2, <1>v DEF BoundedAt, TypeOK
      <3> QED
        BY <3>1, <2>2, <1>m, <1>1 DEF SoundAt, KeptAt, Settled, Marking
    <2>3. CASE x # k
      <3>1. UNCHANGED <<latest[x], dirty[x], deleted[x], applied[x], Entry(x), Deletion(x)>>
        BY <2>3, <2>1, <1>v DEF Entry, Deletion
      <3> QED
        BY <3>1, <2>3, <2>1, <1>m DEF SoundAt, KeptAt
    <2> QED
      BY <2>2, <2>3
  <1>c. Closing'
    <2>1. ASSUME NEW x \in (Sound \ late)' PROVE ClosedAt(x)'
      <3>1. x \in Sound \ late /\ ClosedAt(x) /\ x \in Keys
        BY <1>v DEF Sound, Closing
      <3>2. CASE fpc[Worker] \in {"lastswap", "lastpersist", "done"}
        <4>1. x # k
          BY <1>v, <3>2, <2>1 DEF Closing
        <4> QED
          BY <4>1, <3>1, <1>v DEF ClosedAt
      <3> QED
        BY <3>2, <1>v DEF ClosedAt
    <2> QED
      BY <2>1, <1>v DEF Closing
  <1> QED
    BY <1>1, <1>2, <1>b, <1>o, <1>s, <1>c

LEMMA DelStep ==
  ASSUME IInv, NEW c \in Writers, NEW k \in Keys, Del(c, k)
  PROVE  IInv'
  <1> USE StoreAssumption DEF IInv, flushVars
  <1>0. c \in Clients /\ c # Free
    BY DEF Clients
  <1>n. \A d \in Clients : pc[d] \notin {"write", "undelete", "undirty"}
    BY <1>0 DEF Del, Control, Clients
  <1>v. /\ latest[k] \in Nat /\ deleted'[k] = latest[k] + 1 /\ latest'[k] = latest[k] + 1
        /\ \A x \in Keys \ {k} : deleted'[x] = deleted[x] /\ latest'[x] = latest[x]
        /\ UNCHANGED <<dirty, applied, fpc, fdirty, fdel, failed, torn, stop>>
        /\ late' = IF stop THEN late \union {k} ELSE late
        /\ mu' = c /\ pc' = [pc EXCEPT ![c] = "undirty"] /\ key' = [key EXCEPT ![c] = k]
    BY DEF TypeOK, Del, Accepted
  <1>1. TypeOK'
    <2>1. deleted' \in [Keys -> Nat] /\ latest' \in [Keys -> Nat] /\ cache' \in [Keys -> Nat]
          /\ live' \in [Keys -> BOOLEAN]
      BY <1>v DEF TypeOK, Del, Accepted
    <2> QED
      BY <1>v, <1>0, <2>1 DEF TypeOK, Del
  <1>2. Control'
    BY <1>v, <1>0, <1>n, <1>1 DEF Control, TypeOK, OneFlusher, Swapping
  <1>m. \A x \in Keys : /\ Marking(x, "undirty")' <=> x = k
                        /\ ~Marking(x, "undelete")' /\ ~Marking(x, "undelete")
                        /\ ~Marking(x, "undirty") /\ Settled(x)
                        /\ Settled(x)' <=> x # k
    BY <1>v, <1>n, <1>0, <1>1 DEF Marking, Settled, TypeOK
  <1>b. \A x \in Keys : BoundedAt(x)'
    <2>1. TAKE x \in Keys
    <2>2. BoundedAt(x)
      OBVIOUS
    <2> QED
      BY <2>2, <1>v DEF BoundedAt, TypeOK, Entry, Deletion, OneFlusher
  <1>o. ASSUME NEW x \in Keys \ torn' PROVE OrderedAt(x)'
    <2>1. OrderedAt(x) /\ BoundedAt(x)
      BY <1>v
    <2> QED
      BY <2>1, <1>v, <1>m DEF OrderedAt, BoundedAt, TypeOK, Below, Entry, Deletion, Swapping
  <1>s. ASSUME NEW x \in Sound' PROVE SoundAt(x)'
    <2>1. SoundAt(x) /\ x \in Keys
      BY <1>v DEF Sound
    <2>2. CASE x = k
      <3>1. latest'[x] = deleted'[x]
        BY <2>2, <1>v
      <3> QED
        BY <3>1, <2>2, <1>m DEF SoundAt, KeptAt
    <2>3. CASE x # k
      <3>1. UNCHANGED <<latest[x], dirty[x], deleted[x], applied[x], Entry(x), Deletion(x)>>
        BY <2>3, <2>1, <1>v DEF Entry, Deletion
      <3> QED
        BY <3>1, <2>3, <2>1, <1>m DEF SoundAt, KeptAt
    <2> QED
      BY <2>2, <2>3
  <1>c. Closing'
    <2>1. ASSUME NEW x \in (Sound \ late)' PROVE ClosedAt(x)'
      <3>1. x \in Sound \ late /\ ClosedAt(x) /\ x \in Keys
        BY <1>v DEF Sound, Closing
      <3>2. CASE fpc[Worker] \in {"lastswap", "lastpersist", "done"}
        <4>1. x # k
          BY <1>v, <3>2, <2>1 DEF Closing
        <4> QED
          BY <4>1, <3>1, <1>v DEF ClosedAt
      <3> QED
        BY <3>2, <1>v DEF ClosedAt
    <2> QED
      BY <2>1, <1>v DEF Closing
  <1> QED
    BY <1>1, <1>2, <1>b, <1>o, <1>s, <1>c

LEMMA UndeleteStep ==
  ASSUME IInv, NEW c \in Clients, Undelete(c)
  PROVE  IInv'
  <1> USE StoreAssumption DEF IInv, flushVars, ghostVars
  <1>0. mu = c /\ c # Free /\ key[c] \in Keys
    BY DEF Undelete, Control, TypeOK, Clients
  <1>n. \A d \in Clients \ {c} : pc[d] \notin {"write", "undelete", "undirty"}
    BY <1>0 DEF Control
  <1>v. /\ deleted' = [deleted EXCEPT ![key[c]] = 0]
        /\ UNCHANGED <<dirty, latest, applied, fpc, fdirty, fdel, late, failed, torn, stop>>
        /\ mu' = Free /\ pc[c] = "undelete"
        /\ pc' = [pc EXCEPT ![c] = "idle"] /\ key' = [key EXCEPT ![c] = NoKey]
    BY DEF Undelete, Return
  <1>1. TypeOK'
    BY <1>v, <1>0 DEF TypeOK, Undelete, Return
  <1>2. Control'
    BY <1>v, <1>n, <1>1 DEF Control, TypeOK, OneFlusher, Swapping
  <1>m. \A x \in Keys : /\ ~Marking(x, "undelete")' /\ ~Marking(x, "undirty")' /\ Settled(x)'
                        /\ Marking(x, "undelete") <=> x = key[c]
                        /\ Settled(x) <=> x # key[c]
                        /\ ~Marking(x, "undirty")
    BY <1>v, <1>n, <1>0, <1>1 DEF Marking, Settled, TypeOK
  <1>d. \A x \in Keys : deleted'[x] = IF x = key[c] THEN 0 ELSE deleted[x]
    BY <1>v DEF TypeOK
  <1>b. \A x \in Keys : BoundedAt(x)'
    <2>1. TAKE x \in Keys
    <2>2. BoundedAt(x)
      OBVIOUS
    <2> QED
      BY <2>2, <1>v, <1>d DEF BoundedAt, TypeOK, Entry, Deletion
  <1>o. ASSUME NEW x \in Keys \ torn' PROVE OrderedAt(x)'
    <2>1. OrderedAt(x)
      BY <1>v
    <2> QED
      BY <2>1, <1>v, <1>d, <1>m DEF OrderedAt, Below, Entry, Deletion, Swapping
  <1>s. ASSUME NEW x \in Sound' PROVE SoundAt(x)'
    <2>1. SoundAt(x) /\ BoundedAt(x) /\ x \in Keys
      BY <1>v DEF Sound
    <2>2. CASE x = key[c]
      BY <2>1, <2>2, <1>v, <1>d, <1>m
         DEF SoundAt, KeptAt, BoundedAt, TypeOK, Entry, Deletion
    <2>3. CASE x # key[c]
      <3>1. UNCHANGED <<latest[x], dirty[x], deleted[x], applied[x], Entry(x), Deletion(x)>>
        BY <2>3, <2>1, <1>v, <1>d DEF Entry, Deletion
      <3> QED
        BY <3>1, <2>3, <2>1, <1>m DEF SoundAt, KeptAt
    <2> QED
      BY <2>2, <2>3
  <1>c. Closing'
    BY <1>v, <1>d DEF Closing, ClosedAt, Sound
  <1> QED
    BY <1>1, <1>2, <1>b, <1>o, <1>s, <1>c

LEMMA UndirtyStep ==
  ASSUME IInv, NEW c \in Clients, Undirty(c)
  PROVE  IInv'
  <1> USE StoreAssumption DEF IInv, flushVars, ghostVars
  <1>0. mu = c /\ c # Free /\ key[c] \in Keys
    BY DEF Undirty, Control, TypeOK, Clients
  <1>n. \A d \in Clients \ {c} : pc[d] \notin {"write", "undelete", "undirty"}
    BY <1>0 DEF Control
  <1>v. /\ dirty' = [dirty EXCEPT ![key[c]] = 0]
        /\ UNCHANGED <<deleted, latest, applied, fpc, fdirty, fdel, late, failed, torn, stop>>
        /\ mu' = Free /\ pc[c] = "undirty"
        /\ pc' = [pc EXCEPT ![c] = "idle"] /\ key' = [key EXCEPT ![c] = NoKey]
    BY DEF Undirty, Return
  <1>1. TypeOK'
    BY <1>v, <1>0 DEF TypeOK, Undirty, Return
  <1>2. Control'
    BY <1>v, <1>n, <1>1 DEF Control, TypeOK, OneFlusher, Swapping
  <1>m. \A x \in Keys : /\ ~Marking(x, "undelete")' /\ ~Marking(x, "undirty")' /\ Settled(x)'
                        /\ Marking(x, "undirty") <=> x = key[c]
                        /\ Settled(x) <=> x # key[c]
                        /\ ~Marking(x, "undelete")
    BY <1>v, <1>n, <1>0, <1>1 DEF Marking, Settled, TypeOK
  <1>d. \A x \in Keys : dirty'[x] = IF x = key[c] THEN 0 ELSE dirty[x]
    BY <1>v DEF TypeOK
  <1>b. \A x \in Keys : BoundedAt(x)'
    <2>1. TAKE x \in Keys
    <2>2. BoundedAt(x)
      OBVIOUS
    <2> QED
      BY <2>2, <1>v, <1>d DEF BoundedAt, TypeOK, Entry, Deletion
  <1>o. ASSUME NEW x \in Keys \ torn' PROVE OrderedAt(x)'
    <2>1. OrderedAt(x)
      BY <1>v
    <2> QED
      BY <2>1, <1>v, <1>d, <1>m DEF OrderedAt, Below, Entry, Deletion, Swapping
  <1>s. ASSUME NEW x \in Sound' PROVE SoundAt(x)'
    <2>1. SoundAt(x) /\ BoundedAt(x) /\ x \in Keys
      BY <1>v DEF Sound
    <2>2. CASE x = key[c]
      BY <2>1, <2>2, <1>v, <1>d, <1>m
         DEF SoundAt, KeptAt, BoundedAt, TypeOK, Entry, Deletion
    <2>3. CASE x # key[c]
      <3>1. UNCHANGED <<latest[x], dirty[x], deleted[x], applied[x], Entry(x), Deletion(x)>>
        BY <2>3, <2>1, <1>v, <1>d DEF Entry, Deletion
      <3> QED
        BY <3>1, <2>3, <2>1, <1>m DEF SoundAt, KeptAt
    <2> QED
      BY <2>2, <2>3
  <1>c. Closing'
    BY <1>v, <1>d DEF Closing, ClosedAt, Sound
  <1> QED
    BY <1>1, <1>2, <1>b, <1>o, <1>s, <1>c

-----------------------------------------------------------------------------
(* The steps of a flush.  None of them touches a marking.                  *)

LEMMA FlushBeginStep ==
  ASSUME IInv, NEW f \in Flushers, FlushBegin(f)
  PROVE  IInv'
  <1> USE StoreAssumption DEF IInv, clientVars, mapVars, ghostVars
  <1>w. f = Worker
    BY DEF Control, OneFlusher
  <1>v. /\ fpc[f] = "idle" /\ fpc'[f] \in {"swap", "lastswap"}
        /\ fpc'[f] = "lastswap" => stop
        /\ fdirty'[f] = dirty /\ dirty' = Zero
        /\ UNCHANGED <<pc, key, deleted, fdel, latest, applied, late, failed, torn, stop>>
    BY DEF FlushBegin, TypeOK
  <1>1. TypeOK'
    BY DEF TypeOK, FlushBegin, Zero
  <1>2. Control'
    BY <1>v, <1>w DEF Control, FlushBegin, TypeOK, Swapping, OneFlusher
  <1>m. \A x \in Keys, at \in {"undelete", "undirty"} :
           (Marking(x, at)' <=> Marking(x, at)) /\ (Settled(x)' <=> Settled(x))
    BY <1>v DEF Marking, Settled
  <1>h. ASSUME NEW x \in Keys
        PROVE  /\ Entry(x) = 0 /\ Entry(x)' = dirty[x] /\ dirty'[x] = 0
               /\ Deletion(x) = 0 /\ Deletion(x)' = 0
               /\ latest[x] \in Nat /\ applied[x] \in Nat /\ dirty[x] \in Nat /\ deleted[x] \in Nat
    BY <1>v, <1>w DEF Control, Entry, Deletion, Zero, TypeOK
  <1>b. \A x \in Keys : BoundedAt(x)'
    BY <1>v, <1>h DEF BoundedAt
  <1>o. ASSUME NEW x \in Keys \ torn' PROVE OrderedAt(x)'
    <2>1. OrderedAt(x)
      BY <1>v
    <2> QED
      BY <2>1, <1>v, <1>w, <1>h, <1>m DEF OrderedAt, Below, Swapping
  <1>s. ASSUME NEW x \in Sound' PROVE SoundAt(x)'
    <2>1. SoundAt(x) /\ x \in Keys
      BY <1>v DEF Sound
    <2>2. KeptAt(x)'
      BY <2>1, <1>v, <1>h DEF SoundAt, KeptAt
    <2> QED
      BY <2>1, <2>2, <1>v, <1>h, <1>m DEF SoundAt
  <1>c. Closing'
    BY <1>v, <1>w, <1>h DEF Closing, ClosedAt, Sound
  <1> QED
    BY <1>1, <1>2, <1>b, <1>o, <1>s, <1>c

LEMMA FlushSwapStep ==
  ASSUME IInv, NEW f \in Flushers, FlushSwap(f)
  PROVE  IInv'
  <1> USE StoreAssumption DEF IInv, clientVars, mapVars, ghostVars
  <1>w. f = Worker
    BY DEF Control, OneFlusher
  <1>v. /\ fdel'[f] = deleted /\ deleted' = Zero
        /\ fpc'[f] = IF fpc[f] = "swap" THEN "persist" ELSE "lastpersist"
        /\ fpc[f] \in {"swap", "lastswap"}
        /\ torn' = torn \union {k \in Keys : deleted[k] # 0 /\ ~Settled(k)}
        /\ UNCHANGED <<pc, key, dirty, fdirty, latest, applied, late, failed, stop>>
    BY DEF FlushSwap, TypeOK
  <1>1. TypeOK'
    BY <1>v DEF TypeOK, FlushSwap, Zero
  <1>2. Control'
    BY <1>v, <1>w DEF Control, FlushSwap, TypeOK, Swapping, OneFlusher
  <1>m. \A x \in Keys, at \in {"undelete", "undirty"} :
           (Marking(x, at)' <=> Marking(x, at)) /\ (Settled(x)' <=> Settled(x))
    BY <1>v DEF Marking, Settled
  <1>e. ASSUME NEW x \in Keys, Settled(x)
        PROVE  ~Marking(x, "undelete") /\ ~Marking(x, "undirty")
    BY <1>e DEF Settled, Marking
  <1>h. ASSUME NEW x \in Keys
        PROVE  /\ Entry(x)' = Entry(x) /\ Deletion(x) = 0
               /\ Deletion(x)' = deleted[x] /\ deleted'[x] = 0
               /\ Entry(x) \in Nat /\ latest[x] \in Nat /\ applied[x] \in Nat
               /\ dirty[x] \in Nat /\ deleted[x] \in Nat
    BY <1>v, <1>w DEF Control, Entry, Deletion, Zero, TypeOK, Swapping
  <1>t. \A x \in Keys \ torn' : x \notin torn /\ (deleted[x] = 0 \/ Settled(x))
    BY <1>v
  <1>b. \A x \in Keys : BoundedAt(x)'
    BY <1>v, <1>h DEF BoundedAt
  <1>o. ASSUME NEW x \in Keys \ torn' PROVE OrderedAt(x)'
    <2>1. OrderedAt(x)
      BY <1>t
    <2> QED
      BY <2>1, <1>v, <1>w, <1>h, <1>e, <1>t DEF OrderedAt, Below, Swapping
  <1>s. ASSUME NEW x \in Sound' PROVE SoundAt(x)'
    <2>1. SoundAt(x) /\ OrderedAt(x) /\ BoundedAt(x) /\ x \in Keys
          /\ (deleted[x] = 0 \/ Settled(x))
      BY <1>v, <1>t DEF Sound
    <2>2. KeptAt(x)'
      <3>1. CASE deleted[x] = 0
        BY <3>1, <2>1, <1>v, <1>h DEF SoundAt, KeptAt
      <3>2. CASE Settled(x) /\ deleted[x] # 0
        <4>1. Entry(x) = latest[x] => deleted[x] = latest[x] \/ latest[x] = 0
          BY <3>2, <2>1, <1>h, <1>e DEF OrderedAt, BoundedAt, Below
        <4> QED
          BY <4>1, <3>2, <2>1, <1>v, <1>h DEF SoundAt, KeptAt, BoundedAt
      <3> QED
        BY <3>1, <3>2, <2>1
    <2>3. Marking(x, "undirty")' => deleted'[x] = latest'[x]
      <3>1. Marking(x, "undirty") => deleted[x] = latest[x] /\ deleted[x] = 0
        BY <2>1, <1>e DEF SoundAt
      <3> QED
        BY <3>1, <2>1, <1>v, <1>m, <1>h
    <2> QED
      BY <2>1, <2>2, <2>3, <1>v, <1>h, <1>m DEF SoundAt, BoundedAt
  <1>c. Closing'
    BY <1>v, <1>w, <1>h DEF Closing, ClosedAt, Sound
  <1> QED
    BY <1>1, <1>2, <1>b, <1>o, <1>s, <1>c

LEMMA FlushEntryStep ==
  ASSUME IInv, NEW f \in Flushers, NEW k \in Keys, FlushEntry(f, k)
  PROVE  IInv'
  <1> USE StoreAssumption DEF IInv, clientVars, mapVars, ghostVars
  <1>w. f = Worker
    BY DEF Control, OneFlusher
  <1>v. /\ fpc[f] \in {"persist", "lastpersist"} /\ Entry(k) # 0 /\ Entry(k)' = 0
        /\ \A x \in Keys \ {k} : Entry(x)' = Entry(x)
        /\ \A x \in Keys : Deletion(x)' = Deletion(x)
        /\ UNCHANGED <<pc, key, deleted, fpc, fdel, latest, late, torn, stop>>
        /\ \/ Deletion(k) # 0 /\ UNCHANGED <<applied, dirty, failed>>
           \/ /\ Deletion(k) = 0 /\ applied' = [applied EXCEPT ![k] = Entry(k)]
              /\ UNCHANGED <<dirty, failed>>
           \/ /\ Deletion(k) = 0 /\ dirty' = [dirty EXCEPT ![k] = Entry(k)]
              /\ failed' = failed \union {k} /\ UNCHANGED applied
    BY <1>w DEF FlushEntry, TypeOK, Entry, Deletion
  <1>1. TypeOK'
    <2>1. Entry(k) \in Nat
      BY <1>w DEF TypeOK, Entry
    <2>2. dirty' \in [Keys -> Nat] /\ db' \in [Keys -> Nat] /\ applied' \in [Keys -> Nat]
          /\ failed' \subseteq Keys
      BY <2>1, <1>w DEF FlushEntry, TypeOK, Entry
    <2>3. fdirty' \in [Flushers -> [Keys -> Nat]]
      BY DEF FlushEntry, TypeOK
    <2> QED
      BY <2>2, <2>3, <1>v DEF FlushEntry, TypeOK
  <1>2. Control'
    BY <1>v, <1>w DEF Control, FlushEntry, TypeOK, Swapping, OneFlusher
  <1>m. \A x \in Keys, at \in {"undelete", "undirty"} :
           (Marking(x, at)' <=> Marking(x, at)) /\ (Settled(x)' <=> Settled(x))
    BY <1>v DEF Marking, Settled
  <1>h. ASSUME NEW x \in Keys
        PROVE  /\ Entry(x) \in Nat /\ Deletion(x) \in Nat /\ latest[x] \in Nat
               /\ applied[x] \in Nat /\ dirty[x] \in Nat /\ deleted[x] \in Nat
               /\ (applied'[x] = applied[x] \/ (x = k /\ Deletion(k) = 0 /\ applied'[x] = Entry(k)))
               /\ \/ dirty'[x] = dirty[x]
                  \/ x = k /\ Deletion(k) = 0 /\ dirty'[x] = Entry(k) /\ x \in failed'
                     /\ applied'[x] = applied[x]
    <2>1. Entry(x) \in Nat /\ Deletion(x) \in Nat
      BY <1>w DEF Entry, Deletion, TypeOK
    <2>2. /\ latest[x] \in Nat /\ applied[x] \in Nat /\ dirty[x] \in Nat /\ deleted[x] \in Nat
          /\ DOMAIN applied = Keys /\ DOMAIN dirty = Keys
      BY DEF TypeOK
    <2>3. (applied'[x] = applied[x] \/ (x = k /\ Deletion(k) = 0 /\ applied'[x] = Entry(k)))
      <3>1. CASE Deletion(k) = 0 /\ applied' = [applied EXCEPT ![k] = Entry(k)]
        BY <3>1, <2>2
      <3> QED
        BY <3>1, <1>v
    <2>4. CASE UNCHANGED dirty
      BY <2>1, <2>2, <2>3, <2>4
    <2>5. CASE /\ Deletion(k) = 0 /\ dirty' = [dirty EXCEPT ![k] = Entry(k)]
               /\ failed' = failed \union {k} /\ UNCHANGED applied
      BY <2>1, <2>2, <2>3, <2>5
    <2> QED
      BY <2>4, <2>5, <1>v
  <1>b. \A x \in Keys : BoundedAt(x)'
    <2>1. TAKE x \in Keys
    <2>2. BoundedAt(x) /\ BoundedAt(k)
      OBVIOUS
    <2> QED
      BY <2>2, <1>v, <1>h DEF BoundedAt
  <1>o. ASSUME NEW x \in Keys \ torn' PROVE OrderedAt(x)'
    <2>1. OrderedAt(x)
      BY <1>v
    <2>2. ~Swapping
      BY <1>v, <1>w DEF Swapping
    <2>3. CASE x = k
      BY <2>1, <2>2, <2>3, <1>v, <1>h, <1>m DEF OrderedAt, Below, Swapping
    <2>4. CASE x # k
      BY <2>1, <2>2, <2>4, <1>v, <1>h, <1>m DEF OrderedAt, Below, Swapping
    <2> QED
      BY <2>3, <2>4
  <1>s. ASSUME NEW x \in Sound' PROVE SoundAt(x)'
    <2>1. SoundAt(x) /\ OrderedAt(x) /\ BoundedAt(x) /\ x \in Keys /\ x \notin failed'
      BY <1>v DEF Sound
    <2>2. KeptAt(x)'
      <3>1. CASE x # k
        BY <3>1, <2>1, <1>v, <1>h DEF SoundAt, KeptAt
      <3>2. CASE x = k /\ Deletion(k) # 0
        BY <3>2, <2>1, <1>v, <1>h DEF SoundAt, KeptAt
      <3>3. CASE x = k /\ Deletion(k) = 0
        <4>1. applied'[k] = Entry(k) /\ dirty'[k] = dirty[k]
          BY <3>3, <2>1, <1>v, <1>h DEF TypeOK
        <4>2. applied[k] = latest[k] => Entry(k) = latest[k]
          BY <3>3, <2>1, <1>v, <1>h DEF OrderedAt, BoundedAt
        <4> QED
          BY <4>1, <4>2, <3>3, <2>1, <1>v, <1>h DEF SoundAt, KeptAt
      <3> QED
        BY <3>1, <3>2, <3>3
    <2> QED
      BY <2>1, <2>2, <1>v, <1>h, <1>m DEF SoundAt
  <1>c. Closing'
    <2>1. ASSUME NEW x \in (Sound \ late)' PROVE ClosedAt(x)'
      <3>1. x \in Sound \ late /\ ClosedAt(x) /\ x \in Keys /\ x \notin failed'
        BY <1>v DEF Sound, Closing
      <3> QED
        BY <3>1, <1>v, <1>w, <1>h DEF ClosedAt
    <2> QED
      BY <2>1, <1>v DEF Closing
  <1> QED
    BY <1>1, <1>2, <1>b, <1>o, <1>s, <1>c

LEMMA FlushDeleteStep ==
  ASSUME IInv, NEW f \in Flushers, NEW k \in Keys, FlushDelete(f, k)
  PROVE  IInv'
  <1> USE StoreAssumption DEF IInv, clientVars, mapVars, ghostVars
  <1>w. f = Worker
    BY DEF Control, OneFlusher
  <1>v. /\ fpc[f] \in {"persist", "lastpersist"} /\ Deletion(k) # 0 /\ Deletion(k)' = 0
        /\ \A x \in Keys \ {k} : Deletion(x)' = Deletion(x)
        /\ \A x \in Keys : Entry(x)' = Entry(x) /\ Entry(x) = 0
        /\ UNCHANGED <<pc, key, dirty, deleted, fpc, fdirty, latest, late, torn, stop>>
        /\ \/ applied' = [applied EXCEPT ![k] = Deletion(k)] /\ UNCHANGED failed
           \/ failed' = failed \union {k} /\ UNCHANGED applied
    BY <1>w DEF FlushDelete, TypeOK, Entry, Deletion, Zero
  <1>1. TypeOK'
    <2>1. Deletion(k) \in Nat
      BY <1>w DEF TypeOK, Deletion
    <2>2. db' \in [Keys -> Nat]
      BY DEF FlushDelete, TypeOK
    <2>4. applied' \in [Keys -> Nat] /\ failed' \subseteq Keys
      <3>1. CASE UNCHANGED applied
        BY <3>1, <1>v DEF TypeOK
      <3>2. CASE applied' = [applied EXCEPT ![k] = Deletion(k)]
        BY <3>2, <2>1, <1>v DEF TypeOK
      <3> QED
        BY <3>1, <3>2, <1>v
    <2>3. fdel' \in [Flushers -> [Keys -> Nat]]
      BY DEF FlushDelete, TypeOK
    <2> QED
      BY <2>2, <2>3, <2>4, <1>v DEF FlushDelete, TypeOK
  <1>2. Control'
    BY <1>v, <1>w DEF Control, FlushDelete, TypeOK, Swapping, OneFlusher
  <1>m. \A x \in Keys, at \in {"undelete", "undirty"} :
           (Marking(x, at)' <=> Marking(x, at)) /\ (Settled(x)' <=> Settled(x))
    BY <1>v DEF Marking, Settled
  <1>h. ASSUME NEW x \in Keys
        PROVE  /\ Deletion(x) \in Nat /\ latest[x] \in Nat
               /\ applied[x] \in Nat /\ dirty[x] \in Nat /\ deleted[x] \in Nat
               /\ \/ applied'[x] = applied[x] /\ (x # k \/ x \in failed')
                  \/ x = k /\ applied'[x] = Deletion(k)
    <2>1. Deletion(x) \in Nat
      BY <1>w DEF Deletion, TypeOK
    <2>2. /\ latest[x] \in Nat /\ applied[x] \in Nat /\ dirty[x] \in Nat /\ deleted[x] \in Nat
          /\ DOMAIN applied = Keys
      BY DEF TypeOK
    <2> QED
      BY <2>1, <2>2, <1>v
  <1>b. \A x \in Keys : BoundedAt(x)'
    <2>1. TAKE x \in Keys
    <2>2. BoundedAt(x) /\ BoundedAt(k)
      OBVIOUS
    <2> QED
      BY <2>2, <1>v, <1>h DEF BoundedAt
  <1>o. ASSUME NEW x \in Keys \ torn' PROVE OrderedAt(x)'
    <2>1. OrderedAt(x)
      BY <1>v
    <2>2. ~Swapping
      BY <1>v, <1>w DEF Swapping
    <2>3. CASE x = k
      BY <2>1, <2>2, <2>3, <1>v, <1>h, <1>m DEF OrderedAt, Below, Swapping
    <2>4. CASE x # k
      BY <2>1, <2>2, <2>4, <1>v, <1>h, <1>m DEF OrderedAt, Below, Swapping
    <2> QED
      BY <2>3, <2>4
  <1>s. ASSUME NEW x \in Sound' PROVE SoundAt(x)'
    <2>1. SoundAt(x) /\ OrderedAt(x) /\ BoundedAt(x) /\ x \in Keys /\ x \notin failed'
      BY <1>v DEF Sound
    <2>2. KeptAt(x)'
      <3>1. CASE x # k
        BY <3>1, <2>1, <1>v, <1>h DEF SoundAt, KeptAt
      <3>2. CASE x = k
        <4>1. applied'[k] = Deletion(k)
          BY <3>2, <2>1, <1>h
        <4>2. applied[k] = latest[k] => Deletion(k) = latest[k]
          BY <3>2, <2>1, <1>v, <1>h DEF OrderedAt, BoundedAt
        <4> QED
          BY <4>1, <4>2, <3>2, <2>1, <1>v, <1>h DEF SoundAt, KeptAt
      <3> QED
        BY <3>1, <3>2
    <2> QED
      BY <2>1, <2>2, <1>v, <1>h, <1>m DEF SoundAt
  <1>c. Closing'
    <2>1. ASSUME NEW x \in (Sound \ late)' PROVE ClosedAt(x)'
      <3>1. x \in Sound \ late /\ ClosedAt(x) /\ x \in Keys
        BY <1>v DEF Sound, Closing
      <3> QED
        BY <3>1, <1>v, <1>w DEF ClosedAt
    <2> QED
      BY <2>1, <1>v DEF Closing
  <1> QED
    BY <1>1, <1>2, <1>b, <1>o, <1>s, <1>c

\* A flush ends, or the worker: what is in neither map is in the table.
LEMMA EndStep ==
  ASSUME IInv, NEW f \in Flushers, FlushEnd(f) \/ WorkerDone
  PROVE  IInv'
  <1> USE StoreAssumption DEF IInv, clientVars, mapVars, ghostVars
  <1>w. f = Worker
    BY DEF Control, OneFlusher
  <1>v. /\ UNCHANGED <<mu, pc, key, dirty, deleted, fdirty, fdel, latest, applied, late,
                        failed, torn, stop>>
        /\ fdirty[Worker] = Zero /\ fdel[Worker] = Zero
        /\ \/ fpc[Worker] = "persist" /\ fpc'[Worker] = "idle"
           \/ fpc[Worker] = "lastpersist" /\ fpc'[Worker] = "done"
           \/ /\ fpc[Worker] = "idle" /\ fpc'[Worker] = "done" /\ stop
              /\ dirty = Zero /\ deleted = Zero
    BY <1>w DEF FlushEnd, WorkerDone, Control, TypeOK
  <1>1. TypeOK'
    BY DEF TypeOK, FlushEnd, WorkerDone
  <1>2. Control'
    BY <1>v, <1>w DEF Control, FlushEnd, TypeOK, Swapping, OneFlusher
  <1>m. \A x \in Keys, at \in {"undelete", "undirty"} :
           (Marking(x, at)' <=> Marking(x, at)) /\ (Settled(x)' <=> Settled(x))
    BY <1>v DEF Marking, Settled
  <1>h. ASSUME NEW x \in Keys
        PROVE  Entry(x) = 0 /\ Deletion(x) = 0 /\ Entry(x)' = 0 /\ Deletion(x)' = 0
    BY <1>v, <1>w DEF Entry, Deletion, Zero
  <1>b. \A x \in Keys : BoundedAt(x)'
    BY <1>v, <1>h DEF BoundedAt
  <1>o. ASSUME NEW x \in Keys \ torn' PROVE OrderedAt(x)'
    <2>1. OrderedAt(x)
      BY <1>v
    <2> QED
      BY <2>1, <1>v, <1>h, <1>m DEF OrderedAt, Below, Swapping
  <1>s. ASSUME NEW x \in Sound' PROVE SoundAt(x)'
    <2>1. SoundAt(x) /\ x \in Keys
      BY <1>v DEF Sound
    <2> QED
      BY <2>1, <1>v, <1>h, <1>m DEF SoundAt, KeptAt
  <1>c. Closing'
    <2>1. ASSUME NEW x \in (Sound \ late)' PROVE ClosedAt(x)'
      <3>1. /\ x \in Sound \ late /\ ClosedAt(x) /\ x \in Keys
            /\ SoundAt(x) /\ BoundedAt(x) /\ applied[x] \in Nat /\ latest[x] \in Nat
        BY <1>v DEF Sound, Closing, TypeOK
      <3>2. dirty[x] = 0 /\ deleted[x] = 0 => applied[x] = latest[x]
        BY <3>1, <1>h DEF SoundAt, KeptAt, BoundedAt
      <3> QED
        BY <3>1, <3>2, <1>v DEF ClosedAt, Zero
    <2> QED
      BY <2>1, <1>v DEF Closing
  <1> QED
    BY <1>1, <1>2, <1>b, <1>o, <1>s, <1>c

-----------------------------------------------------------------------------
(* The other steps of a client, and Close, are quiet.                      *)

\* A client that holds no marking moves on, or returns, without one.
LEMMA ReadStep ==
  ASSUME IInv, NEW c \in Clients,
         \/ \E k \in Keys : \/ c \in Readers /\ (Get(c, k) \/ GetFresh(c, k))
                            \/ c \in Writers /\ Update(c, k)
         \/ ReadCache(c) \/ ReadDB(c) \/ Fill(c) \/ UpdateReturn(c)
  PROVE  IInv'
  <1> USE StoreAssumption DEF IInv, mapVars, flushVars, ghostVars
  <1>0. c # Free
    BY DEF Clients
  <1>1. /\ UNCHANGED <<dirty, deleted, applied, fpc, fdirty, fdel, latest, live, late,
                        failed, torn, db, stop>>
        /\ pc[c] \in {"idle", "cache", "db", "fill", "write"}
        /\ pc'[c] \in {"idle", "cache", "db", "fill", "write"}
        /\ pc' = [pc EXCEPT ![c] = pc'[c]]
        /\ key' = [key EXCEPT ![c] = key'[c]]
    BY DEF Get, GetFresh, Update, ReadCache, ReadDB, Fill, UpdateReturn, ReadDone, Return,
           TypeOK
  <1>2. Quiet
    BY <1>1 DEF Quiet, TypeOK
  <1>3. cache' \in [Keys -> Nat]
    <2>1. CASE Fill(c)
      BY <2>1, CacheAddType DEF Fill, TypeOK
    <2>2. CASE ~Fill(c)
      BY <2>2 DEF Get, GetFresh, Update, ReadCache, ReadDB, UpdateReturn, TypeOK
    <2> QED
      BY <2>1, <2>2
  <1>4. /\ mu' \in Writers \union {Free} /\ key'[c] \in Keys \union {NoKey}
        /\ pc'[c] # "idle" => key'[c] \in Keys
    BY DEF Get, GetFresh, Update, ReadCache, ReadDB, Fill, UpdateReturn, ReadDone, Return,
           TypeOK
  <1>5. val' \in [Clients -> Nat]
    <2>1. UNCHANGED val \/ val' = [val EXCEPT ![c] = 0] \/ val' = [val EXCEPT ![c] = db[key[c]]]
      BY DEF Get, GetFresh, Update, ReadCache, ReadDB, Fill, UpdateReturn, ReadDone, Return
    <2>2. CASE ReadDB(c)
      BY <2>1, <2>2 DEF ReadDB, TypeOK
    <2>3. CASE ~ReadDB(c)
      BY <2>3 DEF Get, GetFresh, Update, ReadCache, Fill, UpdateReturn, ReadDone, Return, TypeOK
    <2> QED
      BY <2>2, <2>3
  <1>6. TypeOK'
    <2>1. pc' \in [Clients -> {"idle", "cache", "db", "fill", "write", "undelete", "undirty"}]
      BY <1>1 DEF TypeOK
    <2>2. key' \in [Clients -> Keys \union {NoKey}]
      BY <1>1, <1>4 DEF TypeOK
    <2>3. \A d \in Clients : pc'[d] # "idle" => key'[d] \in Keys
      BY <1>1, <1>4 DEF TypeOK
    <2> QED
      BY <2>1, <2>2, <2>3, <1>1, <1>3, <1>4, <1>5 DEF TypeOK
  <1>7. pc'[c] = "write" => mu' = c
    BY <1>0 DEF Get, GetFresh, Update, ReadCache, ReadDB, Fill, UpdateReturn, ReadDone, Return,
           TypeOK, Control
  <1>8. ASSUME NEW d \in Clients, d # c, pc[d] \in {"write", "undelete", "undirty"}
        PROVE  mu' = d
    <2>1. mu = d /\ d # Free
      BY <1>8 DEF Control, Clients
    <2> QED
      BY <2>1, <1>8 DEF Get, GetFresh, Update, ReadCache, ReadDB, Fill, UpdateReturn, Control
  <1>9. Control'
    BY <1>1, <1>6, <1>7, <1>8 DEF Control, TypeOK, Swapping, OneFlusher
  <1> QED
    BY <1>2, <1>6, <1>9, QuietStep

LEMMA CloseStep ==
  ASSUME IInv, Close \/ UNCHANGED vars
  PROVE  IInv'
  <1> USE DEF IInv, Close, vars, clientVars, mapVars, flushVars, ghostVars
  <1>1. Quiet
    BY DEF Quiet
  <1>2. TypeOK'
    BY DEF TypeOK
  <1>3. Control'
    BY DEF Control, Swapping
  <1> QED
    BY <1>1, <1>2, <1>3, QuietStep

LEMMA StepIInv == IInv /\ [Next]_vars => IInv'
  <1> SUFFICES ASSUME IInv, [Next]_vars PROVE IInv'
    OBVIOUS
  <1> USE StoreAssumption
  <1>1. ASSUME NEW c \in Clients, Call(c) PROVE IInv'
    <2>1. ASSUME NEW k \in Keys, c \in Writers, Set(c, k) PROVE IInv'
      <3>1. /\ mu' = c /\ mu = Free /\ pc[c] = "idle" /\ key' = [key EXCEPT ![c] = k]
            /\ key \in [Clients -> Keys \union {NoKey}]
        BY <2>1 DEF Set, IInv, TypeOK
      <3> QED
        BY <3>1, <2>1, WriteStep DEF Set
    <2>2. ASSUME NEW k \in Keys, c \in Writers, Del(c, k) PROVE IInv'
      BY <2>2, DelStep
    <2>3. ASSUME NEW k \in Keys, \/ c \in Readers /\ (Get(c, k) \/ GetFresh(c, k))
                                 \/ c \in Writers /\ Update(c, k)
          PROVE IInv'
      BY <2>3, ReadStep
    <2> QED
      BY <1>1, <2>1, <2>2, <2>3 DEF Call
  <1>2. ASSUME NEW c \in Clients, Proceed(c) PROVE IInv'
    <2>1. CASE UpdateWrite(c)
      <3>1. /\ pc[c] = "write" /\ mu = c /\ c \in Writers /\ UNCHANGED <<mu, key>>
            /\ key[c] \in Keys /\ key \in [Clients -> Keys \union {NoKey}]
        BY <2>1 DEF UpdateWrite, IInv, TypeOK, Control, Clients
      <3> QED
        BY <3>1, <2>1, WriteStep DEF UpdateWrite
    <2> QED
      BY <1>2, <2>1, UndeleteStep, UndirtyStep, ReadStep DEF Proceed
  <1>3. ASSUME NEW f \in Flushers, Flush(f) PROVE IInv'
    BY <1>3, FlushBeginStep, FlushSwapStep, FlushEntryStep, FlushDeleteStep, EndStep DEF Flush
  <1> QED
    BY <1>1, <1>2, <1>3, EndStep, CloseStep DEF Next

-----------------------------------------------------------------------------
THEOREM Invariance == OneFlusher => (Spec => []IInv)
  <1>1. OneFlusher /\ Init => IInv
    BY InitIInv
  <1>2. IInv /\ [Next]_vars => IInv'
    BY StepIInv
  <1> QED
    BY <1>1, <1>2, PTL DEF Spec

\* Every variable keeps its type.
THEOREM TypeCorrect == OneFlusher => (Spec => []TypeOK)
  <1>1. IInv => TypeOK
    BY DEF IInv
  <1> QED
    BY <1>1, Invariance, PTL

\* Writes that return are remembered: as long as no database call fails on a
\* key and no flush tears one of its markings, its last operation is in the
\* table, in a map or in the hands of the flush (xun.go:132-175, 276-303).
THEOREM NothingIsForgotten == OneFlusher => (Spec => []NothingForgotten)
  <1>1. IInv => \A k \in Sound : Kept(k)
    BY StoreAssumption DEF IInv, SoundAt, KeptAt, Kept, Entry, Deletion, Sound
  <1>2. IInv => PendingConsistent
    BY DEF IInv, PendingConsistent, SoundAt, Sound
  <1> QED
    BY <1>1, <1>2, Invariance, PTL DEF NothingForgotten

\* The worker ends with every operation that precedes Close in the table
\* (xun.go:119-122, 265-268).
THEOREM CloseIsDurable == OneFlusher => (Spec => []CloseDurable)
  <1>1. IInv => CloseDurable
    BY DEF IInv, CloseDurable, Closing, ClosedAt
  <1> QED
    BY <1>1, Invariance, PTL

-----------------------------------------------------------------------------
(* The refinement of WriteBehind.                                          *)

LEMMA StepWB == IInv /\ [Next]_vars => [WB!WBNext]_(WB!wbVars)
  <1> SUFFICES ASSUME IInv, [Next]_vars PROVE [WB!WBNext]_(WB!wbVars)
    OBVIOUS
  <1> USE StoreAssumption DEF WB!wbVars, clientVars, mapVars, flushVars, ghostVars
  <1>w. \A f \in Flushers : f = Worker
    BY DEF IInv, Control, OneFlusher
  <1>1. ASSUME NEW k \in Keys, NEW c, Write(c, k) \/ Del(c, k)
        PROVE  WB!WBNext
    <2>1. WB!Accept(k)
      BY <1>1 DEF Write, Del, Accepted, WB!Accept
    <2> QED
      BY <2>1 DEF WB!WBNext
  <1>2. ASSUME NEW c \in Clients, Call(c) PROVE [WB!WBNext]_(WB!wbVars)
    BY <1>1, <1>2 DEF Call, Set, Get, GetFresh, Update
  <1>3. ASSUME NEW c \in Clients, Proceed(c) PROVE [WB!WBNext]_(WB!wbVars)
    <2>1. CASE UpdateWrite(c)
      <3>1. key[c] \in Keys
        BY <2>1 DEF UpdateWrite, IInv, TypeOK
      <3> QED
        BY <3>1, <2>1, <1>1 DEF UpdateWrite
    <2> QED
      BY <1>3, <2>1 DEF Proceed, Undelete, Undirty, ReadCache, ReadDB, Fill, UpdateReturn
  <1>4. ASSUME NEW k \in Keys, NEW n \in Nat, n # 0, n = Entry(k) \/ n = Deletion(k),
               applied' = [applied EXCEPT ![k] = n], UNCHANGED <<latest, torn>>
        PROVE  WB!WBNext
    <2>1. n \in 0..latest[k]
      BY <1>4 DEF IInv, BoundedAt, TypeOK
    <2>2. k \in torn \/ applied[k] <= n
      BY <1>4 DEF IInv, OrderedAt
    <2>3. WB!Persist(k)
      BY <2>1, <2>2, <1>4 DEF WB!Persist
    <2> QED
      BY <2>3 DEF WB!WBNext
  <1>5. ASSUME NEW f \in Flushers, Flush(f) PROVE [WB!WBNext]_(WB!wbVars)
    <2>1. CASE FlushBegin(f) \/ FlushEnd(f)
      BY <2>1 DEF FlushBegin, FlushEnd
    <2>2. CASE FlushSwap(f)
      <3>1. torn' = torn \union {k \in Keys : deleted[k] # 0 /\ ~Settled(k)}
            /\ UNCHANGED <<latest, applied>>
        BY <2>2 DEF FlushSwap
      <3>2. \E K \in SUBSET Keys : WB!GoAstray(K)
        BY <3>1 DEF WB!GoAstray
      <3> QED
        BY <3>2 DEF WB!WBNext
    <2>3. ASSUME NEW k \in Keys, FlushEntry(f, k) PROVE [WB!WBNext]_(WB!wbVars)
      <3>1. Entry(k) \in Nat /\ Entry(k) # 0
        BY <2>3, <1>w DEF FlushEntry, IInv, TypeOK, Entry
      <3>2. /\ UNCHANGED <<latest, torn>>
            /\ UNCHANGED applied \/ applied' = [applied EXCEPT ![k] = Entry(k)]
        BY <2>3, <1>w DEF FlushEntry, Entry
      <3> QED
        BY <3>1, <3>2, <1>4
    <2>4. ASSUME NEW k \in Keys, FlushDelete(f, k) PROVE [WB!WBNext]_(WB!wbVars)
      <3>1. Deletion(k) \in Nat /\ Deletion(k) # 0
        BY <2>4, <1>w DEF FlushDelete, IInv, TypeOK, Deletion
      <3>2. /\ UNCHANGED <<latest, torn>>
            /\ UNCHANGED applied \/ applied' = [applied EXCEPT ![k] = Deletion(k)]
        BY <2>4, <1>w DEF FlushDelete, Deletion
      <3> QED
        BY <3>1, <3>2, <1>4
    <2> QED
      BY <1>5, <2>1, <2>2, <2>3, <2>4 DEF Flush
  <1> QED
    BY <1>2, <1>3, <1>5 DEF Next, WorkerDone, Close, vars

\* The store writes behind: the table only moves forward, and never past what
\* was accepted, whatever fails (xun.go:132-175).
THEOREM Refinement == OneFlusher => (Spec => ImplementsWriteBehind)
  <1>1. Init => WB!WBInit
    BY DEF Init, Zero, WB!WBInit
  <1>2. IInv /\ [Next]_vars => [WB!WBNext]_(WB!wbVars)
    BY StepWB
  <1> QED
    BY <1>1, <1>2, Invariance, PTL DEF Spec, ImplementsWriteBehind, WB!WBSpec
=============================================================================
