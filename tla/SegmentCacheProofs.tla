------------------------- MODULE SegmentCacheProofs --------------------------
(***************************************************************************)
(* The downloads of a cached file, and what it answers.  First, who points *)
(* to an ActiveDownload, and who is bound to untrack it.  Then, that the   *)
(* bitmap tells the truth, no bit is lost, a read returns the file's bytes *)
(* or an error, and SegmentCache implements SegmentStore.                  *)
(***************************************************************************)
EXTENDS SegmentCacheLocks, SegmentRefinement

-----------------------------------------------------------------------------
(* Downloads. *)

Listed(a) == IF a \in active_dls THEN 1 ELSE 0
PointersTo(a, f, S) == Cardinality({x \in S : f[x] = a})
WaitsOn(a) == PointersTo(a, orig_ad, Readers)
TransfersOf(a) == PointersTo(a, [t \in Threads |-> ts[t].ad], Threads)

RefsSum == \A a \in AdIds :
             ad[a].refcount = Listed(a) + WaitsOn(a) + TransfersOf(a)
NodesFreed == \A a \in AdIds : /\ ad[a].unlinked => a \notin active_dls
                               /\ ad[a].refcount = 0 => ad[a] = FreeAd
PointersHeld == /\ \A r \in Readers : orig_ad[r] # None <=> pc[r] = "wait"
                /\ \A t \in Threads : ts[t].ad # None <=> pc[t] = "transfer"

RefsHeld == RefsSum /\ NodesFreed /\ PointersHeld

\* The number of pointers to a node is a number, and zero when there is none.
LEMMA PointersType ==
  ASSUME NEW S, IsFiniteSet(S), NEW f, NEW a
  PROVE  /\ PointersTo(a, f, S) \in Nat
         /\ PointersTo(a, f, S) = 0 <=> \A x \in S : f[x] # a
<1>1. IsFiniteSet({x \in S : f[x] = a})
  BY FS_Subset
<1> QED
  BY <1>1, FS_CardinalityType, FS_EmptySet DEF PointersTo

\* When one of a set of pointers changes, so does the number of those that point
\* to a node.
LEMMA PointersMove ==
  ASSUME NEW S, NEW f, NEW g, NEW t, NEW a, t \in S, IsFiniteSet(S),
         \A y \in S : y # t => g[y] = f[y]
  PROVE  PointersTo(a, g, S) = PointersTo(a, f, S)
                               + (IF g[t] = a THEN 1 ELSE 0)
                               - (IF f[t] = a THEN 1 ELSE 0)
<1>1. \A y \in S \ {t} : g[y] \in {a} <=> f[y] \in {a}
  OBVIOUS
<1>2. CountIn(g, S, {a}) = CountIn(f, S, {a})
                           + (IF t \in S /\ g[t] \in {a} THEN 1 ELSE 0)
                           - (IF t \in S /\ f[t] \in {a} THEN 1 ELSE 0)
  BY <1>1, CountOne
<1>3. /\ {x \in S : f[x] \in {a}} = {x \in S : f[x] = a}
      /\ {x \in S : g[x] \in {a}} = {x \in S : g[x] = a}
  OBVIOUS
<1>4. /\ CountIn(g, S, {a}) = PointersTo(a, g, S)
      /\ CountIn(f, S, {a}) = PointersTo(a, f, S)
  BY <1>3, Zenon DEF CountIn, PointersTo
<1> QED
  BY <1>2, <1>4

\* The references that are counted are numbers, and none of them is left when
\* the count is zero.
LEMMA RefsAreNat ==
  ASSUME NEW a \in AdIds
  PROVE  /\ Listed(a) \in {0, 1}
         /\ WaitsOn(a) \in Nat /\ TransfersOf(a) \in Nat
         /\ WaitsOn(a) = 0 <=> \A r \in Readers : orig_ad[r] # a
         /\ TransfersOf(a) = 0 <=> \A t \in Threads : ts[t].ad # a
<1>1. ASSUME NEW f, f = [t \in Threads |-> ts[t].ad]
      PROVE  /\ PointersTo(a, f, Threads) \in Nat
             /\ PointersTo(a, f, Threads) = 0 <=> \A t \in Threads : ts[t].ad # a
  BY <1>1, FiniteThreads, PointersType
<1> QED
  BY <1>1, FiniteThreads, PointersType DEF Listed, WaitsOn, TransfersOf

\* A reader that takes or drops a pointer changes what waits on its nodes.
LEMMA WaitsMove ==
  ASSUME LocalsOK, NEW r \in Readers, NEW x,
         orig_ad' = [orig_ad EXCEPT ![r] = x], NEW a \in AdIds
  PROVE  WaitsOn(a)' = WaitsOn(a) + (IF x = a THEN 1 ELSE 0)
                                  - (IF orig_ad[r] = a THEN 1 ELSE 0)
<1>1. ASSUME NEW f, NEW g, f = orig_ad, g = orig_ad'
      PROVE  PointersTo(a, g, Readers) = PointersTo(a, f, Readers)
                                         + (IF x = a THEN 1 ELSE 0)
                                         - (IF orig_ad[r] = a THEN 1 ELSE 0)
  <2>1. /\ f[r] = orig_ad[r] /\ g[r] = x
        /\ \A y \in Readers : y # r => g[y] = f[y]
    BY <1>1 DEF LocalsOK
  <2>2. PointersTo(a, g, Readers) = PointersTo(a, f, Readers)
                                    + (IF g[r] = a THEN 1 ELSE 0)
                                    - (IF f[r] = a THEN 1 ELSE 0)
    BY <2>1, FiniteThreads, PointersMove
  <2> QED
    BY <2>1, <2>2
<1> QED
  BY <1>1 DEF WaitsOn

\* So does a transfer.
LEMMA TransfersMove ==
  ASSUME NetOK, NEW t \in Threads, NEW x,
         \A u \in Threads : ts'[u].ad = IF u = t THEN x ELSE ts[u].ad,
         NEW a \in AdIds
  PROVE  TransfersOf(a)' = TransfersOf(a) + (IF x = a THEN 1 ELSE 0)
                                          - (IF ts[t].ad = a THEN 1 ELSE 0)
<1>1. ASSUME NEW f, NEW g,
             f = [u \in Threads |-> ts[u].ad], g = [u \in Threads |-> ts'[u].ad]
      PROVE  PointersTo(a, g, Threads) = PointersTo(a, f, Threads)
                                         + (IF x = a THEN 1 ELSE 0)
                                         - (IF ts[t].ad = a THEN 1 ELSE 0)
  <2>1. /\ f[t] = ts[t].ad /\ g[t] = x
        /\ \A y \in Threads : y # t => g[y] = f[y]
    BY <1>1
  <2>2. PointersTo(a, g, Threads) = PointersTo(a, f, Threads)
                                    + (IF g[t] = a THEN 1 ELSE 0)
                                    - (IF f[t] = a THEN 1 ELSE 0)
    BY <2>1, FiniteThreads, PointersMove
  <2> QED
    BY <2>1, <2>2
<1> QED
  BY <1>1 DEF TransfersOf

\* What dropping a reference does to each node.
LEMMA UnrefEffect ==
  ASSUME NEW nodes \in [AdIds -> AdNode], NEW a \in AdIds, NEW b \in AdIds
  PROVE  /\ b # a => ActiveDownload_unref(nodes, a)[b] = nodes[b]
         /\ nodes[a].refcount = 1 => ActiveDownload_unref(nodes, a)[a] = FreeAd
         /\ nodes[a].refcount # 1
              => ActiveDownload_unref(nodes, a)[a]
                   = [nodes[a] EXCEPT !.refcount = nodes[a].refcount - 1]
BY DEF ActiveDownload_unref

-----------------------------------------------------------------------------
(* What a step does to the list, and to the threads' part in it: the seven *)
(* kinds of steps below are all there are.                                 *)

SameOwner(t)    == \A s \in Segs : Owns(t, s)' <=> Owns(t, s)
SameTransfer(t) == /\ pc'[t] = "transfer" <=> pc[t] = "transfer"
                   /\ pc[t] = "transfer" => dl_offset'[t] = dl_offset[t]
                   /\ ts'[t].ad = ts[t].ad
SameWaiter(r)   == /\ pc'[r] = "wait" <=> pc[r] = "wait"
                   /\ pc[r] = "wait" => dl_offset'[r] = dl_offset[r]
                   /\ orig_ad'[r] = orig_ad[r]

SameThread(t) == SameOwner(t) /\ SameTransfer(t)
SameThreads == \A t \in Threads : SameThread(t)
SameWaiters == \A r \in Readers : SameWaiter(r)

\* Nothing changes for the list.
Keeps == UNCHANGED <<active_dls, ad>> /\ SameThreads /\ SameWaiters

\* w becomes the owner of what r owned.
Passes(r, w) == /\ UNCHANGED <<active_dls, ad>> /\ SameWaiters
                /\ \A t \in Threads : SameTransfer(t)
                /\ \A t \in Threads \ {r, w} : SameOwner(t)
                /\ \A s \in Segs : /\ ~Owns(w, s) /\ ~Owns(r, s)'
                                   /\ Owns(w, s)' <=> Owns(r, s)

\* r puts a in the list for segment s, and owns s.
Adds(r, a, s) == /\ ActiveDownload_find(s) = {} /\ ActiveDownload_add(a, s)
                 /\ SameWaiters
                 /\ \A t \in Threads : SameTransfer(t)
                 /\ \A t \in Threads \ {r} : SameOwner(t)
                 /\ \A u \in Segs : ~Owns(r, u) /\ (Owns(r, u)' <=> u = s)

\* r waits on a.
Joins(r, a) == /\ pc[r] # "wait" /\ pc'[r] = "wait"
               /\ dl_offset'[r] = dl_offset[r]
               /\ a \in ActiveDownload_find(dl_offset[r])
               /\ ad' = ActiveDownload_ref(ad, a)
               /\ orig_ad' = [orig_ad EXCEPT ![r] = a]
               /\ UNCHANGED active_dls
               /\ SameThreads
               /\ \A x \in Readers \ {r} : SameWaiter(x)

\* r stops waiting.
Leaves(r) == /\ pc[r] = "wait" /\ pc'[r] # "wait"
             /\ ad' = ActiveDownload_unref(ad, orig_ad[r])
             /\ orig_ad' = [orig_ad EXCEPT ![r] = None]
             /\ UNCHANGED active_dls
             /\ SameThreads
             /\ \A x \in Readers \ {r} : SameWaiter(x)

\* t untracks the segment it owns.
Removes(t, s) == /\ s = dl_offset[t] /\ ActiveDownload_remove(s)
                 /\ \A u \in Segs : ~Owns(t, u)' /\ (Owns(t, u) <=> u = s)
                 /\ SameWaiters
                 /\ \A x \in Threads : SameTransfer(x)
                 /\ \A x \in Threads \ {t} : SameOwner(x)

\* t begins a transfer for node a.
Starts(t, a) == /\ pc[t] = "attempt" /\ pc'[t] = "transfer"
                /\ dl_offset'[t] = dl_offset[t]
                /\ a \in ActiveDownload_find(dl_offset[t])
                /\ ad' = ActiveDownload_ref([ad EXCEPT ![a].ts = t], a)
                /\ UNCHANGED active_dls
                /\ ts'[t].ad = a
                /\ SameOwner(t) /\ SameWaiters
                /\ \A x \in Threads \ {t} : SameThread(x)

\* t ends its transfer.
Finishes(t) == /\ pc[t] = "transfer" /\ pc'[t] # "transfer"
               /\ Link_download_finish_transfer(t)
               /\ UNCHANGED active_dls
               /\ ts'[t].ad = None
               /\ SameOwner(t) /\ SameWaiters
               /\ \A x \in Threads \ {t} : SameThread(x)

ListStep ==
  \/ Keeps
  \/ \E r \in Readers, w \in Workers : Passes(r, w)
  \/ \E r \in Readers, a \in AdIds, s \in Segs : Adds(r, a, s)
  \/ \E r \in Readers, a \in AdIds : Joins(r, a)
  \/ \E r \in Readers : Leaves(r)
  \/ \E t \in Threads, s \in Segs : Removes(t, s)
  \/ \E t \in Threads, a \in AdIds : Starts(t, a)
  \/ \E t \in Threads : Finishes(t)

\* The labels at which a thread owns no segment, and has no pointer to a node.
AsidePcs == {"closed", "ready", "lockW", "relockW", "findAd", "trySlot",
             "addBg", "syncDl", "peekNext", "tryNext", "addNext", "closing",
             "freeing", "idle", "post"}

\* A thread that has not moved is where it was.
LEMMA Unmoved ==
  ASSUME NEW t, pc'[t] = pc[t], dl_offset'[t] = dl_offset[t],
         ts'[t].ad = ts[t].ad
  PROVE  SameThread(t)
BY DEF SameThread, SameOwner, SameTransfer, Owns, Downloading

\* A thread that stays aside neither comes to own a segment nor loses one.
LEMMA StaysAside ==
  ASSUME NEW t, pc[t] \in AsidePcs, pc'[t] \in AsidePcs, ts'[t].ad = ts[t].ad
  PROVE  SameThread(t)
BY DEF SameThread, SameOwner, SameTransfer, Owns, Downloading, AsidePcs

\* Who is aside owns nothing.
LEMMA AsideOwnsNone ==
  ASSUME NEW t
  PROVE  /\ pc[t] \in AsidePcs => \A s : ~Owns(t, s)
         /\ pc'[t] \in AsidePcs => \A s : ~Owns(t, s)'
BY DEF Owns, Downloading, AsidePcs

\* A reader that moves aside leaves the list alone.
LEMMA ReaderKeeps ==
  ASSUME PcOK, LocalsOK, NEW r \in Readers, NEW label \in AsidePcs,
         pc[r] \in AsidePcs, Goto(r, label),
         \A t \in Threads \ {r} : dl_offset'[t] = dl_offset[t],
         UNCHANGED <<active_dls, ad, orig_ad, ts>>
  PROVE  Keeps
<1>1. \A x \in Threads : pc'[x] = IF x = r THEN label ELSE pc[x]
  BY DEF PcOK, Goto, Threads
<1>2. \A x \in Threads : SameThread(x)
  BY <1>1, Unmoved, StaysAside DEF Threads
<1>3. \A x \in Readers : SameWaiter(x)
  BY <1>1 DEF SameWaiter, Threads, AsidePcs
<1> QED
  BY <1>2, <1>3 DEF Keeps, SameThreads, SameWaiters

\* When the Cache is made, and from the moment the last closer has every slot,
\* nobody is left in it.
LEMMA QuietAt ==
  ASSUME LockInv, Counted,
         \/ cache_opened = 0 /\ cf_lock = None
         \/ \E r \in Readers : pc[r] = "closing" /\ slots[r] = NumBgWorkers
         \/ \E r \in Readers : pc[r] = "freeing"
  PROVE  Quiet
<1>1. CASE cache_opened = 0 /\ cf_lock = None
  BY <1>1, QuietWhen DEF LockInv, Counted, HandlesCounted, SlotsCounted
<1>2. CASE \E r \in Readers : \/ pc[r] = "closing" /\ slots[r] = NumBgWorkers
                              \/ pc[r] = "freeing"
  <2>1. PICK r \in Readers : /\ pc[r] \in {"closing", "freeing"}
                             /\ slots[r] = NumBgWorkers
    BY <1>2 DEF Counted, SlotsCounted
  <2>2. cf_lock = r /\ cache_opened = 0 /\ cf_lock # None
    BY <2>1, CacheAssumption
    DEF Counted, HandlesCounted, CacheAssumption, Threads
  <2>3. bgt_sem + NumBgWorkers + Holding + Busy = NumBgWorkers
    BY <2>1, <2>2 DEF Counted, SlotsCounted, Collected
  <2>4. Busy = 0
    BY <2>3, CountsAreNat, FirstValues DEF Counted, SlotsCounted
  <2> QED
    BY <2>2, <2>4, QuietWhen DEF LockInv, Counted, HandlesCounted
<1> QED
  BY <1>1, <1>2

\* A reader's own steps are of one of the kinds.
LEMMA ReaderListStep ==
  ASSUME LockInv, NEW r \in Readers, ReadStep(r) \/ StartRead(r)
  PROVE  ListStep
<1> /\ PcOK /\ LocalsOK /\ ListOK /\ NetOK /\ NextInRange
    /\ r \in Threads /\ None \notin AdIds
  BY CacheAssumption DEF LockInv, TypeOK, Threads, CacheAssumption
<1>1. ASSUME Keeps PROVE ListStep
  BY <1>1 DEF ListStep
\* A reader goes from one label aside to another.
<1>2. CASE \/ StartRead(r) \/ ReadCached(r) \/ MissCached(r) \/ NoDownload(r)
           \/ TrySlot(r) \/ SyncRetry(r) \/ PeekNext(r) \/ TryNextSlot(r)
  BY <1>1, <1>2, ReaderKeeps
  DEF AsidePcs, StartRead, ReadCached, MissCached, NoDownload, TrySlot,
      SyncRetry, PeekNext, TryNextSlot, Return, list, locals, net, LocalsOK
<1>3. CASE SleepAgain(r)
  <2>1. \A t \in Threads : SameThread(t)
    BY <1>3, Unmoved DEF SleepAgain, locals, net
  <2>2. \A x \in Readers : SameWaiter(x)
    BY <1>3 DEF SleepAgain, locals, SameWaiter
  <2> QED
    BY <1>1, <1>3, <2>1, <2>2
    DEF SleepAgain, Keeps, SameThreads, SameWaiters
<1>4. CASE JoinDownload(r)
  <2>1. PICK a \in ActiveDownload_find(dl_offset[r]) :
          \/ /\ Goto(r, "peekNext") /\ UNCHANGED <<ad, waiters, asleep, orig_ad>>
          \/ /\ ad' = ActiveDownload_ref(ad, a) /\ Goto(r, "wait")
             /\ orig_ad' = [orig_ad EXCEPT ![r] = a]
    BY <1>4 DEF JoinDownload
  <2>2. CASE Goto(r, "peekNext") /\ UNCHANGED <<ad, waiters, asleep, orig_ad>>
    BY <1>1, <1>4, <2>2, ReaderKeeps DEF AsidePcs, JoinDownload, net
  <2>3. CASE /\ ad' = ActiveDownload_ref(ad, a) /\ Goto(r, "wait")
             /\ orig_ad' = [orig_ad EXCEPT ![r] = a]
    <3>1. /\ pc[r] = "findAd" /\ UNCHANGED <<ts, dl_offset, active_dls>>
          /\ a \in AdIds
      BY <1>4, FindType DEF JoinDownload, net
    <3>2. /\ \A x \in Threads : pc'[x] = IF x = r THEN "wait" ELSE pc[x]
          /\ orig_ad'[r] = a
          /\ \A x \in Readers \ {r} : orig_ad'[x] = orig_ad[x]
      BY <2>3, DownloadAt DEF LocalsOK
    <3>3. SameThread(r)
      BY <3>1, <3>2
      DEF SameThread, SameOwner, SameTransfer, Owns, Downloading
    <3>4. \A x \in Threads \ {r} : SameThread(x)
      BY <3>1, <3>2, Unmoved
    <3>5. \A x \in Readers \ {r} : SameWaiter(x)
      BY <3>1, <3>2 DEF SameWaiter, Threads
    <3>6. Joins(r, a)
      BY <2>1, <2>3, <3>1, <3>2, <3>3, <3>4, <3>5 DEF Joins, SameThreads
    <3> QED
      BY <3>1, <3>6 DEF ListStep
  <2> QED
    BY <2>1, <2>2, <2>3
<1>5. CASE EarlyReturn(r) \/ DownloadEnded(r)
  <2>1. /\ pc[r] = "wait" /\ LeaveWait(r) /\ UNCHANGED <<ts, active_dls>>
        /\ \A t \in Threads \ {r} : dl_offset'[t] = dl_offset[t]
    BY <1>5
    DEF EarlyReturn, DownloadEnded, Awake, net, Return, LocalsOK
  <2>2. PICK label \in {"peekNext", "ready", "relockW"} :
          \A x \in Threads : pc'[x] = IF x = r THEN label ELSE pc[x]
    BY <1>5, DownloadAt DEF EarlyReturn, DownloadEnded, Return
  <2>3. orig_ad' = [orig_ad EXCEPT ![r] = None]
    BY <2>1 DEF LeaveWait
  <2>4. SameThread(r)
    BY <2>1, <2>2 DEF SameThread, SameOwner, SameTransfer, Owns, Downloading
  <2>5. \A x \in Threads \ {r} : SameThread(x)
    BY <2>1, <2>2, Unmoved
  <2>6. \A x \in Readers \ {r} : SameWaiter(x)
    BY <2>1, <2>2, <2>3 DEF SameWaiter, Threads, LocalsOK
  <2>7. Leaves(r)
    BY <2>1, <2>2, <2>4, <2>5, <2>6 DEF Leaves, SameThreads, LeaveWait
  <2> QED
    BY <2>7 DEF ListStep
\* A download is put in the list.
<1>6. ASSUME NEW a \in AdIds, NEW s \in Segs, NEW label, Goto(r, label),
             pc[r] \in AsidePcs, \A u \in Segs : Owns(r, u)' <=> u = s,
             label \notin {"wait", "transfer"},
             ActiveDownload_find(s) = {}, ActiveDownload_add(a, s),
             UNCHANGED <<orig_ad, ts, dl_offset>>
      PROVE  ListStep
  <2>1. \A x \in Threads : pc'[x] = IF x = r THEN label ELSE pc[x]
    BY <1>6, DownloadAt
  <2>2. \A x \in Threads \ {r} : SameThread(x)
    BY <1>6, <2>1, Unmoved
  <2>3. /\ SameTransfer(r) /\ \A x \in Readers : SameWaiter(x)
        /\ \A u \in Segs : ~Owns(r, u)
    BY <1>6, <2>1, AsideOwnsNone DEF SameTransfer, SameWaiter, AsidePcs, Threads
  <2>4. Adds(r, a, s)
    BY <1>6, <2>2, <2>3 DEF Adds, SameThread, SameWaiters
  <2> QED
    BY <2>4 DEF ListStep
<1>7. CASE AddBg(r)
  <2>1. CASE ActiveDownload_find(dl_offset[r]) = {}
    <3>1. /\ pc[r] = "addBg" /\ Goto(r, "launch") /\ dl_offset[r] \in Segs
          /\ UNCHANGED <<orig_ad, ts, dl_offset>>
          /\ \E a \in AdIds : ActiveDownload_add(a, dl_offset[r])
      BY <1>7, <2>1 DEF AddBg, locals, net, LocalsOK
    <3>2. \A u \in Segs : Owns(r, u)' <=> u = dl_offset[r]
      BY <3>1, DownloadAt DEF Owns, Downloading
    <3> QED
      BY <2>1, <3>1, <3>2, <1>6 DEF AsidePcs
  <2>2. CASE ActiveDownload_find(dl_offset[r]) # {}
    BY <1>1, <1>7, <2>2, ReaderKeeps DEF AddBg, AsidePcs, locals, net
  <2> QED
    BY <2>1, <2>2
<1>8. CASE SyncStart(r)
  <2>1. /\ pc[r] = "syncDl" /\ Goto(r, "attempt") /\ dl_offset[r] \in Segs
        /\ UNCHANGED <<orig_ad, ts, dl_offset>>
        /\ ActiveDownload_find(dl_offset[r]) = {}
        /\ \E a \in AdIds : ActiveDownload_add(a, dl_offset[r])
    BY <1>8 DEF SyncStart, locals, net, LocalsOK
  <2>2. \A u \in Segs : Owns(r, u)' <=> u = dl_offset[r]
    BY <2>1, DownloadAt DEF Owns, Downloading
  <2> QED
    BY <2>1, <2>2, <1>6 DEF AsidePcs
<1>9. CASE AddNext(r)
  <2>1. CASE /\ Missing(dl_offset[r] + 1)
             /\ ActiveDownload_find(dl_offset[r] + 1) = {}
    <3>1. /\ pc[r] = "addNext" /\ Goto(r, "launchNext")
          /\ UNCHANGED <<orig_ad, ts, dl_offset>> /\ dl_offset[r] + 1 \in Segs
          /\ \E a \in AdIds : ActiveDownload_add(a, dl_offset[r] + 1)
      BY <1>9, <2>1 DEF AddNext, net, Missing
    <3>2. \A u \in Segs : Owns(r, u)' <=> u = dl_offset[r] + 1
      BY <3>1, DownloadAt DEF Owns, Downloading
    <3> QED
      BY <2>1, <3>1, <3>2, <1>6 DEF AsidePcs
  <2>2. CASE ~ /\ Missing(dl_offset[r] + 1)
               /\ ActiveDownload_find(dl_offset[r] + 1) = {}
    BY <1>1, <1>9, <2>2, ReaderKeeps DEF AddNext, AsidePcs, Return, net, LocalsOK
  <2> QED
    BY <2>1, <2>2
\* A background thread is created.
<1>10. ASSUME NEW w \in Workers, NEW s \in Segs,
              NEW label \in {"lockW", "ready"},
              Cache_bgdl_launcher(r, w, label),
              \A u \in Segs : Owns(r, u) <=> u = s,
              pc[r] \in {"launch", "launchNext"},
              dl_offset'[w] = s,
              \A t \in Threads \ {r, w} : dl_offset'[t] = dl_offset[t],
              UNCHANGED <<orig_ad, ts, active_dls, ad>>
       PROVE  ListStep
  <2>1. /\ \A x \in Readers : pc'[x] = IF x = r THEN label ELSE pc[x]
        /\ \A x \in Workers : pc'[x] = IF x = w THEN "attempt" ELSE pc[x]
        /\ pc[w] = "idle" /\ r # w /\ w \in Threads /\ w \notin Readers
    <3>1. /\ \A x \in Readers : pc'[x] = IF x = r THEN label ELSE pc[x]
          /\ \A x \in Workers : pc'[x] = IF x = w THEN "attempt" ELSE pc[x]
      BY <1>10, LauncherAt
    <3>2. pc[w] = "idle"
      BY <1>10 DEF Cache_bgdl_launcher
    <3> QED
      BY <3>1, <3>2, CacheAssumption DEF Threads, CacheAssumption
  <2>2. \A x \in Threads \ {r, w} : SameThread(x)
    BY <1>10, <2>1, Unmoved DEF Threads
  <2>3. \A u \in Segs : ~Owns(w, u) /\ ~Owns(r, u)' /\ (Owns(w, u)' <=> u = s)
    BY <1>10, <2>1 DEF Owns, Downloading
  <2>4. SameTransfer(r) /\ SameTransfer(w) /\ \A x \in Readers : SameWaiter(x)
    BY <1>10, <2>1 DEF SameTransfer, SameWaiter, Threads
  <2>5. Passes(r, w)
    BY <1>10, <2>2, <2>3, <2>4 DEF Passes, SameThread, SameWaiters
  <2> QED
    BY <2>5 DEF ListStep
<1>11. CASE Launch(r)
  <2>1. PICK w \in Workers :
          /\ Cache_bgdl_launcher(r, w, "lockW")
          /\ dl_offset' = [dl_offset EXCEPT ![w] = dl_offset[r]]
    BY <1>11 DEF Launch
  <2>2. /\ pc[r] = "launch" /\ UNCHANGED <<orig_ad, ts, active_dls, ad>>
        /\ dl_offset[r] \in Segs /\ w \in Threads
    BY <1>11 DEF Launch, net, LocalsOK, Threads
  <2>3. \A u \in Segs : Owns(r, u) <=> u = dl_offset[r]
    BY <2>2 DEF Owns, Downloading
  <2>4. /\ dl_offset'[w] = dl_offset[r]
        /\ \A t \in Threads \ {r, w} : dl_offset'[t] = dl_offset[t]
    BY <2>1, <2>2 DEF LocalsOK
  <2> QED
    BY <2>1, <2>2, <2>3, <2>4, <1>10
<1>12. CASE LaunchNext(r)
  <2>1. PICK w \in Workers :
          /\ Cache_bgdl_launcher(r, w, "ready")
          /\ dl_offset' = [dl_offset EXCEPT ![w] = dl_offset[r] + 1, ![r] = 0]
    BY <1>12 DEF LaunchNext
  <2>2. /\ pc[r] = "launchNext" /\ UNCHANGED <<orig_ad, ts, active_dls, ad>>
        /\ dl_offset[r] + 1 \in Segs /\ w \in Threads /\ w # r
    BY <1>12, CacheAssumption
    DEF LaunchNext, net, NextInRange, Threads, CacheAssumption
  <2>3. \A u \in Segs : Owns(r, u) <=> u = dl_offset[r] + 1
    BY <2>2 DEF Owns, Downloading
  <2>4. /\ dl_offset'[w] = dl_offset[r] + 1
        /\ \A t \in Threads \ {r, w} : dl_offset'[t] = dl_offset[t]
    BY <2>1, <2>2 DEF LocalsOK
  <2> QED
    BY <2>1, <2>2, <2>3, <2>4, <1>10
\* A reader untracks its download.
<1>13. CASE SyncFailed(r) \/ SyncUntrack(r)
  <2>1. /\ pc[r] \in {"store", "untrack"}
        /\ ActiveDownload_remove(dl_offset[r]) /\ UNCHANGED <<orig_ad, ts>>
        /\ \A t \in Threads \ {r} : dl_offset'[t] = dl_offset[t]
        /\ dl_offset[r] \in Segs
    BY <1>13 DEF SyncFailed, SyncUntrack, Return, LocalsOK
  <2>2. PICK label \in {"ready", "peekNext"} : Goto(r, label)
    BY <1>13 DEF SyncFailed, SyncUntrack, Return
  <2>3. \A x \in Threads : pc'[x] = IF x = r THEN label ELSE pc[x]
    BY <2>2, DownloadAt
  <2>4. \A x \in Threads \ {r} : SameThread(x)
    BY <2>1, <2>3, Unmoved
  <2>5. SameTransfer(r) /\ \A x \in Readers : SameWaiter(x)
    BY <2>1, <2>3 DEF SameTransfer, SameWaiter, Threads
  <2>6. \A u \in Segs : ~Owns(r, u)' /\ (Owns(r, u) <=> u = dl_offset[r])
    BY <2>1, <2>3 DEF Owns, Downloading
  <2>7. Removes(r, dl_offset[r])
    BY <2>1, <2>4, <2>5, <2>6 DEF Removes, SameThread, SameWaiters
  <2> QED
    BY <2>1, <2>7 DEF ListStep
<1> QED
  BY <1>2, <1>3, <1>4, <1>5, <1>7, <1>8, <1>9, <1>11, <1>12, <1>13
  DEF ReadStep

\* So are the steps of a download and of a background thread.
LEMMA DownloadListStep ==
  ASSUME LockInv, NEW t \in Threads,
         Download(t) \/ (t \in Workers /\ Bgdl(t))
  PROVE  ListStep
<1> /\ PcOK /\ LocalsOK /\ ListOK /\ NetOK
    /\ None \notin AdIds /\ Workers \cap Readers = {}
    /\ Workers \subseteq Threads
  BY CacheAssumption DEF LockInv, TypeOK, Threads, CacheAssumption
\* The thread moves, and its segment stays.
<1>1. ASSUME NEW label, Goto(t, label), pc[t] \in DownloadPcs \cup {"post"},
             label \in DownloadPcs \cup {"post", "idle"},
             UNCHANGED <<dl_offset, orig_ad>>,
             \A x \in Threads \ {t} : ts'[x] = ts[x]
      PROVE  /\ pc'[t] = label /\ \A x \in Threads \ {t} : SameThread(x)
             /\ SameWaiters
             /\ label \in DownloadPcs /\ pc[t] \in DownloadPcs => SameOwner(t)
  <2>1. \A x \in Threads : pc'[x] = IF x = t THEN label ELSE pc[x]
    BY <1>1, DownloadAt
  <2>2. \A x \in Threads \ {t} : SameThread(x)
    BY <1>1, <2>1, Unmoved
  <2>3. SameWaiters
    BY <1>1, <2>1 DEF SameWaiters, SameWaiter, DownloadPcs, Threads
  <2>4. label \in DownloadPcs /\ pc[t] \in DownloadPcs => SameOwner(t)
    BY <1>1, <2>1 DEF SameOwner, Owns, Downloading, DownloadPcs
  <2> QED
    BY <2>1, <2>2, <2>3, <2>4
<1>2. ASSUME NEW reply \in Replies, Attempt(t, reply) PROVE ListStep
  <2>1. PICK a \in ActiveDownload_find(dl_offset[t]) :
          /\ ad' = ActiveDownload_ref([ad EXCEPT ![a].ts = t], a)
          /\ ts' = [ts EXCEPT ![t] = [ad |-> a, size |-> 0, reply |-> reply]]
    BY <1>2 DEF Attempt
  <2>2. /\ pc[t] = "attempt" /\ Goto(t, "transfer")
        /\ UNCHANGED <<dl_offset, orig_ad, active_dls>> /\ a \in AdIds
    BY <1>2, FindType DEF Attempt, locals
  <2>3. ts'[t].ad = a /\ \A x \in Threads \ {t} : ts'[x] = ts[x]
    BY <2>1 DEF NetOK
  <2>4. Starts(t, a)
    BY <1>1, <2>1, <2>2, <2>3 DEF Starts, DownloadPcs
  <2> QED
    BY <2>2, <2>4 DEF ListStep
<1>3. CASE ReceiveChunk(t)
  <2>1. \A x \in Threads : ts'[x].ad = ts[x].ad
    BY <1>3 DEF ReceiveChunk, NetOK, Transfer
  <2>2. \A x \in Threads : SameThread(x)
    BY <1>3, <2>1, Unmoved DEF ReceiveChunk, locals
  <2>3. \A x \in Readers : SameWaiter(x)
    BY <1>3 DEF ReceiveChunk, locals, SameWaiter
  <2> QED
    BY <1>3, <2>2, <2>3
    DEF ReceiveChunk, ListStep, Keeps, SameThreads, SameWaiters
<1>4. CASE TransferOk(t) \/ TransferGone(t) \/ TransferRetry(t)
  <2>1. /\ pc[t] = "transfer" /\ Link_download_finish_transfer(t)
        /\ UNCHANGED <<dl_offset, orig_ad, active_dls>>
    BY <1>4 DEF TransferOk, TransferGone, TransferRetry, locals
  <2>2. PICK label \in {"store", "untrack", "attempt"} : Goto(t, label)
    BY <1>4 DEF TransferOk, TransferGone, TransferRetry
  <2>3. ts'[t].ad = None /\ \A x \in Threads \ {t} : ts'[x] = ts[x]
    BY <2>1 DEF Link_download_finish_transfer, NetOK, NoTransfer
  <2>4. Finishes(t)
    BY <1>1, <2>1, <2>2, <2>3 DEF Finishes, DownloadPcs
  <2> QED
    BY <2>4 DEF ListStep
<1>5. CASE Store(t)
  <2>1. /\ pc[t] = "store" /\ Goto(t, "untrack")
        /\ UNCHANGED <<dl_offset, orig_ad, active_dls, ad, ts>>
    BY <1>5 DEF Store, list, locals, net
  <2>2. SameThread(t)
    BY <1>1, <2>1 DEF SameThread, SameTransfer, DownloadPcs
  <2>3. Keeps
    BY <1>1, <2>1, <2>2 DEF Keeps, SameThreads, DownloadPcs
  <2> QED
    BY <2>3 DEF ListStep
<1>6. CASE t \in Workers /\ BgUntrack(t)
  <2>1. /\ pc[t] = "untrack" /\ Goto(t, "post")
        /\ UNCHANGED <<dl_offset, orig_ad, ts>>
        /\ ActiveDownload_remove(dl_offset[t]) /\ dl_offset[t] \in Segs
    BY <1>6 DEF BgUntrack, locals, LocalsOK
  <2>2. /\ pc'[t] = "post" /\ \A x \in Threads \ {t} : SameThread(x)
        /\ SameWaiters
    BY <1>1, <2>1 DEF DownloadPcs
  <2>3. \A u \in Segs : ~Owns(t, u)' /\ (Owns(t, u) <=> u = dl_offset[t])
    BY <2>1, <2>2 DEF Owns, Downloading
  <2>4. Removes(t, dl_offset[t])
    BY <2>1, <2>2, <2>3 DEF Removes, SameThread, SameTransfer
  <2> QED
    BY <2>1, <2>4 DEF ListStep
<1>7. CASE t \in Workers /\ BgPost(t)
  <2>1. /\ pc[t] = "post" /\ Goto(t, "idle")
        /\ \A x \in Threads \ {t} : dl_offset'[x] = dl_offset[x]
        /\ UNCHANGED <<orig_ad, active_dls, ad, ts>>
    BY <1>7 DEF BgPost, list, net, LocalsOK
  <2>2. \A x \in Threads : pc'[x] = IF x = t THEN "idle" ELSE pc[x]
    BY <2>1, DownloadAt
  <2>3. \A x \in Threads : SameThread(x)
    BY <2>1, <2>2, Unmoved, StaysAside DEF AsidePcs
  <2>4. \A x \in Readers : SameWaiter(x)
    BY <1>7, <2>1, <2>2 DEF SameWaiter, Threads
  <2> QED
    BY <2>1, <2>3, <2>4 DEF ListStep, Keeps, SameThreads, SameWaiters
<1> QED
  BY <1>2, <1>3, <1>4, <1>5, <1>6, <1>7 DEF Download, Bgdl

\* There is no other kind of step, provided the list is empty when the Cache is
\* made and when the last closer frees it.
LEMMA EveryListStep ==
  ASSUME LockInv, Counted, Quiet => active_dls = {}, [Next]_vars
  PROVE  ListStep
<1> /\ PcOK /\ LocalsOK /\ ListOK /\ NetOK /\ Readers \subseteq Threads
    /\ Workers \subseteq Threads
  BY DEF LockInv, TypeOK, Threads
<1>1. ASSUME NEW r \in Readers, Cache_open(r) \/ Cache_close(r)
                                \/ SaveAndShutDown(r) \/ FreeCache(r)
      PROVE  ListStep
  <2>1. UNCHANGED <<active_dls, ad>>
    <3>1. CASE Cache_open(r)
      BY <1>1, <3>1, QuietAt DEF Cache_open
    <3>2. CASE SaveAndShutDown(r)
      <4>1. active_dls = {}
        BY <3>2, QuietAt DEF SaveAndShutDown
      <4> QED
        BY <3>2, <4>1 DEF SaveAndShutDown, ListOK
    <3> QED
      BY <1>1, <3>1, <3>2 DEF Cache_close, FreeCache, list
  <2>2. PICK label \in {"ready", "closed", "closing", "freeing"} :
          pc[r] \in AsidePcs /\ Goto(r, label)
    BY <1>1 DEF AsidePcs, Cache_open, Cache_close, SaveAndShutDown, FreeCache
  <2>3. UNCHANGED <<orig_ad, ts, dl_offset>>
    BY <1>1
    DEF Cache_open, Cache_close, SaveAndShutDown, FreeCache, locals, net
  <2>4. Keeps
    BY <2>1, <2>2, <2>3, ReaderKeeps DEF AsidePcs
  <2> QED
    BY <2>4 DEF ListStep
<1>2. ASSUME UNCHANGED <<pc, dl_offset, ts, orig_ad, active_dls, ad>>
      PROVE  ListStep
  <2>1. \A t \in Threads : SameThread(t)
    BY <1>2, Unmoved
  <2>2. \A r \in Readers : SameWaiter(r)
    BY <1>2 DEF SameWaiter
  <2> QED
    BY <1>2, <2>1, <2>2 DEF ListStep, Keeps, SameThreads, SameWaiters
<1>3. ASSUME NEW r \in Readers, CollectSlot(r) PROVE ListStep
  BY <1>2, <1>3 DEF CollectSlot, list, locals, net
<1>4. CASE UNCHANGED vars
  BY <1>2, <1>4 DEF vars
<1> QED
  BY <1>1, <1>3, <1>4, ReaderListStep, DownloadListStep
  DEF Next, Reader, CloseStep

-----------------------------------------------------------------------------
(* The invariant of the list. *)

ListedInRange == \A a \in active_dls : ad[a].offset \in Segs

\* The node a transfer publishes itself in is listed for the thread's segment.
TransferListed ==
  \A t \in Threads :
    pc[t] = "transfer" => ts[t].ad \in ActiveDownload_find(dl_offset[t])

\* The node a reader waits on is listed for its segment, or marked unlinked.
WaitListed ==
  \A r \in Readers :
    pc[r] = "wait" => \/ ad[orig_ad[r]].unlinked
                      \/ orig_ad[r] \in ActiveDownload_find(dl_offset[r])

DownloadInv == /\ RefsHeld /\ ListedInRange /\ SingleDownload
               /\ TransferListed /\ WaitListed /\ NoDanglingTransfer

\* Typed /\ DownloadInv is what the lemmas below start from.
Typed == ListOK /\ LocalsOK /\ NetOK /\ PcOK

\* A listed node that keeps its segment is found as before.
LEMMA FindsKept ==
  ASSUME ListOK, UNCHANGED active_dls,
         \A b \in AdIds : b \in active_dls => ad'[b].offset = ad[b].offset
  PROVE  /\ \A s : ActiveDownload_find(s)' = ActiveDownload_find(s)
         /\ ListedInRange => ListedInRange'
BY DEF ListOK, ActiveDownload_find, ListedInRange

\* No owner comes or goes: SingleDownload goes with what is found.
LEMMA OwnersKept ==
  ASSUME SingleDownload, \A t \in Threads : SameOwner(t),
         \A s \in Segs : ActiveDownload_find(s)' = ActiveDownload_find(s)
  PROVE  SingleDownload'
BY DEF SingleDownload, SameOwner

\* The references that nobody moves are as many as before.
LEMMA WaitsKept ==
  ASSUME SameWaiters, NEW a PROVE WaitsOn(a)' = WaitsOn(a)
<1>1. {x \in Readers : orig_ad'[x] = a} = {x \in Readers : orig_ad[x] = a}
  BY DEF SameWaiters, SameWaiter
<1> QED
  BY <1>1, Zenon DEF WaitsOn, PointersTo

\* The same for transfers.
LEMMA TransfersKept ==
  ASSUME \A t \in Threads : SameTransfer(t), NEW a
  PROVE  TransfersOf(a)' = TransfersOf(a)
<1>1. ASSUME NEW f, NEW g,
             f = [t \in Threads |-> ts[t].ad], g = [t \in Threads |-> ts'[t].ad]
      PROVE  PointersTo(a, g, Threads) = PointersTo(a, f, Threads)
  <2>1. {x \in Threads : g[x] = a} = {x \in Threads : f[x] = a}
    BY <1>1 DEF SameTransfer
  <2> QED
    BY <2>1, Zenon DEF PointersTo
<1> QED
  BY <1>1 DEF TransfersOf

\* Nothing happens to the nodes: only the owners may change.
LEMMA NodesKept ==
  ASSUME Typed, DownloadInv, UNCHANGED <<active_dls, ad>>, SameWaiters,
         \A t \in Threads : SameTransfer(t)
  PROVE  /\ RefsHeld' /\ ListedInRange' /\ TransferListed' /\ WaitListed'
         /\ NoDanglingTransfer'
         /\ \A s : ActiveDownload_find(s)' = ActiveDownload_find(s)
<1>1. /\ ListedInRange'
      /\ \A s : ActiveDownload_find(s)' = ActiveDownload_find(s)
  BY FindsKept DEF Typed, DownloadInv
<1>2. RefsSum'
  BY WaitsKept, TransfersKept DEF RefsSum, Listed, DownloadInv, RefsHeld
<1>3. NodesFreed' /\ PointersHeld'
  BY DEF NodesFreed, PointersHeld, DownloadInv, RefsHeld, SameWaiters,
      SameWaiter, SameTransfer
<1>4. TransferListed'
  BY <1>1 DEF TransferListed, DownloadInv, SameTransfer
<1>5. WaitListed'
  BY <1>1 DEF WaitListed, DownloadInv, SameWaiters, SameWaiter
<1>6. NoDanglingTransfer'
  BY DEF NoDanglingTransfer, DownloadInv, SameTransfer, Typed, ListOK, AdNode
<1> QED
  BY <1>1, <1>2, <1>3, <1>4, <1>5, <1>6 DEF RefsHeld

\* A step of the first two kinds keeps the invariant.
LEMMA KeepsInv == ASSUME Typed, DownloadInv, Keeps PROVE DownloadInv'
BY NodesKept, OwnersKept DEF DownloadInv, Keeps, SameThreads, SameThread

\* A download that changes hands stays one.
LEMMA PassesInv ==
  ASSUME Typed, DownloadInv, NEW r \in Readers, NEW w \in Workers, Passes(r, w)
  PROVE  DownloadInv'
<1>1. SingleDownload'
  <2> r \in Threads /\ w \in Threads
    BY DEF Threads
  <2>1. \A s \in Segs : ActiveDownload_find(s)' = ActiveDownload_find(s)
    BY NodesKept DEF Passes
  <2>2. \A s \in Segs : \A t, u \in Threads : Owns(t, s)' /\ Owns(u, s)' => t = u
    BY DEF Passes, SameOwner, DownloadInv, SingleDownload
  <2>3. \A s \in Segs : (\E t \in Threads : Owns(t, s)')
                          <=> \E t \in Threads : Owns(t, s)
    BY DEF Passes, SameOwner
  <2> QED
    BY <2>1, <2>2, <2>3 DEF DownloadInv, SingleDownload
<1> QED
  BY <1>1, NodesKept DEF DownloadInv, Passes

\* Nothing points to a node that is free.
LEMMA FreeUnreferenced ==
  ASSUME DownloadInv, NEW a \in AdIds, ad[a].refcount = 0
  PROVE  /\ ad[a] = FreeAd /\ a \notin active_dls
         /\ \A r \in Readers : orig_ad[r] # a
         /\ \A t \in Threads : ts[t].ad # a
<1>1. Listed(a) + WaitsOn(a) + TransfersOf(a) = 0
  BY DEF DownloadInv, RefsHeld, RefsSum
<1>2. Listed(a) = 0 /\ WaitsOn(a) = 0 /\ TransfersOf(a) = 0
  BY <1>1, RefsAreNat
<1> QED
  BY <1>2, RefsAreNat DEF Listed, DownloadInv, RefsHeld, NodesFreed

\* A node that is put in the list was free.
LEMMA AddsInv ==
  ASSUME Typed, DownloadInv, NEW r \in Readers, NEW a \in AdIds, NEW s \in Segs,
         Adds(r, a, s)
  PROVE  DownloadInv'
<1> r \in Threads /\ None \notin AdIds
  BY CacheAssumption DEF Threads, CacheAssumption
<1>1. /\ a \notin active_dls /\ active_dls' = active_dls \cup {a}
      /\ ad'[a] = [offset |-> s, ts |-> None, refcount |-> 1,
                   unlinked |-> FALSE]
      /\ \A b \in AdIds : b # a => ad'[b] = ad[b]
      /\ \A x \in Readers : orig_ad[x] # a
      /\ \A t \in Threads : ts[t].ad # a
      /\ active_dls \subseteq AdIds
  BY FreeUnreferenced DEF Adds, ActiveDownload_add, Typed, ListOK
<1>2. \A u \in Segs : ActiveDownload_find(u)'
                        = IF u = s THEN {a} ELSE ActiveDownload_find(u)
  BY <1>1 DEF ActiveDownload_find, Adds
<1>3. RefsHeld'
  <2>1. \A b \in AdIds : WaitsOn(b)' = WaitsOn(b) /\ TransfersOf(b)' = TransfersOf(b)
    BY WaitsKept, TransfersKept DEF Adds
  <2>2. ASSUME NEW b \in AdIds
        PROVE  ad'[b].refcount = Listed(b)' + WaitsOn(b)' + TransfersOf(b)'
    <3>1. WaitsOn(a) = 0 /\ TransfersOf(a) = 0
      BY <1>1, RefsAreNat
    <3> QED
      BY <1>1, <2>1, <3>1 DEF Listed, DownloadInv, RefsHeld, RefsSum
  <2>3. NodesFreed' /\ PointersHeld'
    BY <1>1 DEF NodesFreed, PointersHeld, DownloadInv, RefsHeld, Adds,
        SameWaiters, SameWaiter, SameTransfer
  <2> QED
    BY <2>2, <2>3 DEF RefsHeld, RefsSum
<1>4. ListedInRange'
  BY <1>1 DEF ListedInRange, DownloadInv
<1>5. SingleDownload'
  <2>1. \A u \in Segs : \A t \in Threads :
          Owns(t, u)' <=> (Owns(t, u) \/ (t = r /\ u = s))
    BY DEF Adds, SameOwner
  <2>2. \A t \in Threads : ~Owns(t, s)
    BY DEF Adds, DownloadInv, SingleDownload
  <2> QED
    BY <1>2, <2>1, <2>2 DEF DownloadInv, SingleDownload
<1>6. TransferListed' /\ WaitListed'
  BY <1>1 DEF TransferListed, WaitListed, DownloadInv, RefsHeld, PointersHeld,
      Adds, SameTransfer, SameWaiters, SameWaiter, ActiveDownload_find,
      Typed, LocalsOK
<1>7. NoDanglingTransfer'
  BY <1>1 DEF NoDanglingTransfer, DownloadInv, Adds, SameTransfer, Typed,
      ListOK, AdNode
<1> QED
  BY <1>3, <1>4, <1>5, <1>6, <1>7 DEF DownloadInv

\* A reader that registers takes a reference to a listed node.
LEMMA JoinsInv ==
  ASSUME Typed, DownloadInv, NEW r \in Readers, NEW a \in AdIds, Joins(r, a)
  PROVE  DownloadInv'
<1> r \in Threads /\ None \notin AdIds
  BY CacheAssumption DEF Threads, CacheAssumption
<1>1. /\ ad'[a] = [ad[a] EXCEPT !.refcount = ad[a].refcount + 1]
      /\ \A b \in AdIds : b # a => ad'[b] = ad[b]
      /\ ad[a] \in AdNode
  BY DEF Joins, ActiveDownload_ref, Typed, ListOK
<1>2. /\ ad'[a].refcount = ad[a].refcount + 1 /\ ad'[a].ts = ad[a].ts
      /\ ad'[a].unlinked = ad[a].unlinked /\ ad'[a].offset = ad[a].offset
  BY <1>1 DEF AdNode
<1>3. ListedInRange' /\ \A u : ActiveDownload_find(u)' = ActiveDownload_find(u)
  BY <1>1, <1>2, FindsKept DEF Typed, Joins, DownloadInv
<1>4. orig_ad'[r] = a /\ \A x \in Readers : x # r => orig_ad'[x] = orig_ad[x]
  BY DEF Joins, Typed, LocalsOK
<1>5. RefsHeld'
  <2>1. \A b \in AdIds : WaitsOn(b)' = WaitsOn(b) + (IF b = a THEN 1 ELSE 0)
    <3>1. orig_ad[r] = None
      BY DEF Joins, DownloadInv, RefsHeld, PointersHeld
    <3>2. orig_ad' = [orig_ad EXCEPT ![r] = a]
      BY DEF Joins
    <3> TAKE b \in AdIds
    <3>3. WaitsOn(b)' = WaitsOn(b) + (IF a = b THEN 1 ELSE 0)
                                   - (IF orig_ad[r] = b THEN 1 ELSE 0)
      BY <3>2, WaitsMove DEF Typed
    <3> QED
      BY <3>1, <3>3, RefsAreNat
  <2>2. \A b \in AdIds : TransfersOf(b)' = TransfersOf(b)
    BY TransfersKept DEF Joins, SameThreads, SameThread
  <2>3. ASSUME NEW b \in AdIds
        PROVE  ad'[b].refcount = Listed(b)' + WaitsOn(b)' + TransfersOf(b)'
    <3>1. /\ ad[b].refcount = Listed(b) + WaitsOn(b) + TransfersOf(b)
          /\ Listed(b)' = Listed(b)
      BY DEF DownloadInv, RefsHeld, RefsSum, Joins, Listed
    <3>2. ad'[b].refcount = ad[b].refcount + (IF b = a THEN 1 ELSE 0)
      <4>1. ad[b].refcount \in Int
        BY DEF Typed, ListOK, AdNode
      <4>2. /\ b = a => ad'[b].refcount = ad[b].refcount + 1
            /\ b # a => ad'[b].refcount = ad[b].refcount
        BY <1>1, <1>2
      <4> QED
        BY <4>1, <4>2
    <3> QED
      BY <2>1, <2>2, <3>1, <3>2, RefsAreNat
  <2>4. a \in active_dls /\ ad[a].refcount # 0 /\ ad[a].refcount + 1 # 0
    <3>1. a \in active_dls /\ Listed(a) = 1
      BY DEF Joins, ActiveDownload_find, Listed
    <3> QED
      BY <3>1, RefsAreNat DEF DownloadInv, RefsHeld, RefsSum
  <2>5. NodesFreed'
    BY <1>1, <1>2, <2>4 DEF NodesFreed, DownloadInv, RefsHeld, Joins
  <2>6. PointersHeld'
    BY <1>4 DEF PointersHeld, DownloadInv, RefsHeld, Joins, SameThreads,
        SameThread, SameTransfer, SameWaiter
  <2> QED
    BY <2>3, <2>5, <2>6 DEF RefsHeld, RefsSum
<1>6. SingleDownload'
  BY <1>3, OwnersKept DEF DownloadInv, Joins, SameThreads, SameThread
<1>7. TransferListed'
  BY <1>3 DEF TransferListed, DownloadInv, Joins, SameThreads, SameThread,
      SameTransfer
<1>8. WaitListed'
  <2>1. \A b \in AdIds : ad'[b].unlinked = ad[b].unlinked
    BY <1>1, <1>2
  <2>2. \A x \in Readers : x # r => SameWaiter(x)
    BY DEF Joins
  <2>3. ASSUME NEW x \in Readers, x # r, pc'[x] = "wait"
        PROVE  \/ ad'[orig_ad'[x]].unlinked
               \/ orig_ad'[x] \in ActiveDownload_find(dl_offset'[x])
    BY <2>1, <2>2, <2>3 DEF SameWaiter, WaitListed, DownloadInv, RefsHeld,
        PointersHeld, Typed, LocalsOK
  <2>4. orig_ad'[r] \in ActiveDownload_find(dl_offset'[r])
    BY <1>4 DEF Joins
  <2> QED
    BY <1>3, <2>3, <2>4 DEF WaitListed
<1>9. NoDanglingTransfer'
  <2>1. \A b \in AdIds : ad'[b].ts = ad[b].ts
    BY <1>1, <1>2
  <2> QED
    BY <2>1 DEF NoDanglingTransfer, DownloadInv, Joins, SameThreads,
        SameThread, SameTransfer, Typed, ListOK, AdNode
<1> QED
  BY <1>3, <1>5, <1>6, <1>7, <1>8, <1>9 DEF DownloadInv

\* After a step, as before it, whatever is pointed to has references.
LEMMA PointedAt ==
  ASSUME RefsSum', NEW b \in AdIds,
         \/ b \in active_dls'
         \/ \E r \in Readers : orig_ad'[r] = b
         \/ \E t \in Threads : ts'[t].ad = b
  PROVE  ad'[b].refcount # 0
<1>1. ad'[b].refcount = Listed(b)' + WaitsOn(b)' + TransfersOf(b)'
  BY DEF RefsSum
<1>2. ASSUME NEW f, f = [t \in Threads |-> ts'[t].ad]
      PROVE  /\ PointersTo(b, f, Threads) \in Nat
             /\ PointersTo(b, f, Threads) = 0 <=> \A t \in Threads : ts'[t].ad # b
  BY <1>2, FiniteThreads, PointersType
<1>3. ASSUME NEW f, f = orig_ad'
      PROVE  /\ PointersTo(b, f, Readers) \in Nat
             /\ PointersTo(b, f, Readers) = 0 <=> \A r \in Readers : f[r] # b
  BY FiniteThreads, PointersType
<1>4. /\ TransfersOf(b)' \in Nat
      /\ TransfersOf(b)' = 0 <=> \A t \in Threads : ts'[t].ad # b
  BY <1>2 DEF TransfersOf
<1>5. /\ WaitsOn(b)' \in Nat
      /\ WaitsOn(b)' = 0 <=> \A r \in Readers : orig_ad'[r] # b
  BY <1>3 DEF WaitsOn
<1>6. Listed(b)' \in {0, 1} /\ (Listed(b)' = 0 <=> b \notin active_dls')
  BY DEF Listed
<1>7. Listed(b)' # 0 \/ WaitsOn(b)' # 0 \/ TransfersOf(b)' # 0
  BY <1>4, <1>5, <1>6
<1> QED
  BY <1>1, <1>4, <1>5, <1>6, <1>7

\* The node that loses a reference is freed, or goes on as it was.
LEMMA UnrefNode ==
  ASSUME NEW nodes \in [AdIds -> AdNode], NEW a \in AdIds,
         ad' = ActiveDownload_unref(nodes, a), NEW b \in AdIds
  PROVE  /\ b # a => ad'[b] = nodes[b]
         /\ b = a => ad'[b].refcount = nodes[b].refcount - 1
         /\ b = a /\ ad'[b].refcount = 0 => ad'[b] = FreeAd
         /\ ad'[b].refcount # 0 => /\ ad'[b].offset = nodes[b].offset
                                   /\ ad'[b].ts = nodes[b].ts
                                   /\ ad'[b].unlinked = nodes[b].unlinked
<1>1. nodes[b] \in AdNode /\ nodes[a] \in AdNode
  OBVIOUS
<1>2. CASE b # a
  BY <1>2, UnrefEffect
<1>3. CASE b = a /\ nodes[a].refcount = 1
  <2>1. ad'[b] = FreeAd
    BY <1>3, UnrefEffect
  <2> QED
    BY <1>3, <2>1 DEF FreeAd
<1>4. CASE b = a /\ nodes[a].refcount # 1
  <2>1. ad'[b] = [nodes[a] EXCEPT !.refcount = nodes[a].refcount - 1]
    BY <1>4, UnrefEffect
  <2>2. /\ ad'[b].refcount = nodes[b].refcount - 1
        /\ ad'[b].offset = nodes[b].offset /\ ad'[b].ts = nodes[b].ts
        /\ ad'[b].unlinked = nodes[b].unlinked
    BY <1>1, <1>4, <2>1 DEF AdNode
  <2>3. nodes[b].refcount - 1 # 0
    BY <1>1, <1>4 DEF AdNode
  <2> QED
    BY <1>4, <2>2, <2>3
<1> QED
  BY <1>2, <1>3, <1>4

\* A reader that leaves drops its reference, the last one or not.
LEMMA LeavesInv ==
  ASSUME Typed, DownloadInv, NEW r \in Readers, Leaves(r)
  PROVE  DownloadInv'
<1> DEFINE a == orig_ad[r]
<1> r \in Threads /\ None \notin AdIds /\ a \in AdIds /\ ad \in [AdIds -> AdNode]
  BY CacheAssumption
  DEF Threads, CacheAssumption, Typed, LocalsOK, Leaves, DownloadInv,
      RefsHeld, PointersHeld, ListOK
<1>1. \A b \in AdIds :
        /\ b # a => ad'[b] = ad[b]
        /\ b = a => ad'[b].refcount = ad[b].refcount - 1
        /\ b = a /\ ad'[b].refcount = 0 => ad'[b] = FreeAd
        /\ ad'[b].refcount # 0 => /\ ad'[b].offset = ad[b].offset
                                  /\ ad'[b].ts = ad[b].ts
                                  /\ ad'[b].unlinked = ad[b].unlinked
  <2>1. ad' = ActiveDownload_unref(ad, a)
    BY DEF Leaves
  <2> QED
    BY <2>1, UnrefNode
<1>2. orig_ad'[r] = None /\ \A x \in Readers : x # r => orig_ad'[x] = orig_ad[x]
  BY DEF Leaves, Typed, LocalsOK
<1>3. RefsSum'
  <2>1. SUFFICES ASSUME NEW b \in AdIds
                 PROVE  ad'[b].refcount = Listed(b)' + WaitsOn(b)' + TransfersOf(b)'
    BY DEF RefsSum
  <2>2. WaitsOn(b)' = WaitsOn(b) + (IF None = b THEN 1 ELSE 0)
                                 - (IF orig_ad[r] = b THEN 1 ELSE 0)
    BY WaitsMove DEF Typed, Leaves
  <2>3. TransfersOf(b)' = TransfersOf(b)
    BY TransfersKept DEF Leaves, SameThreads, SameThread
  <2>4. /\ ad[b].refcount = Listed(b) + WaitsOn(b) + TransfersOf(b)
        /\ Listed(b)' = Listed(b)
    BY DEF DownloadInv, RefsHeld, RefsSum, Leaves, Listed
  <2>5. /\ b = a => ad'[b].refcount = ad[b].refcount - 1
        /\ b # a => ad'[b].refcount = ad[b].refcount
    BY <1>1
  <2> QED
    BY <2>2, <2>3, <2>4, <2>5, RefsAreNat
<1>4. \A b \in AdIds : \/ b \in active_dls
                       \/ \E x \in Readers : orig_ad'[x] = b
                       \/ \E t \in Threads : ts[t].ad = b
        => /\ ad'[b].offset = ad[b].offset /\ ad'[b].ts = ad[b].ts
           /\ ad'[b].unlinked = ad[b].unlinked
  BY <1>1, <1>3, PointedAt DEF Leaves, SameThreads, SameThread, SameTransfer
<1>5. ListedInRange' /\ \A u : ActiveDownload_find(u)' = ActiveDownload_find(u)
  BY <1>4, FindsKept DEF Typed, Leaves, DownloadInv
<1>6. NodesFreed' /\ PointersHeld'
  <2>1. ASSUME NEW b \in AdIds
        PROVE  /\ ad'[b].unlinked => b \notin active_dls'
               /\ ad'[b].refcount = 0 => ad'[b] = FreeAd
    <3>1. ad'[b].unlinked => b \notin active_dls'
      BY <1>4 DEF DownloadInv, RefsHeld, NodesFreed, Leaves
    <3>2. ad'[b].refcount = 0 => ad'[b] = FreeAd
      BY <1>1 DEF DownloadInv, RefsHeld, NodesFreed
    <3> QED
      BY <3>1, <3>2
  <2>2. PointersHeld'
    BY <1>2 DEF PointersHeld, DownloadInv, RefsHeld, Leaves, SameThreads,
        SameThread, SameTransfer, SameWaiter
  <2> QED
    BY <2>1, <2>2 DEF NodesFreed
<1>7. SingleDownload'
  BY <1>5, OwnersKept DEF DownloadInv, Leaves, SameThreads, SameThread
<1>8. TransferListed'
  BY <1>5 DEF TransferListed, DownloadInv, Leaves, SameThreads, SameThread,
      SameTransfer
<1>9. WaitListed'
  <2>1. SUFFICES ASSUME NEW x \in Readers, pc'[x] = "wait"
                 PROVE  \/ ad'[orig_ad'[x]].unlinked
                        \/ orig_ad'[x] \in ActiveDownload_find(dl_offset[x])'
    BY DEF WaitListed
  <2>2. x # r /\ SameWaiter(x)
    BY <2>1 DEF Leaves
  <2>3. orig_ad'[x] = orig_ad[x] /\ pc[x] = "wait" /\ orig_ad[x] \in AdIds
        /\ dl_offset'[x] = dl_offset[x]
    BY <2>1, <2>2 DEF SameWaiter, DownloadInv, RefsHeld, PointersHeld, Typed,
        LocalsOK
  <2>4. ad'[orig_ad[x]].unlinked = ad[orig_ad[x]].unlinked
    BY <1>4, <2>3
  <2> QED
    BY <1>5, <2>3, <2>4 DEF WaitListed, DownloadInv
<1>10. NoDanglingTransfer'
  <2>1. SUFFICES ASSUME NEW b \in AdIds, ad'[b].ts # None
                 PROVE  /\ pc'[ad'[b].ts] = "transfer"
                        /\ ts'[ad'[b].ts].ad = b
    BY DEF NoDanglingTransfer
  <2>2. ad'[b].ts = ad[b].ts
    BY <1>1, <2>1 DEF FreeAd
  <2>3. ad[b].ts \in Threads
    BY <2>1, <2>2 DEF AdNode
  <2> QED
    BY <2>1, <2>2, <2>3 DEF NoDanglingTransfer, DownloadInv, Leaves,
        SameThreads, SameThread, SameTransfer
<1> QED
  BY <1>3, <1>5, <1>6, <1>7, <1>8, <1>9, <1>10 DEF DownloadInv, RefsHeld

\* Who untracks a segment unlinks its one node, and drops the list's reference.
LEMMA RemovesInv ==
  ASSUME Typed, DownloadInv, NEW t \in Threads, NEW s \in Segs, Removes(t, s)
  PROVE  DownloadInv'
<1>1. Owns(t, s)
  BY DEF Removes
<1>2. PICK a \in AdIds : /\ ActiveDownload_find(s) = {a}
                         /\ active_dls' = active_dls \ {a}
                         /\ ad' = ActiveDownload_unref(
                                    [ad EXCEPT ![a].unlinked = TRUE], a)
  <2>1. ActiveDownload_find(s) # {}
    BY <1>1 DEF DownloadInv, SingleDownload
  <2>2. PICK a \in ActiveDownload_find(s) :
          /\ active_dls' = active_dls \ {a}
          /\ ad' = ActiveDownload_unref([ad EXCEPT ![a].unlinked = TRUE], a)
    BY <2>1 DEF Removes, ActiveDownload_remove
  <2>3. ActiveDownload_find(s) = {a} /\ a \in AdIds
    BY <2>2, FindType DEF DownloadInv, SingleDownload, Typed
  <2> QED
    BY <2>2, <2>3
<1>3. \A b \in AdIds :
        /\ b # a => ad'[b] = ad[b]
        /\ b = a => ad'[b].refcount = ad[b].refcount - 1
        /\ b = a /\ ad'[b].refcount = 0 => ad'[b] = FreeAd
        /\ b = a /\ ad'[b].refcount # 0 => /\ ad'[b].ts = ad[b].ts
                                           /\ ad'[b].unlinked
  <2> DEFINE nodes == [ad EXCEPT ![a].unlinked = TRUE]
  <2>1. nodes \in [AdIds -> AdNode] /\ ad' = ActiveDownload_unref(nodes, a)
    BY <1>2, UnlinkedType DEF Typed, ListOK
  <2>2. \A b \in AdIds : /\ b # a => nodes[b] = ad[b]
                         /\ nodes[b].refcount = ad[b].refcount
                         /\ nodes[b].ts = ad[b].ts
                         /\ nodes[a].unlinked
    BY DEF Typed, ListOK, AdNode
  <2> HIDE DEF nodes
  <2> QED
    BY <2>1, <2>2, UnrefNode
<1>4. a \in active_dls /\ ad[a].offset = s
  BY <1>2 DEF ActiveDownload_find
<1>5. \A u \in Segs : ActiveDownload_find(u)'
                        = IF u = s THEN {} ELSE ActiveDownload_find(u)
  <2>1. \A b \in active_dls' : b # a /\ ad'[b] = ad[b] /\ b \in active_dls
    BY <1>2, <1>3 DEF Typed, ListOK
  <2>2. \A b \in active_dls : b # a => b \in active_dls' /\ ad[b].offset # s
    BY <1>2 DEF ActiveDownload_find
  <2> QED
    BY <1>4, <2>1, <2>2 DEF ActiveDownload_find
<1>6. RefsSum'
  <2>1. SUFFICES ASSUME NEW b \in AdIds
                 PROVE  ad'[b].refcount = Listed(b)' + WaitsOn(b)' + TransfersOf(b)'
    BY DEF RefsSum
  <2>2. WaitsOn(b)' = WaitsOn(b) /\ TransfersOf(b)' = TransfersOf(b)
    BY WaitsKept, TransfersKept DEF Removes
  <2>3. ad[b].refcount = Listed(b) + WaitsOn(b) + TransfersOf(b)
    BY DEF DownloadInv, RefsHeld, RefsSum
  <2>4. /\ b = a => ad'[b].refcount = ad[b].refcount - 1 /\ Listed(b) = 1
                    /\ Listed(b)' = 0
        /\ b # a => ad'[b].refcount = ad[b].refcount /\ Listed(b)' = Listed(b)
    BY <1>2, <1>3, <1>4 DEF Listed
  <2> QED
    BY <2>2, <2>3, <2>4, RefsAreNat
<1>7. NodesFreed' /\ PointersHeld'
  <2>1. NodesFreed'
    BY <1>2, <1>3 DEF NodesFreed, DownloadInv, RefsHeld
  <2>2. PointersHeld'
    BY DEF PointersHeld, DownloadInv, RefsHeld, Removes, SameWaiters,
        SameWaiter, SameTransfer
  <2> QED
    BY <2>1, <2>2
<1>8. ListedInRange'
  BY <1>2, <1>3 DEF ListedInRange, DownloadInv, Typed, ListOK
<1>9. SingleDownload'
  <2>1. \A u \in Segs : \A x \in Threads :
          Owns(x, u)' <=> (Owns(x, u) /\ x # t)
    BY DEF Removes, SameOwner
  <2>2. \A x \in Threads : Owns(x, s) => x = t
    BY <1>1 DEF DownloadInv, SingleDownload
  <2>3. \A u \in Segs : Owns(t, u) => u = s
    BY DEF Removes
  <2> QED
    BY <1>5, <2>1, <2>2, <2>3 DEF DownloadInv, SingleDownload
<1>10. TransferListed'
  <2>1. SUFFICES ASSUME NEW x \in Threads, pc'[x] = "transfer"
                 PROVE  ts'[x].ad \in ActiveDownload_find(dl_offset[x])'
    BY DEF TransferListed
  <2>2. /\ pc[x] = "transfer" /\ dl_offset'[x] = dl_offset[x]
        /\ ts'[x].ad = ts[x].ad /\ dl_offset[x] \in Segs
    BY <2>1 DEF Removes, SameTransfer, Typed, LocalsOK
  <2>3. Owns(x, dl_offset[x]) /\ Owns(x, dl_offset[x])'
    BY <2>1, <2>2 DEF Owns, Downloading
  <2>4. x # t
    BY <2>2, <2>3 DEF Removes
  <2>5. dl_offset[x] # s
    BY <1>1, <2>3, <2>4 DEF DownloadInv, SingleDownload
  <2> QED
    BY <1>5, <2>2, <2>5 DEF TransferListed, DownloadInv
<1>11. WaitListed'
  <2>1. SUFFICES ASSUME NEW x \in Readers, pc'[x] = "wait"
                 PROVE  \/ ad'[orig_ad'[x]].unlinked
                        \/ orig_ad'[x] \in ActiveDownload_find(dl_offset[x])'
    BY DEF WaitListed
  <2>2. /\ orig_ad'[x] = orig_ad[x] /\ pc[x] = "wait" /\ orig_ad[x] \in AdIds
        /\ dl_offset'[x] = dl_offset[x] /\ dl_offset[x] \in Segs
    BY <2>1 DEF Removes, SameWaiters, SameWaiter, DownloadInv, RefsHeld,
        PointersHeld, Typed, LocalsOK, Threads
  <2>3. CASE orig_ad[x] = a
    BY <1>3, <1>6, <2>2, <2>3, PointedAt
  <2>4. CASE orig_ad[x] # a
    <3>1. \/ ad[orig_ad[x]].unlinked
          \/ orig_ad[x] \in ActiveDownload_find(dl_offset[x])
      BY <2>2 DEF WaitListed, DownloadInv
    <3>2. ASSUME ad[orig_ad[x]].unlinked PROVE ad'[orig_ad'[x]].unlinked
      BY <1>3, <2>2, <2>4, <3>2
    <3>3. ASSUME orig_ad[x] \in ActiveDownload_find(dl_offset[x])
          PROVE  orig_ad'[x] \in ActiveDownload_find(dl_offset[x])'
      <4>1. dl_offset[x] # s
        BY <1>2, <2>4, <3>3
      <4> QED
        BY <1>5, <2>2, <3>3, <4>1
    <3> QED
      BY <3>1, <3>2, <3>3
  <2> QED
    BY <2>3, <2>4
<1>12. NoDanglingTransfer'
  <2>1. SUFFICES ASSUME NEW b \in AdIds, ad'[b].ts # None
                 PROVE  /\ pc'[ad'[b].ts] = "transfer"
                        /\ ts'[ad'[b].ts].ad = b
    BY DEF NoDanglingTransfer
  <2>2. ad'[b].ts = ad[b].ts
    BY <1>3, <2>1 DEF FreeAd
  <2>3. ad[b].ts \in Threads
    BY <2>1, <2>2 DEF AdNode, Typed, ListOK
  <2> QED
    BY <2>1, <2>2, <2>3 DEF NoDanglingTransfer, DownloadInv, Removes,
        SameTransfer
<1> QED
  BY <1>6, <1>7, <1>8, <1>9, <1>10, <1>11, <1>12 DEF DownloadInv, RefsHeld

\* A transfer takes a reference to the node it publishes itself in.
LEMMA StartsInv ==
  ASSUME Typed, DownloadInv, NEW t \in Threads, NEW a \in AdIds, Starts(t, a)
  PROVE  DownloadInv'
<1> None \notin AdIds /\ None \notin Threads
  BY CacheAssumption DEF CacheAssumption
<1>1. \A b \in AdIds :
        /\ b # a => ad'[b] = ad[b]
        /\ b = a => ad'[b].refcount = ad[b].refcount + 1 /\ ad'[b].ts = t
        /\ ad'[b].offset = ad[b].offset /\ ad'[b].unlinked = ad[b].unlinked
  <2> DEFINE nodes == [ad EXCEPT ![a].ts = t]
  <2>1. \A b \in AdIds : /\ b # a => nodes[b] = ad[b]
                         /\ nodes[b].refcount = ad[b].refcount
                         /\ nodes[b].offset = ad[b].offset
                         /\ nodes[b].unlinked = ad[b].unlinked
                         /\ nodes[a].ts = t /\ nodes[b] \in AdNode
    BY DEF Typed, ListOK, AdNode
  <2>2. nodes \in [AdIds -> AdNode] /\ ad' = ActiveDownload_ref(nodes, a)
    BY DEF Starts, Typed, ListOK, AdNode
  <2> HIDE DEF nodes
  <2>3. ad'[a] = [nodes[a] EXCEPT !.refcount = nodes[a].refcount + 1]
        /\ \A b \in AdIds : b # a => ad'[b] = nodes[b]
    BY <2>2 DEF ActiveDownload_ref
  <2> QED
    BY <2>1, <2>3 DEF AdNode
<1>2. ListedInRange' /\ \A u : ActiveDownload_find(u)' = ActiveDownload_find(u)
  BY <1>1, FindsKept DEF Typed, Starts, DownloadInv
<1>3. ts[t].ad = None
  BY DEF Starts, DownloadInv, RefsHeld, PointersHeld
<1>4. RefsSum'
  <2>1. SUFFICES ASSUME NEW b \in AdIds
                 PROVE  ad'[b].refcount = Listed(b)' + WaitsOn(b)' + TransfersOf(b)'
    BY DEF RefsSum
  <2>2. WaitsOn(b)' = WaitsOn(b)
    BY WaitsKept DEF Starts
  <2>3. TransfersOf(b)' = TransfersOf(b) + (IF a = b THEN 1 ELSE 0)
                                         - (IF ts[t].ad = b THEN 1 ELSE 0)
    <3>1. \A u \in Threads : ts'[u].ad = IF u = t THEN a ELSE ts[u].ad
      BY DEF Starts, SameThread, SameTransfer
    <3> QED
      BY <3>1, TransfersMove DEF Typed
  <2>4. /\ ad[b].refcount = Listed(b) + WaitsOn(b) + TransfersOf(b)
        /\ Listed(b)' = Listed(b)
    BY DEF DownloadInv, RefsHeld, RefsSum, Starts, Listed
  <2>5. /\ b = a => ad'[b].refcount = ad[b].refcount + 1
        /\ b # a => ad'[b].refcount = ad[b].refcount
    BY <1>1
  <2> QED
    BY <1>3, <2>2, <2>3, <2>4, <2>5, RefsAreNat
<1>5. NodesFreed' /\ PointersHeld'
  <2>1. a \in active_dls
    BY DEF Starts, ActiveDownload_find
  <2>2. ad'[a].refcount # 0
    BY <1>4, <2>1, PointedAt DEF Starts
  <2>3. NodesFreed'
    <3>1. NodesFreed /\ UNCHANGED active_dls
      BY DEF DownloadInv, RefsHeld, Starts
    <3>2. \A b \in AdIds : /\ ad'[b].unlinked = ad[b].unlinked
                           /\ b # a => ad'[b] = ad[b]
      BY <1>1
    <3> QED
      BY <2>2, <3>1, <3>2 DEF NodesFreed
  <2>4. PointersHeld'
    BY DEF PointersHeld, DownloadInv, RefsHeld, Starts, SameWaiters,
        SameWaiter, SameThread, SameTransfer
  <2> QED
    BY <2>3, <2>4
<1>6. SingleDownload'
  BY <1>2, OwnersKept DEF DownloadInv, Starts, SameThread
<1>7. TransferListed'
  BY <1>2 DEF TransferListed, DownloadInv, Starts, SameThread, SameTransfer
<1>8. WaitListed'
  <2>1. SUFFICES ASSUME NEW x \in Readers, pc'[x] = "wait"
                 PROVE  \/ ad'[orig_ad'[x]].unlinked
                        \/ orig_ad'[x] \in ActiveDownload_find(dl_offset[x])'
    BY DEF WaitListed
  <2>2. /\ orig_ad'[x] = orig_ad[x] /\ pc[x] = "wait" /\ orig_ad[x] \in AdIds
        /\ dl_offset'[x] = dl_offset[x]
    BY <2>1 DEF Starts, SameWaiters, SameWaiter, DownloadInv, RefsHeld,
        PointersHeld, Typed, LocalsOK
  <2> QED
    BY <1>1, <1>2, <2>2 DEF WaitListed, DownloadInv
<1>9. NoDanglingTransfer'
  <2>1. SUFFICES ASSUME NEW b \in AdIds, ad'[b].ts # None
                 PROVE  /\ pc'[ad'[b].ts] = "transfer"
                        /\ ts'[ad'[b].ts].ad = b
    BY DEF NoDanglingTransfer
  <2>2. CASE b = a
    BY <1>1, <2>2 DEF Starts
  <2>3. CASE b # a
    <3>1. ad'[b].ts = ad[b].ts /\ ad[b].ts \in Threads
      BY <1>1, <2>1, <2>3 DEF AdNode, Typed, ListOK
    <3>2. pc[ad[b].ts] = "transfer" /\ ts[ad[b].ts].ad = b
      BY <2>1, <3>1 DEF NoDanglingTransfer, DownloadInv
    <3> QED
      BY <3>1, <3>2 DEF Starts, SameThread, SameTransfer
  <2> QED
    BY <2>2, <2>3
<1> QED
  BY <1>2, <1>4, <1>5, <1>6, <1>7, <1>8, <1>9 DEF DownloadInv, RefsHeld

\* A transfer that ends clears the node's pointer to it and drops its reference:
\* the node stays, because the list still has it.
LEMMA FinishesInv ==
  ASSUME Typed, DownloadInv, NEW t \in Threads, Finishes(t)
  PROVE  DownloadInv'
<1> DEFINE a == ts[t].ad
           nodes == [b \in AdIds |->
                       IF b \in ActiveDownload_find(dl_offset[t]) /\ ad[b].ts = t
                       THEN [ad[b] EXCEPT !.ts = None] ELSE ad[b]]
<1> None \notin AdIds /\ None \notin Threads
  BY CacheAssumption DEF CacheAssumption
<1>1. a \in ActiveDownload_find(dl_offset[t]) /\ a \in AdIds
  BY FindType DEF Finishes, DownloadInv, TransferListed, Typed
<1>2. /\ nodes \in [AdIds -> AdNode]
      /\ \A b \in AdIds : /\ nodes[b].refcount = ad[b].refcount
                          /\ nodes[b].offset = ad[b].offset
                          /\ nodes[b].unlinked = ad[b].unlinked
                          /\ b \notin active_dls => nodes[b] = ad[b]
                          /\ nodes[b].ts \in {None, ad[b].ts}
                          /\ b = a => nodes[b].ts # t
  <2>1. nodes \in [AdIds -> AdNode]
    BY UnpublishedType DEF Typed, ListOK
  <2>2. \A b \in AdIds : ad[b] \in AdNode
    BY DEF Typed, ListOK
  <2>3. \A b \in AdIds :
          /\ b \notin active_dls => nodes[b] = ad[b]
          /\ \/ nodes[b] = ad[b] /\ (b = a => ad[b].ts # t)
             \/ nodes[b] = [ad[b] EXCEPT !.ts = None]
    BY <1>1 DEF ActiveDownload_find
  <2> HIDE DEF nodes
  <2> QED
    BY <2>1, <2>2, <2>3 DEF AdNode
<1>3. ad' = ActiveDownload_unref(nodes, a)
  BY DEF Finishes, Link_download_finish_transfer
<1> HIDE DEF nodes
<1>4. \A b \in AdIds :
        /\ b # a => ad'[b] = nodes[b]
        /\ b = a => ad'[b].refcount = nodes[b].refcount - 1
        /\ ad'[b].refcount # 0 => /\ ad'[b].offset = nodes[b].offset
                                  /\ ad'[b].ts = nodes[b].ts
                                  /\ ad'[b].unlinked = nodes[b].unlinked
  BY <1>1, <1>2, <1>3, UnrefNode
<1>5. RefsSum'
  <2>1. SUFFICES ASSUME NEW b \in AdIds
                 PROVE  ad'[b].refcount = Listed(b)' + WaitsOn(b)' + TransfersOf(b)'
    BY DEF RefsSum
  <2>2. WaitsOn(b)' = WaitsOn(b)
    BY WaitsKept DEF Finishes
  <2>3. TransfersOf(b)' = TransfersOf(b) + (IF None = b THEN 1 ELSE 0)
                                         - (IF ts[t].ad = b THEN 1 ELSE 0)
    <3>1. \A u \in Threads : ts'[u].ad = IF u = t THEN None ELSE ts[u].ad
      BY DEF Finishes, SameThread, SameTransfer
    <3> QED
      BY <3>1, TransfersMove DEF Typed
  <2>4. /\ ad[b].refcount = Listed(b) + WaitsOn(b) + TransfersOf(b)
        /\ Listed(b)' = Listed(b)
    BY DEF DownloadInv, RefsHeld, RefsSum, Finishes, Listed
  <2>5. /\ b = a => ad'[b].refcount = ad[b].refcount - 1
        /\ b # a => ad'[b].refcount = ad[b].refcount
    BY <1>2, <1>4
  <2> QED
    BY <2>2, <2>3, <2>4, <2>5, RefsAreNat
\* a itself is still listed, so no node is freed.
<1>6. \A b \in AdIds : /\ ad'[b].offset = ad[b].offset
                       /\ ad'[b].unlinked = ad[b].unlinked
                       /\ ad'[b].ts = nodes[b].ts
  <2>1. a \in active_dls'
    BY <1>1 DEF Finishes, ActiveDownload_find
  <2>2. ad'[a].refcount # 0
    BY <1>1, <1>5, <2>1, PointedAt
  <2> QED
    BY <1>2, <1>4, <2>2
<1>7. ListedInRange' /\ \A u : ActiveDownload_find(u)' = ActiveDownload_find(u)
  BY <1>6, FindsKept DEF Typed, Finishes, DownloadInv
<1>8. NodesFreed' /\ PointersHeld'
  <2>1. \A b \in AdIds : ad'[b].unlinked => b \notin active_dls'
    BY <1>6 DEF NodesFreed, DownloadInv, RefsHeld, Finishes
  <2>2. ASSUME NEW b \in AdIds, ad'[b].refcount = 0 PROVE ad'[b] = FreeAd
    <3>1. b \notin active_dls'
      BY <1>5, <2>2, PointedAt
    <3>2. b \notin active_dls /\ b # a
      BY <1>1, <3>1 DEF Finishes, ActiveDownload_find
    <3>3. ad'[b] = ad[b]
      BY <1>2, <1>4, <3>2
    <3> QED
      BY <2>2, <3>3 DEF NodesFreed, DownloadInv, RefsHeld
  <2>3. PointersHeld'
    BY DEF PointersHeld, DownloadInv, RefsHeld, Finishes, SameWaiters,
        SameWaiter, SameThread, SameTransfer
  <2> QED
    BY <2>1, <2>2, <2>3 DEF NodesFreed
<1>9. SingleDownload'
  BY <1>7, OwnersKept DEF DownloadInv, Finishes, SameThread
<1>10. TransferListed'
  BY <1>7 DEF TransferListed, DownloadInv, Finishes, SameThread, SameTransfer
<1>11. WaitListed'
  <2>1. SUFFICES ASSUME NEW x \in Readers, pc'[x] = "wait"
                 PROVE  \/ ad'[orig_ad'[x]].unlinked
                        \/ orig_ad'[x] \in ActiveDownload_find(dl_offset[x])'
    BY DEF WaitListed
  <2>2. /\ orig_ad'[x] = orig_ad[x] /\ pc[x] = "wait" /\ orig_ad[x] \in AdIds
        /\ dl_offset'[x] = dl_offset[x]
    BY <2>1 DEF Finishes, SameWaiters, SameWaiter, DownloadInv, RefsHeld,
        PointersHeld, Typed, LocalsOK
  <2> QED
    BY <1>6, <1>7, <2>2 DEF WaitListed, DownloadInv
<1>12. NoDanglingTransfer'
  <2>1. SUFFICES ASSUME NEW b \in AdIds, ad'[b].ts # None
                 PROVE  /\ pc'[ad'[b].ts] = "transfer"
                        /\ ts'[ad'[b].ts].ad = b
    BY DEF NoDanglingTransfer
  <2>2. ad'[b].ts = ad[b].ts /\ ad[b].ts \in Threads
    BY <1>2, <1>6, <2>1 DEF AdNode, Typed, ListOK
  <2>3. pc[ad[b].ts] = "transfer" /\ ts[ad[b].ts].ad = b
    BY <2>1, <2>2 DEF NoDanglingTransfer, DownloadInv
  <2>4. ad[b].ts # t
    BY <1>2, <1>6, <2>2, <2>3
  <2> QED
    BY <2>2, <2>3, <2>4 DEF Finishes, SameThread, SameTransfer
<1> QED
  BY <1>5, <1>7, <1>8, <1>9, <1>10, <1>11, <1>12 DEF DownloadInv, RefsHeld

\* When nobody is in the Cache, no segment is listed and no node is in use.
LEMMA QuietList ==
  ASSUME Typed, DownloadInv, Quiet
  PROVE  active_dls = {} /\ \A a \in AdIds : ad[a] = FreeAd
<1>1. \A t \in Threads, s \in Segs : ~Owns(t, s)
  BY DEF Quiet, Owns, Downloading
<1>2. active_dls = {}
  <2>1. SUFFICES ASSUME NEW a \in active_dls PROVE FALSE
    OBVIOUS
  <2>2. ad[a].offset \in Segs /\ a \in ActiveDownload_find(ad[a].offset)
    BY DEF DownloadInv, ListedInRange, ActiveDownload_find
  <2> QED
    BY <1>1, <2>2 DEF DownloadInv, SingleDownload
<1>3. ASSUME NEW a \in AdIds PROVE ad[a] = FreeAd
  <2>1. /\ \A r \in Readers : orig_ad[r] # a
        /\ \A t \in Threads : ts[t].ad # a
    BY CacheAssumption DEF Quiet, Threads, DownloadInv, RefsHeld,
        PointersHeld, CacheAssumption
  <2>2. WaitsOn(a) = 0 /\ TransfersOf(a) = 0 /\ Listed(a) = 0
    BY <1>2, <2>1, RefsAreNat DEF Listed
  <2> QED
    BY <2>2 DEF DownloadInv, RefsHeld, RefsSum, NodesFreed
<1> QED
  BY <1>2, <1>3

\* Every step keeps the invariant of the list.
LEMMA DownloadStep ==
  ASSUME LockInv, Counted, DownloadInv, [Next]_vars PROVE DownloadInv'
<1>1. Typed
  BY DEF LockInv, TypeOK, Typed
<1>2. ListStep
  BY <1>1, QuietList, EveryListStep
<1> QED
  BY <1>1, <1>2, KeepsInv, PassesInv, AddsInv, JoinsInv, LeavesInv, RemovesInv,
      StartsInv, FinishesInv
  DEF ListStep

\* At the start the list is empty and every node is free.
LEMMA DownloadInit == Init => DownloadInv
<1> SUFFICES ASSUME Init PROVE DownloadInv
  OBVIOUS
<1>1. \A a \in AdIds : Listed(a) = 0 /\ WaitsOn(a) = 0 /\ TransfersOf(a) = 0
  BY RefsAreNat, CacheAssumption
  DEF Init, Listed, NoTransfer, CacheAssumption
<1>2. RefsHeld
  BY <1>1 DEF Init, RefsHeld, RefsSum, NodesFreed, PointersHeld, FreeAd,
      NoTransfer, Threads
<1>3. SingleDownload
  BY DEF Init, SingleDownload, Owns, Downloading, ActiveDownload_find, Threads
<1> QED
  BY <1>2, <1>3
  DEF Init, DownloadInv, ListedInRange, TransferListed, WaitListed,
      NoDanglingTransfer, FreeAd, Threads

\* The invariant of the list holds in every reachable state.
THEOREM DownloadsTracked == Spec => []DownloadInv
BY LockInvariant, CountersCount, DownloadInit, DownloadStep, PTL DEF Spec

\* SingleDownload: a segment is listed at most once, exactly while one thread is
\* bound to untrack it (ActiveDownload_add and _remove of cache.c).
THEOREM OneDownload == Spec => []SingleDownload
<1>1. DownloadInv => SingleDownload
  BY DEF DownloadInv
<1> QED
  BY DownloadsTracked, <1>1, PTL

\* RefCounts: a node's count is the number of pointers to it, so it is freed
\* when the last of them goes (ActiveDownload_ref and _unref of cache.c).
THEOREM ReferencesCounted == Spec => []RefCounts
<1>1. DownloadInv => RefCounts
  <2> SUFFICES ASSUME DownloadInv, NEW a \in AdIds
               PROVE  /\ ad[a].refcount = Indicator(a \in active_dls)
                        + Cardinality({r \in Readers : orig_ad[r] = a})
                        + Cardinality({t \in Threads : ts[t].ad = a})
                      /\ ad[a].unlinked => a \notin active_dls
    BY DEF RefCounts
  <2>1. WaitsOn(a) = Cardinality({r \in Readers : orig_ad[r] = a})
    BY DEF WaitsOn, PointersTo
  <2>2. TransfersOf(a) = Cardinality({t \in Threads : ts[t].ad = a})
    <3>1. ASSUME NEW f, f = [t \in Threads |-> ts[t].ad]
          PROVE  {t \in Threads : f[t] = a} = {t \in Threads : ts[t].ad = a}
      BY <3>1
    <3> QED
      BY <3>1, Zenon DEF TransfersOf, PointersTo
  <2>3. Listed(a) = Indicator(a \in active_dls)
    BY DEF Listed, Indicator
  <2>4. ad[a].refcount = Listed(a) + WaitsOn(a) + TransfersOf(a)
    BY DEF DownloadInv, RefsHeld, RefsSum
  <2>5. ad[a].unlinked => a \notin active_dls
    BY DEF DownloadInv, RefsHeld, NodesFreed
  <2> QED
    BY <2>1, <2>2, <2>3, <2>4, <2>5, Zenon
<1> QED
  BY DownloadsTracked, <1>1, PTL

\* NoDanglingTransfer: the buffer that a waiting reader copies from is one that
\* a transfer is still filling (Link_download_finish_transfer of link.c).
THEOREM NoDangling == Spec => []NoDanglingTransfer
<1>1. DownloadInv => NoDanglingTransfer
  BY DEF DownloadInv
<1> QED
  BY DownloadsTracked, <1>1, PTL

\* QuietTeardown: when the last closer starts to free the Cache, no download, no
\* waiter and no background thread is left (Cache_close and Cache_free).
THEOREM TeardownIsQuiet == Spec => []QuietTeardown
<1>1. LockInv /\ Counted /\ DownloadInv => QuietTeardown
  <2> SUFFICES ASSUME LockInv, Counted, DownloadInv,
                      NEW r \in Readers, pc[r] = "freeing"
               PROVE  /\ active_dls = {} /\ waiters = 0
                      /\ \A a \in AdIds : ad[a] = FreeAd
                      /\ \A w \in Workers : pc[w] = "idle"
    BY DEF QuietTeardown
  <2>1. Quiet
    BY QuietAt
  <2>2. active_dls = {} /\ \A a \in AdIds : ad[a] = FreeAd
    BY <2>1, QuietList DEF LockInv, TypeOK, Typed
  <2>3. \A w \in Workers : pc[w] = "idle"
    BY <2>1 DEF Quiet, Threads, LockInv, TypeOK, PcOK, WorkerPcs
  <2>4. Waiting = 0 /\ Fetching = 0
    BY <2>1, FiniteThreads, CountType
    DEF Quiet, Threads, Waiting, Fetching, DownloadPcs
  <2> QED
    BY <2>2, <2>3, <2>4 DEF Counted, WaitersCounted
<1> QED
  BY LockInvariant, CountersCount, DownloadsTracked, <1>1, PTL

-----------------------------------------------------------------------------
(* Answers. *)

\* Until it has been stored, a segment that is being downloaded is missing.
OwnsMissing == \A t \in Threads, s \in Segs :
                 Owns(t, s) /\ pc[t] # "untrack" => s \notin seg

FreeingSaved == \A r \in Readers : pc[r] = "freeing" => meta = seg

OpenNotShutting == cache_opened > 0 => ~shutting_down

\* What is stored, or about to be, are the file's bytes.
StoredAreFile == NoLookalike => /\ BitmapSound
                                /\ \A t \in Threads : recv[t] # "junk"

DataInv == OwnsMissing /\ FreeingSaved /\ StoredAreFile /\ OpenNotShutting

\* What is known of every state by the theorems on the locks, the counters and
\* the list.
Known == LockInv /\ Counted /\ DownloadInv

\* An owner that has not stored its segment owns it because it did, because it
\* has just found it missing, or because a reader passed it on.
LEMMA OwnsMissingStep ==
  ASSUME Known, DataInv, [Next]_vars PROVE OwnsMissing'
<1> /\ PcOK /\ LocalsOK /\ NextInRange /\ MissHolds
    /\ Readers \cap Workers = {}
    /\ Readers \subseteq Threads /\ Workers \subseteq Threads
  BY CacheAssumption
  DEF Known, LockInv, TypeOK, Threads, CacheAssumption
<1> OwnsMissing
  BY DEF DataInv
\* Who does not move, or moves aside, needs no look.
<1>1. ASSUME NEW t \in Threads, UNCHANGED seg,
             \A x \in Threads \ {t} : pc'[x] = pc[x] /\ dl_offset'[x] = dl_offset[x],
             \/ pc'[t] \in AsidePcs \cup {"wait", "untrack"}
             \/ \A s \in Segs : Owns(t, s)' => s \notin seg
      PROVE  OwnsMissing'
  <2>1. SUFFICES ASSUME NEW x \in Threads, NEW s \in Segs, Owns(x, s)',
                        pc'[x] # "untrack"
                 PROVE  s \notin seg
    BY <1>1 DEF OwnsMissing
  <2>2. CASE x = t
    BY <1>1, <2>1, <2>2 DEF Owns, Downloading, AsidePcs
  <2>3. CASE x # t
    <3>1. Owns(x, s) /\ pc[x] # "untrack"
      BY <1>1, <2>1, <2>3 DEF Owns, Downloading
    <3> QED
      BY <3>1 DEF OwnsMissing
  <2> QED
    BY <2>2, <2>3
<1>2. ASSUME NEW r \in Readers,
             \/ ReadCached(r) \/ MissCached(r) \/ JoinDownload(r)
             \/ EarlyReturn(r) \/ DownloadEnded(r) \/ NoDownload(r)
             \/ TrySlot(r) \/ SyncRetry(r) \/ SyncFailed(r) \/ SyncUntrack(r)
             \/ PeekNext(r) \/ TryNextSlot(r) \/ StartRead(r)
             \/ Cache_close(r) \/ SaveAndShutDown(r) \/ FreeCache(r)
      PROVE  OwnsMissing'
  <2>1. /\ UNCHANGED seg /\ \A x \in Threads \ {r} : dl_offset'[x] = dl_offset[x]
        /\ \E label \in AsidePcs \cup {"wait"} : Goto(r, label)
    BY <1>2
    DEF AsidePcs, ReadCached, MissCached, JoinDownload, EarlyReturn,
        DownloadEnded, NoDownload, TrySlot, SyncRetry, SyncFailed, SyncUntrack,
        PeekNext, TryNextSlot, StartRead, Cache_close, SaveAndShutDown,
        FreeCache, Return, files, locals, LocalsOK
  <2> QED
    BY <2>1, <1>1, DownloadAt
<1>3. ASSUME UNCHANGED <<pc, dl_offset, seg>> PROVE OwnsMissing'
  BY <1>3 DEF OwnsMissing, Owns, Downloading
<1>4. ASSUME NEW r \in Readers, AddBg(r) \/ SyncStart(r) \/ AddNext(r)
      PROVE  OwnsMissing'
  <2>1. /\ UNCHANGED seg /\ \A x \in Threads \ {r} : dl_offset'[x] = dl_offset[x]
        /\ \/ \E label \in AsidePcs : Goto(r, label)
           \/ /\ pc[r] \in {"addBg", "syncDl"}
              /\ Goto(r, "launch") \/ Goto(r, "attempt")
              /\ dl_offset'[r] = dl_offset[r]
           \/ /\ Goto(r, "launchNext") /\ dl_offset'[r] = dl_offset[r]
              /\ dl_offset[r] + 1 \notin seg
    BY <1>4
    DEF AsidePcs, AddBg, SyncStart, AddNext, Return, files, locals, LocalsOK,
        Missing, Seg_exist
  <2>2. \/ pc'[r] \in AsidePcs
        \/ \A s \in Segs : Owns(r, s)' => s \notin seg
    BY <2>1, DownloadAt DEF Owns, Downloading, MissHolds, UnderWLock
  <2>3. \A x \in Threads \ {r} : pc'[x] = pc[x]
    BY <2>1, DownloadAt
  <2> QED
    BY <2>1, <2>2, <2>3, <1>1
<1>5. ASSUME NEW r \in Readers, Launch(r) \/ LaunchNext(r) PROVE OwnsMissing'
  <2>1. PICK w \in Workers, label \in {"lockW", "ready"} :
          /\ Cache_bgdl_launcher(r, w, label)
          /\ Owns(r, dl_offset'[w]) /\ pc[r] # "untrack"
          /\ dl_offset'[w] \in Segs
          /\ \A x \in Threads \ {r, w} : dl_offset'[x] = dl_offset[x]
    BY <1>5 DEF Launch, LaunchNext, Owns, NextInRange, LocalsOK
  <2>2. /\ \A x \in Readers : pc'[x] = IF x = r THEN label ELSE pc[x]
        /\ \A x \in Workers : pc'[x] = IF x = w THEN "attempt" ELSE pc[x]
    BY <2>1, LauncherAt
  <2>3. UNCHANGED seg
    BY <1>5 DEF Launch, LaunchNext, files
  <2>4. SUFFICES ASSUME NEW x \in Threads, NEW s \in Segs, Owns(x, s)',
                        pc'[x] # "untrack"
                 PROVE  s \notin seg
    BY <2>3 DEF OwnsMissing
  <2>5. CASE x = w
    BY <2>1, <2>2, <2>4, <2>5 DEF Owns, Downloading, OwnsMissing
  <2>6. CASE x = r
    BY <2>2, <2>4, <2>6 DEF Owns, Downloading
  <2>7. CASE x \notin {r, w}
    BY <2>1, <2>2, <2>4, <2>7 DEF Owns, Downloading, OwnsMissing, Threads
  <2> QED
    BY <2>5, <2>6, <2>7
<1>6. ASSUME NEW r \in Readers, Cache_open(r) PROVE OwnsMissing'
  <2>1. /\ UNCHANGED dl_offset /\ Goto(r, "ready")
        /\ \A x \in Threads : pc'[x] = IF x = r THEN "ready" ELSE pc[x]
    BY <1>6, DownloadAt DEF Cache_open, locals
  <2>2. CASE cache_opened = 0
    <3>1. Quiet
      BY <1>6, <2>2, QuietAt DEF Cache_open, Known
    <3> QED
      BY <2>1, <3>1 DEF Quiet, OwnsMissing, Owns, Downloading
  <2>3. CASE cache_opened # 0
    BY <1>1, <1>6, <2>1, <2>3 DEF Cache_open, AsidePcs
  <2> QED
    BY <2>2, <2>3
<1>7. ASSUME NEW t \in Threads, NEW label \in {"transfer", "attempt", "store"},
             Goto(t, label), pc[t] \in {"attempt", "transfer"},
             UNCHANGED <<dl_offset, seg>>
      PROVE  OwnsMissing'
  <2>1. \A x \in Threads : pc'[x] = IF x = t THEN label ELSE pc[x]
    BY <1>7, DownloadAt
  <2>2. \A s \in Segs : Owns(t, s)' => s \notin seg
    BY <1>7, <2>1 DEF Owns, Downloading, OwnsMissing
  <2> QED
    BY <1>1, <1>7, <2>1, <2>2
<1>8. ASSUME NEW t \in Threads, NEW label \in {"untrack", "post", "idle"},
             Goto(t, label), UNCHANGED seg,
             \A x \in Threads \ {t} : dl_offset'[x] = dl_offset[x]
      PROVE  OwnsMissing'
  BY <1>1, <1>8, DownloadAt DEF AsidePcs
\* The store makes the segment present, and its one owner is at "untrack".
<1>9. ASSUME NEW t \in Threads, Store(t) PROVE OwnsMissing'
  <2>1. /\ pc[t] = "store" /\ UNCHANGED dl_offset
        /\ \A x \in Threads : pc'[x] = IF x = t THEN "untrack" ELSE pc[x]
        /\ seg' \subseteq seg \cup {dl_offset[t]}
    BY <1>9, DownloadAt DEF Store, StoreSegment, locals
  <2>2. SUFFICES ASSUME NEW x \in Threads, NEW s \in Segs, Owns(x, s)',
                        pc'[x] # "untrack"
                 PROVE  s \notin seg'
    BY DEF OwnsMissing
  <2>3. x # t /\ Owns(x, s) /\ pc[x] # "untrack"
    BY <2>1, <2>2 DEF Owns, Downloading
  <2>4. s # dl_offset[t]
    BY <2>1, <2>3
    DEF Known, DownloadInv, SingleDownload, Owns, Downloading, LocalsOK
  <2> QED
    BY <2>1, <2>3, <2>4 DEF OwnsMissing
<1>10. ASSUME NEW t \in Threads, Download(t) PROVE OwnsMissing'
  <2>1. ASSUME NEW reply \in Replies, Attempt(t, reply) PROVE OwnsMissing'
    BY <1>7, <2>1 DEF Attempt, locals, files
  <2>2. CASE ReceiveChunk(t)
    BY <1>3, <2>2 DEF ReceiveChunk, locals, files
  <2>3. CASE TransferOk(t) \/ TransferRetry(t)
    BY <1>7, <2>3 DEF TransferOk, TransferRetry, locals, files
  <2>4. CASE TransferGone(t)
    BY <1>7, <1>8, <2>4 DEF TransferGone, locals, files
  <2> QED
    BY <1>9, <1>10, <2>1, <2>2, <2>3, <2>4 DEF Download
<1>11. ASSUME NEW w \in Workers, Bgdl(w) PROVE OwnsMissing'
  BY <1>8, <1>11 DEF Bgdl, BgUntrack, BgPost, files, locals, LocalsOK
<1>12. ASSUME NEW r \in Readers, SleepAgain(r) \/ CollectSlot(r)
       PROVE  OwnsMissing'
  BY <1>3, <1>12 DEF SleepAgain, CollectSlot, locals, files
<1>13. ASSUME UNCHANGED vars PROVE OwnsMissing'
  BY <1>3, <1>13 DEF vars
<1> QED
  BY <1>2, <1>4, <1>5, <1>6, <1>10, <1>11, <1>12, <1>13
  DEF Next, Reader, ReadStep, CloseStep

\* Only the store, the making of the Cache and its last close touch the files.
LEMMA FilesMove ==
  ASSUME [Next]_vars
  PROVE  \/ UNCHANGED files
         \/ \E t \in Threads : Store(t)
         \/ \E r \in Readers : Cache_open(r) \/ SaveAndShutDown(r)
BY DEF Next, Reader, ReadStep, CloseStep, Bgdl, Download, vars, files,
    StartRead, ReadCached, MissCached, JoinDownload, EarlyReturn, SleepAgain,
    DownloadEnded, NoDownload, TrySlot, AddBg, Launch, SyncRetry, SyncStart,
    SyncFailed, SyncUntrack, PeekNext, TryNextSlot, AddNext, LaunchNext,
    Cache_close, CollectSlot, FreeCache, BgUntrack, BgPost, Attempt,
    ReceiveChunk, TransferOk, TransferGone, TransferRetry

\* A reply that Link_download takes for the range asked for is that range.
LEMMA TakenIsFile ==
  ASSUME TypeOK, NoLookalike, NEW t \in Threads, TransferOk(t)
  PROVE  RightBytes(ts[t].reply, dl_offset[t])
<1>1. /\ ts[t].reply \in Replies \cup {None} /\ dl_offset[t] \in Segs
      /\ ts[t].reply \in Success /\ Body(ts[t].reply) = Chunks
  BY DEF TransferOk, TypeOK, NetOK, Transfer, LocalsOK
<1>2. Chunks \in Nat \ {0} /\ NSegs \in Nat \ {0} /\ None \notin Reply
  BY CacheAssumption DEF CacheAssumption
<1>3. CASE ts[t].reply = "whole"
  <2>1. NSegs * Chunks = Chunks
    BY <1>1, <1>3 DEF Body
  <2>2. NSegs = 1
    BY <1>2, <2>1
  <2>3. dl_offset[t] = 0
    BY <1>1, <2>2 DEF Segs
  <2> QED
    BY <1>3, <2>3 DEF RightBytes
<1>4. ts[t].reply # "unsat"
  BY <1>1, <1>2 DEF Body, NoLookalike, Reply
<1> QED
  BY <1>1, <1>3, <1>4 DEF Success, RightBytes

\* Only TransferOk gives a thread bytes to store.
LEMMA ReceivedStep ==
  ASSUME Known, NoLookalike, [Next]_vars, \A t \in Threads : recv[t] # "junk"
  PROVE  \A t \in Threads : recv'[t] # "junk"
<1> TypeOK /\ NetOK
  BY DEF Known, LockInv, TypeOK
<1>1. ASSUME UNCHANGED recv PROVE \A t \in Threads : recv'[t] # "junk"
  BY <1>1
<1>2. ASSUME NEW t \in Threads, NEW bytes, bytes # "junk",
             recv' = [recv EXCEPT ![t] = bytes]
      PROVE  \A u \in Threads : recv'[u] # "junk"
  BY <1>2 DEF NetOK
<1>3. ASSUME NEW t \in Threads, Download(t)
      PROVE  \A u \in Threads : recv'[u] # "junk"
  <2>1. CASE TransferOk(t)
    <3>1. recv' = [recv EXCEPT ![t] = "file"]
      BY <2>1, TakenIsFile DEF TransferOk
    <3> QED
      BY <1>2, <3>1
  <2>2. CASE TransferGone(t)
    BY <1>2, <2>2 DEF TransferGone
  <2>3. CASE ~(TransferOk(t) \/ TransferGone(t))
    BY <1>1, <1>3, <2>3
    DEF Download, Attempt, ReceiveChunk, TransferRetry, Store, net
  <2> QED
    BY <2>1, <2>2, <2>3
<1>4. ASSUME NEW r \in Readers, Reader(r)
      PROVE  \A u \in Threads : recv'[u] # "junk"
  <2>1. CASE SyncFailed(r) \/ SyncUntrack(r)
    BY <1>2, <2>1 DEF SyncFailed, SyncUntrack, Threads
  <2>2. CASE ~(SyncFailed(r) \/ SyncUntrack(r))
    BY <1>1, <1>4, <2>2
    DEF Reader, ReadStep, CloseStep, net, StartRead, ReadCached, MissCached,
        JoinDownload, EarlyReturn, SleepAgain, DownloadEnded, NoDownload,
        TrySlot, AddBg, Launch, SyncRetry, SyncStart, PeekNext, TryNextSlot,
        AddNext, LaunchNext, Cache_close, CollectSlot, FreeCache,
        SaveAndShutDown, Cache_open
  <2> QED
    BY <2>1, <2>2
<1>5. ASSUME NEW w \in Workers, Bgdl(w)
      PROVE  \A u \in Threads : recv'[u] # "junk"
  BY <1>1, <1>2, <1>5 DEF Bgdl, BgUntrack, BgPost, net, Threads
<1>6. CASE UNCHANGED vars
  BY <1>1, <1>6 DEF vars
<1> QED
  BY <1>3, <1>4, <1>5, <1>6 DEF Next

\* A segment is marked present only once it is whole, and is not written again:
\* who writes it is its owner, and the bitmap does not show it yet.
LEMMA BitmapStep ==
  ASSUME Known, DataInv, [Next]_vars PROVE StoredAreFile'
<1> SUFFICES ASSUME NoLookalike
             PROVE  BitmapSound' /\ \A t \in Threads : recv'[t] # "junk"
  BY DEF StoredAreFile
<1> BitmapSound /\ LocalsOK /\ FilesOK /\ MetaBehind
  BY DEF DataInv, StoredAreFile, Known, LockInv, TypeOK
<1>1. ASSUME UNCHANGED files PROVE BitmapSound'
  BY <1>1 DEF files, BitmapSound
<1>2. ASSUME NEW t \in Threads, Store(t) PROVE BitmapSound'
  <2>1. pc[t] = "store" /\ dl_offset[t] \in Segs /\ recv[t] = "file"
    BY <1>2 DEF Store, LocalsOK, DataInv, StoredAreFile
  <2>2. dl_offset[t] \notin seg
    BY <2>1 DEF DataInv, OwnsMissing, Owns, Downloading
  <2>3. PICK wrote \in BOOLEAN :
          /\ data' = [data EXCEPT ![dl_offset[t]] = IF wrote THEN recv[t] ELSE "torn"]
          /\ seg' = IF wrote THEN seg \cup {dl_offset[t]} ELSE seg
          /\ UNCHANGED meta
    BY <1>2 DEF Store, StoreSegment
  <2>4. /\ \A s \in Segs : s # dl_offset[t] => data'[s] = data[s]
        /\ data'[dl_offset[t]] = IF wrote THEN "file" ELSE "torn"
    BY <2>1, <2>3 DEF FilesOK
  <2> QED
    BY <2>2, <2>3, <2>4 DEF BitmapSound, FilesOK, MetaBehind
<1>3. ASSUME NEW r \in Readers, Cache_open(r) \/ SaveAndShutDown(r)
      PROVE  BitmapSound'
  BY <1>3 DEF Cache_open, SaveAndShutDown, BitmapSound
<1>4. \A t \in Threads : recv'[t] # "junk"
  BY ReceivedStep DEF DataInv, StoredAreFile
<1> QED
  BY <1>1, <1>2, <1>3, <1>4, FilesMove

\* From the last Meta_write until cf_lock is released nobody is left who could
\* store a segment.
LEMMA FreeingStep ==
  ASSUME Known, DataInv, [Next]_vars PROVE FreeingSaved'
<1> PcOK
  BY DEF Known, LockInv, TypeOK
<1>1. ASSUME NEW r \in Readers, pc'[r] = "freeing", pc[r] # "freeing"
      PROVE  meta' = seg'
  <2>1. \A x \in Readers :
          ReadStep(x) \/ StartRead(x) \/ Cache_open(x) \/ Cache_close(x)
            \/ FreeCache(x) => pc'[r] = pc[r] \/ pc'[r] # "freeing"
    BY ReadStays, ReaderAt DEF OpenPcs, Cache_open, Cache_close, FreeCache
  <2>2. \A t \in Threads : Download(t) => pc'[r] = pc[r] \/ pc'[r] # "freeing"
    BY DownloadStays DEF DownloadPcs, Threads
  <2>3. \A w \in Workers : Bgdl(w) => pc'[r] = pc[r]
    BY WorkerAt DEF Bgdl, BgUntrack, BgPost
  <2>4. \E x \in Readers : SaveAndShutDown(x)
    BY <1>1, <2>1, <2>2, <2>3
    DEF Next, Reader, CloseStep, CollectSlot, vars
  <2> QED
    BY <2>4 DEF SaveAndShutDown
<1>2. ASSUME NEW r \in Readers, pc[r] = "freeing", ~UNCHANGED files
      PROVE  meta' = seg'
  <2>1. Quiet /\ cf_lock = r
    BY <1>2, QuietAt DEF Known, Counted, HandlesCounted
  <2>2. \A t \in Threads : ~Store(t)
    BY <2>1 DEF Quiet, Store
  <2>3. \A x \in Readers : ~Cache_open(x)
    BY <2>1, CacheAssumption DEF Cache_open, CacheAssumption, Threads
  <2> QED
    BY <1>2, <2>2, <2>3, FilesMove DEF SaveAndShutDown
<1> QED
  BY <1>1, <1>2 DEF FreeingSaved, DataInv, files

\* While a handle is open the shutting_down flag is not set.
LEMMA ShuttingStep ==
  ASSUME Known, DataInv, [Next]_vars PROVE OpenNotShutting'
<1>1. \A r \in Readers : pc[r] = "closing" => cache_opened = 0
  BY CacheAssumption
  DEF Known, Counted, HandlesCounted, CacheAssumption, Threads
<1>2. ASSUME NEW r \in Readers, ReadStep(r) \/ StartRead(r)
      PROVE  OpenNotShutting'
  BY <1>2, ReadStays
  DEF Known, LockInv, TypeOK, DataInv, OpenNotShutting, handles
<1>3. ASSUME NEW t \in Threads, Download(t) PROVE OpenNotShutting'
  BY <1>3, DownloadStays
  DEF Known, LockInv, TypeOK, DataInv, OpenNotShutting, handles
<1>4. cache_opened \in Nat
  BY CountsAreNat DEF Known, Counted, HandlesCounted
<1>5. ASSUME NEW r \in Readers, Cache_open(r) \/ Cache_close(r) \/ CloseStep(r)
      PROVE  OpenNotShutting'
  BY <1>1, <1>4, <1>5
  DEF DataInv, OpenNotShutting, Cache_open, Cache_close, CloseStep,
      CollectSlot, SaveAndShutDown, FreeCache
<1>6. ASSUME NEW w \in Workers, Bgdl(w) PROVE OpenNotShutting'
  BY <1>6 DEF Bgdl, BgUntrack, BgPost, DataInv, OpenNotShutting, handles
<1>7. ASSUME UNCHANGED vars PROVE OpenNotShutting'
  BY <1>7 DEF vars, DataInv, OpenNotShutting
<1> QED
  BY <1>2, <1>3, <1>5, <1>6, <1>7 DEF Next, Reader

\* The invariants on locks, counters and list, together.
LEMMA KnownInvariant == Spec => []Known
BY LockInvariant, CountersCount, DownloadsTracked, PTL DEF Known

\* The invariant on the files.
THEOREM FilesTold == Spec => []DataInv
<1>1. Init => DataInv
  BY CacheAssumption
  DEF Init, DataInv, OwnsMissing, FreeingSaved, StoredAreFile, BitmapSound,
      OpenNotShutting,
      Threads, CacheAssumption
<1>2. Known /\ DataInv /\ [Next]_vars => DataInv'
  BY OwnsMissingStep, BitmapStep, FreeingStep, ShuttingStep DEF DataInv
<1> QED
  BY KnownInvariant, <1>1, <1>2, PTL DEF Spec

\* BitmapSound: a segment the bitmap shows is whole in the data file, with the
\* file's bytes (Seg_set follows a complete Data_write, in Cache_bgdl and
\* Cache_read_segment, and Link_download's check of the length).
THEOREM BitmapTellsTruth == ASSUME NoLookalike PROVE Spec => []BitmapSound
<1>1. DataInv => BitmapSound
  BY DEF DataInv, StoredAreFile
<1> QED
  BY FilesTold, <1>1, PTL

\* BitsKept: no bit of the open Cache is cleared, and the last close writes them
\* all (Meta_write in Cache_close).
THEOREM NoBitLost == Spec => BitsKept
<1> DEFINE Kept == cache_opened > 0 \/ cf_lock # None
                => /\ seg \subseteq seg'
                   /\ cf_lock # None /\ cf_lock' = None => seg \subseteq meta'
<1>1. ASSUME Known, DataInv, [Next]_vars,
             cache_opened > 0 \/ cf_lock # None
      PROVE  seg \subseteq seg'
  <2>1. \A t \in Threads : Store(t) => seg \subseteq seg'
    BY DEF Store, StoreSegment
  <2>2. \A r \in Readers : Cache_open(r) => seg \subseteq seg'
    BY <1>1 DEF Cache_open
  <2>3. \A r \in Readers : SaveAndShutDown(r) => seg \subseteq seg'
    BY DEF SaveAndShutDown
  <2> QED
    BY <1>1, <2>1, <2>2, <2>3, FilesMove DEF files
<1>2. ASSUME Known, DataInv, [Next]_vars, cf_lock # None, cf_lock' = None
      PROVE  seg \subseteq meta'
  <2>1. \A r \in Readers : ReadStep(r) \/ StartRead(r) => UNCHANGED cf_lock
    BY <1>2, ReadStays DEF Known, LockInv, TypeOK, handles
  <2>2. \A t \in Threads : Download(t) => UNCHANGED cf_lock
    BY <1>2, DownloadStays DEF Known, LockInv, TypeOK, handles
  <2>3. \A w \in Workers : Bgdl(w) => UNCHANGED cf_lock
    BY DEF Bgdl, BgUntrack, BgPost, handles
  <2>4. PICK r \in Readers : FreeCache(r)
    BY <1>2, <2>1, <2>2, <2>3
    DEF Next, Reader, CloseStep, Cache_open, Cache_close, CollectSlot,
        SaveAndShutDown, vars
  <2> QED
    BY <1>2, <2>4 DEF FreeCache, files, DataInv, FreeingSaved
<1>3. Known /\ DataInv /\ [Next]_vars => [Kept]_vars
  BY <1>1, <1>2
<1> QED
  BY KnownInvariant, FilesTold, <1>3, PTL DEF Spec, BitsKept

-----------------------------------------------------------------------------
(* The answers. *)

\* A transfer has received no more than its reply's body.
BodyBounds ==
  \A t \in Threads : pc[t] = "transfer" => ts[t].size <= Body(ts[t].reply)

\* A reader that has stored, or tried to, has the bytes of its download; when
\* the bitmap does not show them the write has failed.
StoredOrFault ==
  \A r \in Readers : pc[r] = "untrack" => /\ recv[r] \in {"file", "junk"}
                                          /\ dl_offset[r] \notin seg => DiskFaults

AnsweredPcs == {"peekNext", "tryNext", "addNext", "launchNext"}

\* The answer of a read is there from the moment the prefetch begins.
AnsweredInPlace ==
  \A r \in Readers : /\ Reading(r) /\ pc[r] \notin AnsweredPcs => send[r] = "none"
                     /\ pc[r] \in AnsweredPcs => send[r] # "none"

AnswerInv == BodyBounds /\ StoredOrFault /\ AnsweredInPlace

\* Only write_memory_callback makes a transfer longer, up to the reply's body.
LEMMA BodyStep == ASSUME Known, BodyBounds, [Next]_vars PROVE BodyBounds'
<1> PcOK /\ NetOK /\ LocalsOK
  BY DEF Known, LockInv, TypeOK
<1>1. ASSUME UNCHANGED ts,
             \A t \in Threads : pc'[t] = "transfer" => pc[t] = "transfer"
      PROVE  BodyBounds'
  BY <1>1 DEF BodyBounds, Body
<1>2. ASSUME NEW r \in Readers, Reader(r) PROVE BodyBounds'
  <2>1. UNCHANGED ts
    BY <1>2
    DEF Reader, ReadStep, CloseStep, net, StartRead, ReadCached, MissCached,
        JoinDownload, EarlyReturn, SleepAgain, DownloadEnded, NoDownload,
        TrySlot, AddBg, Launch, SyncRetry, SyncStart, SyncFailed, SyncUntrack,
        PeekNext, TryNextSlot, AddNext, LaunchNext, Cache_close, CollectSlot,
        FreeCache, SaveAndShutDown, Cache_open
  <2>2. CASE SleepAgain(r) \/ CollectSlot(r)
    BY <1>1, <2>1, <2>2 DEF SleepAgain, CollectSlot
  <2>3. CASE Launch(r) \/ LaunchNext(r)
    <3>1. PICK w \in Workers, label \in {"lockW", "ready"} :
            Cache_bgdl_launcher(r, w, label)
      BY <2>3 DEF Launch, LaunchNext
    <3>2. /\ \A x \in Readers : pc'[x] = IF x = r THEN label ELSE pc[x]
          /\ \A x \in Workers : pc'[x] = IF x = w THEN "attempt" ELSE pc[x]
      BY <3>1, LauncherAt
    <3> QED
      BY <1>1, <2>1, <3>2 DEF Threads
  <2>4. CASE ~(SleepAgain(r) \/ CollectSlot(r) \/ Launch(r) \/ LaunchNext(r))
    <3>1. PICK label \in ReaderPcs \ {"transfer"} : Goto(r, label)
      BY <1>2, <2>4
      DEF Reader, ReadStep, CloseStep, ReaderPcs, StartRead, ReadCached,
          MissCached, JoinDownload, EarlyReturn, DownloadEnded, NoDownload,
          TrySlot, AddBg, SyncRetry, SyncStart, SyncFailed, SyncUntrack,
          PeekNext, TryNextSlot, AddNext, Cache_close, FreeCache,
          SaveAndShutDown, Cache_open, Return
    <3>2. \A x \in Threads : pc'[x] = "transfer" => pc[x] = "transfer"
      BY <3>1, ReaderAt DEF Threads
    <3> QED
      BY <1>1, <2>1, <3>2
  <2> QED
    BY <2>2, <2>3, <2>4
<1>3. ASSUME NEW t \in Threads, Download(t) PROVE BodyBounds'
  <2>1. ASSUME NEW reply \in Replies, Attempt(t, reply) PROVE BodyBounds'
    <3>1. \A x \in Threads : pc'[x] = IF x = t THEN "transfer" ELSE pc[x]
      BY <2>1, DownloadAt DEF Attempt
    <3>2. ts'[t].size = 0 /\ \A x \in Threads \ {t} : ts'[x] = ts[x]
      BY <2>1 DEF Attempt, NetOK
    <3>3. 0 <= Body(ts'[t].reply)
      BY BodyType
    <3> QED
      BY <3>1, <3>2, <3>3 DEF BodyBounds, Body
  <2>2. CASE ReceiveChunk(t)
    <3>1. /\ ts'[t].size = ts[t].size + 1 /\ ts'[t].reply = ts[t].reply
          /\ \A x \in Threads \ {t} : ts'[x] = ts[x]
          /\ UNCHANGED pc /\ ts[t].size < Body(ts[t].reply)
          /\ ts[t].size \in Int
      BY <2>2 DEF ReceiveChunk, NetOK, Transfer
    <3>2. Body(ts[t].reply) \in Int
      BY BodyType
    <3>3. ts'[t].size <= Body(ts'[t].reply)
      BY <3>1, <3>2
    <3> QED
      BY <3>1, <3>3 DEF BodyBounds, Body
  <2>3. CASE TransferOk(t) \/ TransferGone(t) \/ TransferRetry(t)
    <3>1. PICK label \in {"store", "untrack", "attempt"} : Goto(t, label)
      BY <2>3 DEF TransferOk, TransferGone, TransferRetry
    <3>2. \A x \in Threads \ {t} : ts'[x] = ts[x]
      BY <2>3
      DEF TransferOk, TransferGone, TransferRetry,
          Link_download_finish_transfer, NetOK
    <3> QED
      BY <3>1, <3>2, DownloadAt DEF BodyBounds, Body
  <2>4. CASE Store(t)
    BY <1>1, <2>4, DownloadAt DEF Store, net
  <2> QED
    BY <1>3, <2>1, <2>2, <2>3, <2>4 DEF Download
<1>4. ASSUME NEW w \in Workers, Bgdl(w) PROVE BodyBounds'
  <2>1. PICK label \in {"post", "idle"} : Goto(w, label) /\ UNCHANGED ts
    BY <1>4 DEF Bgdl, BgUntrack, BgPost, net
  <2> QED
    BY <1>1, <2>1, DownloadAt DEF Threads
<1>5. CASE UNCHANGED vars
  BY <1>1, <1>5 DEF vars
<1> QED
  BY <1>2, <1>3, <1>4, <1>5 DEF Next

\* Only Store brings a reader to "untrack", and only the reader itself leaves it.
LEMMA StoredStep ==
  ASSUME Known, StoredOrFault, [Next]_vars PROVE StoredOrFault'
<1> /\ PcOK /\ NetOK /\ LocalsOK /\ Readers \cap Workers = {}
    /\ Readers \subseteq Threads
  BY CacheAssumption DEF Known, LockInv, TypeOK, CacheAssumption, Threads
\* Nothing changes for a reader at "untrack".
<1>1. ASSUME NEW r \in Readers, pc'[r] = "untrack", pc[r] = "untrack",
             dl_offset'[r] = dl_offset[r], recv'[r] = recv[r]
      PROVE  /\ recv'[r] \in {"file", "junk"}
             /\ dl_offset'[r] \notin seg' => DiskFaults
  <2>1. ~Quiet
    BY <1>1 DEF Quiet
  <2>2. seg \subseteq seg'
    <3>1. \A t \in Threads : Store(t) => seg \subseteq seg'
      BY DEF Store, StoreSegment
    <3>2. \A x \in Readers : SaveAndShutDown(x) => seg \subseteq seg'
      BY DEF SaveAndShutDown
    <3>3. \A x \in Readers : Cache_open(x) => seg \subseteq seg'
      BY <2>1, QuietAt DEF Cache_open, Known
    <3> QED
      BY <3>1, <3>2, <3>3, FilesMove DEF files
  <2> QED
    BY <1>1, <2>2 DEF StoredOrFault
<1>2. ASSUME \A r \in Readers : pc'[r] = "untrack"
                => /\ pc[r] = "untrack" /\ dl_offset'[r] = dl_offset[r]
                   /\ recv'[r] = recv[r]
      PROVE  StoredOrFault'
  BY <1>1, <1>2 DEF StoredOrFault
<1>3. ASSUME NEW r \in Readers, Reader(r) PROVE StoredOrFault'
  <2>1. /\ \A x \in Readers \ {r} : dl_offset'[x] = dl_offset[x]
        /\ \A x \in Readers \ {r} : recv'[x] = recv[x]
    BY <1>3
    DEF Reader, ReadStep, CloseStep, net, locals, StartRead, ReadCached,
        MissCached, JoinDownload, EarlyReturn, SleepAgain, DownloadEnded,
        NoDownload, TrySlot, AddBg, Launch, SyncRetry, SyncStart, SyncFailed,
        SyncUntrack, PeekNext, TryNextSlot, AddNext, LaunchNext, Cache_close,
        CollectSlot, FreeCache, SaveAndShutDown, Cache_open, Return, LocalsOK,
        NetOK
  <2>2. CASE SleepAgain(r) \/ CollectSlot(r)
    BY <1>2, <2>2 DEF SleepAgain, CollectSlot, locals, net
  <2>3. CASE Launch(r) \/ LaunchNext(r)
    <3>1. PICK w \in Workers, label \in {"lockW", "ready"} :
            Cache_bgdl_launcher(r, w, label)
      BY <2>3 DEF Launch, LaunchNext
    <3>2. \A x \in Readers : pc'[x] = IF x = r THEN label ELSE pc[x]
      BY <3>1, LauncherAt
    <3> QED
      BY <1>2, <2>1, <3>2
  <2>4. CASE ~(SleepAgain(r) \/ CollectSlot(r) \/ Launch(r) \/ LaunchNext(r))
    <3>1. PICK label \in ReaderPcs \ {"untrack"} : Goto(r, label)
      BY <1>3, <2>4
      DEF Reader, ReadStep, CloseStep, ReaderPcs, StartRead, ReadCached,
          MissCached, JoinDownload, EarlyReturn, DownloadEnded, NoDownload,
          TrySlot, AddBg, SyncRetry, SyncStart, SyncFailed, SyncUntrack,
          PeekNext, TryNextSlot, AddNext, Cache_close, FreeCache,
          SaveAndShutDown, Cache_open, Return
    <3> QED
      BY <1>2, <2>1, <3>1, ReaderAt
  <2> QED
    BY <2>2, <2>3, <2>4
<1>4. ASSUME NEW t \in Threads, Download(t), ~Store(t) PROVE StoredOrFault'
  <2>1. UNCHANGED dl_offset /\ \A x \in Threads \ {t} : recv'[x] = recv[x]
    BY <1>4
    DEF Download, Attempt, ReceiveChunk, TransferOk, TransferGone,
        TransferRetry, locals, NetOK
  <2>2. t \in Readers => pc'[t] # "untrack"
    BY <1>4, DownloadAt
    DEF Download, Attempt, ReceiveChunk, TransferOk, TransferGone, TransferRetry
  <2> QED
    BY <1>2, <1>4, <2>1, <2>2, DownloadStays
<1>5. ASSUME NEW t \in Threads, Store(t) PROVE StoredOrFault'
  <2>1. /\ \A x \in Threads : pc'[x] = IF x = t THEN "untrack" ELSE pc[x]
        /\ UNCHANGED <<dl_offset, recv>> /\ recv[t] \in {"file", "junk"}
    BY <1>5, DownloadAt DEF Store, locals, net
  <2>2. dl_offset[t] \notin seg' => DiskFaults
    BY <1>5 DEF Store, StoreSegment
  <2> QED
    BY <1>1, <2>1, <2>2 DEF StoredOrFault
<1>6. ASSUME NEW w \in Workers, Bgdl(w) PROVE StoredOrFault'
  <2>1. /\ \A x \in Readers : pc'[x] = pc[x]
        /\ \A x \in Readers : dl_offset'[x] = dl_offset[x]
        /\ \A x \in Readers : recv'[x] = recv[x]
    BY <1>6, WorkerAt
    DEF Bgdl, BgUntrack, BgPost, locals, net, LocalsOK, NetOK
  <2> QED
    BY <1>2, <2>1
<1>7. CASE UNCHANGED vars
  BY <1>2, <1>7 DEF vars
<1> QED
  BY <1>3, <1>4, <1>5, <1>6, <1>7 DEF Next

\* Data_read, the buffer of a download, and Link_download never answer "none".
LEMMA AnsweredStep ==
  ASSUME Known, StoredOrFault, AnsweredInPlace, [Next]_vars
  PROVE  AnsweredInPlace'
<1> /\ PcOK /\ LocalsOK
  BY DEF Known, LockInv, TypeOK
<1> USE DEF AnsweredPcs, Reading
\* A reader moves and answers, or does not.
<1>1. ASSUME NEW r \in Readers,
             \A x \in Readers \ {r} : pc'[x] = pc[x] /\ send'[x] = send[x],
             /\ Reading(r)' /\ pc'[r] \notin AnsweredPcs => send'[r] = "none"
             /\ pc'[r] \in AnsweredPcs => send'[r] # "none"
      PROVE  AnsweredInPlace'
  BY <1>1 DEF AnsweredInPlace
<1>2. ASSUME UNCHANGED send,
             \A x \in Readers : pc'[x] = pc[x]
      PROVE  AnsweredInPlace'
  BY <1>2 DEF AnsweredInPlace
<1>3. ASSUME NEW r \in Readers, NEW label, Goto(r, label), UNCHANGED send,
             \/ label \in {"closed", "ready", "closing", "freeing"}
             \/ label \in AnsweredPcs /\ pc[r] \in AnsweredPcs
             \/ label \notin AnsweredPcs /\ Reading(r) /\ pc[r] \notin AnsweredPcs
      PROVE  AnsweredInPlace'
  BY <1>1, <1>3, ReaderAt DEF AnsweredInPlace
<1>4. ASSUME NEW r \in Readers, NEW label, Goto(r, label),
             NEW bytes, Answer(r, bytes),
             \/ label = "peekNext" /\ bytes # "none"
             \/ label = "lockW" /\ bytes = "none"
             \/ label \in {"closed", "ready", "closing", "freeing"}
      PROVE  AnsweredInPlace'
  BY <1>1, <1>4, ReaderAt DEF Answer, LocalsOK
<1>5. ASSUME NEW r \in Readers,
             \/ MissCached(r) \/ NoDownload(r) \/ TrySlot(r) \/ AddBg(r)
             \/ SyncRetry(r) \/ SyncStart(r) \/ PeekNext(r) \/ TryNextSlot(r)
             \/ AddNext(r) \/ Cache_open(r) \/ SaveAndShutDown(r) \/ FreeCache(r)
      PROVE  AnsweredInPlace'
  BY <1>3, <1>5
  DEF MissCached, NoDownload, TrySlot, AddBg, SyncRetry, SyncStart, PeekNext,
      TryNextSlot, AddNext, Cache_open, SaveAndShutDown, FreeCache, Return,
      locals
<1>6. ASSUME NEW r \in Readers,
             \/ StartRead(r) \/ ReadCached(r) \/ EarlyReturn(r)
             \/ SyncFailed(r) \/ SyncUntrack(r) \/ Cache_close(r)
      PROVE  AnsweredInPlace'
  <2>1. CASE StartRead(r)
    <3>1. Answer(r, "none") /\ Goto(r, "lockW")
      BY <2>1 DEF StartRead, Answer
    <3> QED
      BY <1>4, <3>1
  <2>2. CASE ReadCached(r)
    BY <1>4, <2>2 DEF ReadCached, Data_read
  <2>3. CASE EarlyReturn(r)
    BY <1>4, <2>3 DEF EarlyReturn, CopiedBytes
  <2>4. CASE SyncFailed(r)
    BY <1>4, <2>4 DEF SyncFailed, Return
  <2>5. CASE SyncUntrack(r)
    <3>1. recv[r] # "none"
      BY <2>5 DEF SyncUntrack, StoredOrFault
    <3> QED
      BY <1>4, <2>5, <3>1 DEF SyncUntrack
  <2>6. CASE Cache_close(r)
    BY <1>4, <2>6 DEF Cache_close
  <2> QED
    BY <1>6, <2>1, <2>2, <2>3, <2>4, <2>5, <2>6
<1>7. ASSUME NEW r \in Readers, JoinDownload(r) PROVE AnsweredInPlace'
  <2>1. PICK a : \/ Answer(r, CopiedBytes(a)) /\ Goto(r, "peekNext")
                 \/ Goto(r, "wait") /\ UNCHANGED send
    BY <1>7 DEF JoinDownload
  <2> QED
    BY <1>3, <1>4, <1>7, <2>1 DEF JoinDownload, CopiedBytes
<1>8. ASSUME NEW r \in Readers, DownloadEnded(r) PROVE AnsweredInPlace'
  BY <1>3, <1>4, <1>8 DEF DownloadEnded, Return, Awake
<1>9. ASSUME NEW r \in Readers, Launch(r) \/ LaunchNext(r)
      PROVE  AnsweredInPlace'
  <2>1. PICK w \in Workers, label \in {"lockW", "ready"} :
          /\ Cache_bgdl_launcher(r, w, label) /\ UNCHANGED send
          /\ label = "lockW" => pc[r] = "launch"
    BY <1>9 DEF Launch, LaunchNext
  <2>2. \A x \in Readers : pc'[x] = IF x = r THEN label ELSE pc[x]
    BY <2>1, LauncherAt
  <2> QED
    BY <1>1, <2>1, <2>2 DEF AnsweredInPlace
<1>10. ASSUME NEW r \in Readers, SleepAgain(r) \/ CollectSlot(r)
       PROVE  AnsweredInPlace'
  BY <1>2, <1>10 DEF SleepAgain, CollectSlot, locals
<1>11. ASSUME NEW t \in Threads, Download(t) PROVE AnsweredInPlace'
  <2>1. UNCHANGED send
    BY <1>11
    DEF Download, Attempt, ReceiveChunk, TransferOk, TransferGone,
        TransferRetry, Store, locals
  <2> QED
    BY <1>11, <2>1, DownloadStays DEF AnsweredInPlace, DownloadPcs, Threads
<1>12. ASSUME NEW w \in Workers, Bgdl(w) PROVE AnsweredInPlace'
  BY <1>2, <1>12, WorkerAt DEF Bgdl, BgUntrack, BgPost, locals
<1>13. CASE UNCHANGED vars
  BY <1>2, <1>13 DEF vars
<1> QED
  BY <1>5, <1>6, <1>7, <1>8, <1>9, <1>10, <1>11, <1>12, <1>13
  DEF Next, Reader, ReadStep, CloseStep

\* The invariant on the answers.
LEMMA AnswersInvariant == Spec => []AnswerInv
<1>1. Init => AnswerInv
  BY CacheAssumption
  DEF Init, AnswerInv, BodyBounds, StoredOrFault, AnsweredInPlace, Reading,
      AnsweredPcs, Threads, CacheAssumption
<1>2. Known /\ AnswerInv /\ [Next]_vars => AnswerInv'
  BY BodyStep, StoredStep, AnsweredStep DEF AnswerInv
<1> QED
  BY KnownInvariant, <1>1, <1>2, PTL DEF Spec

\* A buffer that a reader may copy from holds bytes of the file, if the server
\* is faithful; and what is copied counts as unchecked otherwise.
LEMMA CopiesFile ==
  ASSUME Known, AnswerInv, FaithfulServer, NEW r \in Readers, NEW a \in AdIds,
         CanCopy(r, a)
  PROVE  CopiedBytes(a) = "file"
<1> DEFINE t == ad[a].ts
<1>1. t \in Threads /\ pc[t] = "transfer"
  BY DEF CanCopy, Known, DownloadInv, NoDanglingTransfer, LockInv, TypeOK,
      ListOK, AdNode
<1>2. ts[t].size >= 1 /\ ts[t].size <= Body(ts[t].reply)
  BY <1>1 DEF CanCopy, AnswerInv, BodyBounds, Known, LockInv, TypeOK, LocalsOK,
      NetOK, Transfer
<1>3. ts[t].reply \in Replies \cup {None} /\ ts[t].size \in Nat
  BY <1>1 DEF Known, LockInv, TypeOK, NetOK, Transfer
<1>4. ts[t].reply # "whole" /\ ErrorPage = 0
  BY <1>3, CacheAssumption DEF FaithfulServer, CacheAssumption, Reply
<1>5. ts[t].reply \in {"ok", "short"}
  BY <1>2, <1>3, <1>4 DEF Body
<1> QED
  BY <1>5 DEF CopiedBytes, RightBytes

\* ReadsFileOrError: what Cache_read hands to FUSE is never the body of a reply
\* that Link_download turned down, nor what a failed write left on the disk.
THEOREM ReadsAreRight == ASSUME NoLookalike PROVE Spec => []ReadsFileOrError
<1>1. Init => ReadsFileOrError
  BY DEF Init, ReadsFileOrError
<1>2. ASSUME Known, DataInv, ReadsFileOrError, [Next]_vars
      PROVE  ReadsFileOrError'
  <2> PcOK /\ LocalsOK /\ NetOK
    BY <1>2 DEF Known, LockInv, TypeOK
  <2>1. ASSUME NEW r \in Readers, NEW bytes, Answer(r, bytes), bytes # "junk"
        PROVE  ReadsFileOrError'
    BY <1>2, <2>1 DEF ReadsFileOrError, Answer, LocalsOK
  <2>2. CASE UNCHANGED send
    BY <1>2, <2>2 DEF ReadsFileOrError
  <2>3. ASSUME NEW r \in Readers, ReadCached(r) PROVE ReadsFileOrError'
    <3>1. data[dl_offset[r]] = "file"
      BY <1>2, <2>3
      DEF ReadCached, Seg_exist, DataInv, StoredAreFile, BitmapSound
    <3>2. PICK bytes \in Data_read(dl_offset[r]) : Answer(r, bytes)
      BY <2>3 DEF ReadCached
    <3> QED
      BY <2>1, <3>1, <3>2 DEF Data_read
  <2>4. ASSUME NEW r \in Readers, JoinDownload(r) \/ EarlyReturn(r)
        PROVE  ReadsFileOrError'
    <3>1. PICK a : Answer(r, CopiedBytes(a)) \/ UNCHANGED send
      BY <2>4 DEF JoinDownload, EarlyReturn
    <3>2. CopiedBytes(a) # "junk"
      BY DEF CopiedBytes
    <3> QED
      BY <2>1, <2>2, <3>1, <3>2
  <2>6. ASSUME NEW r \in Readers,
               \/ SyncFailed(r) \/ SyncUntrack(r) \/ DownloadEnded(r)
               \/ StartRead(r) \/ Cache_close(r)
        PROVE  ReadsFileOrError'
    <3>1. recv[r] # "junk"
      BY <1>2 DEF DataInv, StoredAreFile, Threads
    <3>2. StartRead(r) => Answer(r, "none")
      BY DEF StartRead, Answer
    <3> QED
      BY <2>1, <2>2, <2>6, <3>1, <3>2
      DEF SyncFailed, SyncUntrack, DownloadEnded, Cache_close
  <2> QED
    BY <1>2, <2>2, <2>3, <2>4, <2>6
    DEF Next, Reader, ReadStep, CloseStep, Bgdl, Download, vars, locals,
        MissCached, SleepAgain, NoDownload, TrySlot, AddBg, Launch, SyncRetry,
        SyncStart, PeekNext, TryNextSlot, AddNext, LaunchNext, CollectSlot,
        SaveAndShutDown, FreeCache, Cache_open, BgUntrack, BgPost, Attempt,
        ReceiveChunk, TransferOk, TransferGone, TransferRetry, Store
<1> QED
  BY KnownInvariant, FilesTold, <1>1, <1>2, PTL DEF Spec

\* CopiesAreFile: from a server that honours ranges and sends no page with an
\* error, what a waiter copies out of a transfer under way (cache.c:1449-1461)
\* are the file's bytes.
THEOREM CopiesAreRight == ASSUME FaithfulServer PROVE Spec => []CopiesAreFile
<1>1. Init => CopiesAreFile
  BY DEF Init, CopiesAreFile
<1>2. ASSUME Known, AnswerInv, CopiesAreFile, [Next]_vars
      PROVE  CopiesAreFile'
  <2> PcOK /\ LocalsOK /\ NetOK
    BY <1>2 DEF Known, LockInv, TypeOK
  <2>1. ASSUME NEW r \in Readers, NEW bytes, Answer(r, bytes),
               bytes # "unchecked"
        PROVE  CopiesAreFile'
    BY <1>2, <2>1 DEF CopiesAreFile, Answer, LocalsOK
  <2>2. CASE UNCHANGED send
    BY <1>2, <2>2 DEF CopiesAreFile
  <2>3. ASSUME NEW r \in Readers, JoinDownload(r) PROVE CopiesAreFile'
    <3>1. PICK a \in AdIds : \/ CanCopy(r, a) /\ Answer(r, CopiedBytes(a))
                             \/ UNCHANGED send
      BY <1>2, <2>3, FindType DEF JoinDownload, Known, LockInv, TypeOK
    <3> QED
      BY <1>2, <2>1, <2>2, <3>1, CopiesFile
  <2>4. ASSUME NEW r \in Readers, EarlyReturn(r) PROVE CopiesAreFile'
    <3>1. orig_ad[r] \in AdIds
      BY <1>2, <2>4
      DEF EarlyReturn, Awake, Known, DownloadInv, RefsHeld, PointersHeld,
          LocalsOK
    <3> QED
      BY <1>2, <2>1, <2>4, <3>1, CopiesFile DEF EarlyReturn
  <2>5. ASSUME NEW r \in Readers,
               \/ ReadCached(r) \/ SyncFailed(r) \/ SyncUntrack(r)
               \/ DownloadEnded(r) \/ StartRead(r) \/ Cache_close(r)
        PROVE  CopiesAreFile'
    <3>1. recv[r] # "unchecked"
      BY DEF NetOK, Threads
    <3>2. StartRead(r) => Answer(r, "none")
      BY DEF StartRead, Answer
    <3>3. ReadCached(r) => \E bytes \in {"file", "junk", "EIO"} : Answer(r, bytes)
      BY DEF ReadCached, Data_read
    <3> QED
      BY <2>1, <2>2, <2>5, <3>1, <3>2, <3>3
      DEF SyncFailed, SyncUntrack, DownloadEnded, Cache_close
  <2> QED
    BY <1>2, <2>2, <2>3, <2>4, <2>5
    DEF Next, Reader, ReadStep, CloseStep, Bgdl, Download, vars, locals,
        MissCached, SleepAgain, NoDownload, TrySlot, AddBg, Launch, SyncRetry,
        SyncStart, PeekNext, TryNextSlot, AddNext, LaunchNext, CollectSlot,
        SaveAndShutDown, FreeCache, Cache_open, BgUntrack, BgPost, Attempt,
        ReceiveChunk, TransferOk, TransferGone, TransferRetry, Store
<1> QED
  BY KnownInvariant, AnswersInvariant, <1>1, <1>2, PTL DEF Spec

-----------------------------------------------------------------------------
(* SegmentCache implements SegmentStore: the abstract status of a segment   *)
(* follows the bitmap and the owners of downloads, the abstract wish of a   *)
(* reader its program counter and its answer.                               *)

Bits == IF CacheExists THEN seg ELSE meta
Fetched(s) == \E t \in Threads : Owns(t, s)

\* While some thread is in it, there is a Cache.
LEMMA ExistsUnlessQuiet ==
  ASSUME Known PROVE Quiet \/ (CacheExists /\ Bits = seg)
<1>1. cache_opened \in Nat
  BY CountsAreNat DEF Known, Counted, HandlesCounted
<1> QED
  BY <1>1, QuietAt DEF CacheExists, Bits, Known

\* Opening and closing the Cache is not seen in the bits that speak for it.
LEMMA BitsStep ==
  ASSUME Known, DataInv, [Next]_vars
  PROVE  \/ Bits' = Bits
         \/ \E t \in Threads : Store(t) /\ Bits = seg /\ Bits' = seg'
<1> cache_opened \in Nat /\ PcOK
  BY CountsAreNat DEF Known, Counted, HandlesCounted, LockInv, TypeOK
<1>1. ASSUME UNCHANGED handles PROVE CacheExists' = CacheExists
  BY <1>1 DEF handles, CacheExists
<1>2. ASSUME UNCHANGED <<handles, files>> PROVE Bits' = Bits
  BY <1>1, <1>2 DEF Bits, files
<1>3. ASSUME NEW t \in Threads, Download(t), ~Store(t) PROVE Bits' = Bits
  BY <1>2, <1>3, DownloadStays
  DEF Download, Attempt, ReceiveChunk, TransferOk, TransferGone, TransferRetry
<1>4. ASSUME NEW t \in Threads, Store(t) PROVE Bits = seg /\ Bits' = seg'
  <2>1. CacheExists /\ Bits = seg
    BY <1>4, ExistsUnlessQuiet DEF Quiet, Store
  <2>2. CacheExists'
    BY <1>1, <1>4, <2>1 DEF Store
  <2> QED
    BY <2>1, <2>2 DEF Bits
<1>5. ASSUME NEW r \in Readers, ReadStep(r) \/ StartRead(r) PROVE Bits' = Bits
  <2>1. UNCHANGED files
    BY <1>5
    DEF ReadStep, StartRead, ReadCached, MissCached, JoinDownload, EarlyReturn,
        SleepAgain, DownloadEnded, NoDownload, TrySlot, AddBg, Launch,
        SyncRetry, SyncStart, SyncFailed, SyncUntrack, PeekNext, TryNextSlot,
        AddNext, LaunchNext
  <2> QED
    BY <1>2, <1>5, <2>1, ReadStays
<1>6. ASSUME NEW r \in Readers, Cache_open(r) PROVE Bits' = Bits
  <2>1. CacheExists'
    BY <1>6 DEF Cache_open, CacheExists
  <2>2. CASE cache_opened = 0
    BY <1>6, <2>1, <2>2 DEF Cache_open, CacheExists, Bits
  <2>3. CASE cache_opened # 0
    BY <1>6, <2>1, <2>3 DEF Cache_open, CacheExists, Bits
  <2> QED
    BY <2>2, <2>3
<1>7. ASSUME NEW r \in Readers, Cache_close(r) PROVE Bits' = Bits
  <2>1. CacheExists /\ Bits = seg
    BY <1>7, ExistsUnlessQuiet DEF Quiet, Cache_close, Threads
  <2>2. CacheExists' /\ UNCHANGED files
    BY <1>7, <2>1, CacheAssumption
    DEF Cache_close, CacheExists, CacheAssumption, Threads
  <2> QED
    BY <2>1, <2>2 DEF Bits, files
<1>8. ASSUME NEW r \in Readers, SaveAndShutDown(r) PROVE Bits' = Bits
  <2>1. cf_lock # None
    BY <1>8, CacheAssumption
    DEF SaveAndShutDown, Known, Counted, HandlesCounted, CacheAssumption,
        Threads
  <2> QED
    BY <1>8, <2>1 DEF SaveAndShutDown, Bits, CacheExists
<1>9. ASSUME NEW r \in Readers, FreeCache(r) PROVE Bits' = Bits
  <2>1. cf_lock = r /\ meta = seg
    BY <1>9
    DEF FreeCache, Known, Counted, HandlesCounted, DataInv, FreeingSaved
  <2> QED
    BY <1>9, <2>1 DEF FreeCache, Bits, files
<1>10. ASSUME NEW r \in Readers, CollectSlot(r) PROVE Bits' = Bits
  BY <1>10 DEF CollectSlot, Bits, CacheExists, files
<1>11. ASSUME NEW w \in Workers, Bgdl(w) PROVE Bits' = Bits
  BY <1>2, <1>11 DEF Bgdl, BgUntrack, BgPost
<1>12. CASE UNCHANGED vars
  BY <1>2, <1>12 DEF vars, handles, files
<1> QED
  BY <1>3, <1>4, <1>5, <1>6, <1>7, <1>8, <1>9, <1>10, <1>11, <1>12
  DEF Next, Reader, CloseStep

\* Nothing is fetched, or no longer fetched, without a change of the list.
LEMMA FetchedKept ==
  ASSUME Known, [Next]_vars, UNCHANGED active_dls
  PROVE  \A s \in Segs : Fetched(s)' <=> Fetched(s)
<1> Typed
  BY DEF Known, LockInv, TypeOK, Typed
<1>1. ListStep
  BY QuietList, EveryListStep DEF Known
<1>2. ASSUME \A t \in Threads : SameOwner(t)
      PROVE  \A s \in Segs : Fetched(s)' <=> Fetched(s)
  BY <1>2 DEF SameOwner, Fetched
<1>3. ASSUME NEW r \in Readers, NEW w \in Workers, Passes(r, w)
      PROVE  \A s \in Segs : Fetched(s)' <=> Fetched(s)
  BY <1>3 DEF Passes, SameOwner, Fetched, Threads
<1>4. ASSUME NEW r \in Readers, NEW a \in AdIds, NEW s \in Segs, Adds(r, a, s)
      PROVE  FALSE
  BY <1>4, FreeUnreferenced DEF Adds, ActiveDownload_add, Known
<1>5. ASSUME NEW t \in Threads, NEW s \in Segs, Removes(t, s) PROVE FALSE
  <2>1. ActiveDownload_find(s) # {}
    BY <1>5 DEF Removes, Known, DownloadInv, SingleDownload
  <2> QED
    BY <1>5, <2>1 DEF Removes, ActiveDownload_remove, ActiveDownload_find
<1> QED
  BY <1>1, <1>2, <1>3, <1>4, <1>5
  DEF ListStep, Keeps, SameThreads, SameThread, Joins, Leaves, Starts, Finishes

\* Putting a free node in the list: it is found, for its segment only.
LEMMA AddFinds ==
  ASSUME ListOK, NEW a \in AdIds \ active_dls, NEW s \in Segs,
         ActiveDownload_add(a, s), NEW u \in Segs
  PROVE  ActiveDownload_find(u)' = ActiveDownload_find(u)
                                     \cup (IF u = s THEN {a} ELSE {})
BY DEF ListOK, ActiveDownload_add, ActiveDownload_find, AdNode

\* Untracking the one download of a segment: no other segment's is lost.
LEMMA RemoveFinds ==
  ASSUME ListOK, SingleDownload, NEW s \in Segs, ActiveDownload_find(s) # {},
         ActiveDownload_remove(s), NEW u \in Segs
  PROVE  ActiveDownload_find(u)' = IF u = s THEN {} ELSE ActiveDownload_find(u)
<1>1. PICK a \in ActiveDownload_find(s) :
        /\ active_dls' = active_dls \ {a}
        /\ ad' = ActiveDownload_unref([ad EXCEPT ![a].unlinked = TRUE], a)
  BY DEF ActiveDownload_remove
<1>2. a \in active_dls /\ ad[a].offset = s /\ active_dls \subseteq AdIds
  BY <1>1 DEF ActiveDownload_find, ListOK
<1>3. \A b \in AdIds : b # a => ad'[b] = ad[b]
  BY <1>1 DEF ListOK, ActiveDownload_unref
<1>4. \A b \in ActiveDownload_find(s) : b = a
  BY <1>1 DEF SingleDownload
<1> QED
  BY <1>1, <1>2, <1>3, <1>4 DEF ActiveDownload_find

SameStatus == \A u \in Segs : StatusOf(u)' = StatusOf(u)
Becomes(s, new) == \A u \in Segs : StatusOf(u)' = IF u = s THEN new
                                                           ELSE StatusOf(u)
SameWishes == UNCHANGED send /\ \A r \in Readers : WantOf(r)' = WantOf(r)

\* The list and the bits tell the status of each segment.
LEMMA StatusMoves ==
  ASSUME Bits' = Bits
  PROVE  /\ (\A u \in Segs : \/ u \in Bits
                             \/ ActiveDownload_find(u)' = {}
                                <=> ActiveDownload_find(u) = {}) => SameStatus
         /\ \A s \in Segs :
              /\ s \notin Bits
              /\ \A u \in Segs : u # s => ActiveDownload_find(u)'
                                            = ActiveDownload_find(u)
              => /\ /\ ActiveDownload_find(s) = {}
                    /\ ActiveDownload_find(s)' # {}
                    => StatusOf(s) = "absent" /\ Becomes(s, "fetching")
                 /\ /\ ActiveDownload_find(s) # {}
                    /\ ActiveDownload_find(s)' = {}
                    => StatusOf(s) = "fetching" /\ Becomes(s, "absent")
<1>1. ASSUME NEW u \in Segs
      PROVE  /\ StatusOf(u) = IF u \in Bits THEN "present"
                              ELSE IF ActiveDownload_find(u) = {} THEN "absent"
                              ELSE "fetching"
             /\ StatusOf(u)' = IF u \in Bits' THEN "present"
                               ELSE IF ActiveDownload_find(u)' = {} THEN "absent"
                               ELSE "fetching"
  BY DEF StatusOf, Bits
<1> QED
  BY <1>1 DEF SameStatus, Becomes

\* A step that does not touch the list shows nobody another status, except the
\* store.
LEMMA StatusKept ==
  ASSUME Known, Known', DataInv, [Next]_vars, UNCHANGED active_dls,
         UNCHANGED seg \/ \A t \in Threads : ~Store(t)
  PROVE  SameStatus
<1>1. Bits' = Bits
  BY BitsStep
<1>2. \A u \in Segs : Fetched(u)' <=> Fetched(u)
  BY FetchedKept
<1>3. \A u \in Segs : ActiveDownload_find(u)' = {} <=> ActiveDownload_find(u) = {}
  BY <1>2 DEF Known, DownloadInv, SingleDownload, Fetched
<1> QED
  BY <1>1, <1>3, StatusMoves

\* A reader's wish stays while the reader goes on without an answer, once it has
\* the answer, and while it is not reading.
LEMMA WishKept ==
  ASSUME NEW r \in Readers, send'[r] = send[r],
         \/ /\ Reading(r) <=> Reading(r)'
            /\ dl_offset'[r] = dl_offset[r]
         \/ ~Reading(r) /\ ~Reading(r)'
         \/ send[r] # "none"
  PROVE  WantOf(r)' = WantOf(r)
BY DEF WantOf

\* A reader moves and nobody's wish changes.
LEMMA ReaderWishes ==
  ASSUME PcOK, NEW r \in Readers, UNCHANGED send, NEW label, Goto(r, label),
         \A x \in Readers \ {r} : dl_offset'[x] = dl_offset[x],
         \/ dl_offset'[r] = dl_offset[r] /\ (Reading(r) <=> Reading(r)')
         \/ ~Reading(r) /\ ~Reading(r)'
         \/ send[r] # "none"
  PROVE  SameWishes
<1>1. \A x \in Readers \ {r} : pc'[x] = pc[x]
  BY ReaderAt
<1>2. \A x \in Readers \ {r} : WantOf(x)' = WantOf(x)
  BY <1>1 DEF WantOf, Reading
<1>3. WantOf(r)' = WantOf(r)
  BY DEF WantOf
<1> QED
  BY <1>2, <1>3 DEF SameWishes

\* With statuses and wishes as they were nothing happens to the promise.
LEMMA PromiseKeeps ==
  ASSUME SameStatus, SameWishes PROVE UNCHANGED Promise!vars
BY DEF SameStatus, SameWishes, Promise!vars

\* One segment's status changes, and so it does in the promise.
LEMMA PromiseBecomes ==
  ASSUME NEW s \in Segs, NEW new, Becomes(s, new)
  PROVE  Promise!Become(s, new)
BY DEF Becomes, Promise!Become

\* No reader asks for anything, nor is answered.
LEMMA PromiseWishes ==
  ASSUME SameWishes
  PROVE  UNCHANGED <<[r \in Readers |-> WantOf(r)], send>>
BY DEF SameWishes

\* No segment's status changes.
LEMMA PromiseStatus ==
  ASSUME SameStatus PROVE UNCHANGED [s \in Segs |-> StatusOf(s)]
BY DEF SameStatus

\* A reader that was waiting is answered, and no other is.
LEMMA PromiseReplies ==
  ASSUME NEW r \in Readers, NEW bytes, Answer(r, bytes),
         WantOf(r) # None, WantOf(r)' = None,
         \A x \in Readers \ {r} : WantOf(x)' = WantOf(x)
  PROVE  Promise!Reply(r, bytes)
<1>1. [x \in Readers |-> WantOf(x)][r] # None
  OBVIOUS
<1>2. \A x \in Readers : WantOf(x)' = IF x = r THEN None ELSE WantOf(x)
  OBVIOUS
<1>3. [x \in Readers |-> WantOf(x)']
        = [[x \in Readers |-> WantOf(x)] EXCEPT ![r] = None]
  BY <1>2
<1> QED
  BY <1>1, <1>3 DEF Promise!Reply, Answer

\* The steps of a reader that the promise does not see.
LEMMA ReaderUnseen ==
  ASSUME Known, Known', DataInv, AnswerInv, [Next]_vars, NEW r \in Readers,
         \/ MissCached(r) \/ NoDownload(r) \/ TrySlot(r) \/ Launch(r)
         \/ SyncRetry(r) \/ SleepAgain(r) \/ DownloadEnded(r)
         \/ PeekNext(r) \/ TryNextSlot(r) \/ LaunchNext(r)
         \/ Cache_open(r) \/ CollectSlot(r) \/ SaveAndShutDown(r)
         \/ FreeCache(r)
         \/ JoinDownload(r) /\ UNCHANGED send
         \/ (AddBg(r) \/ AddNext(r)) /\ UNCHANGED active_dls
  PROVE  SameStatus /\ SameWishes
<1> /\ PcOK /\ LocalsOK /\ NextInRange /\ r \in Threads
    /\ Readers \cap Workers = {}
  BY CacheAssumption DEF Known, LockInv, TypeOK, Threads, CacheAssumption
<1> USE DEF Reading
<1>1. CASE \/ MissCached(r) \/ NoDownload(r) \/ TrySlot(r) \/ SyncRetry(r)
           \/ JoinDownload(r) /\ UNCHANGED send
           \/ AddBg(r) /\ UNCHANGED active_dls
  <2>1. UNCHANGED <<active_dls, seg, send, dl_offset>> /\ Reading(r)
    BY <1>1
    DEF MissCached, NoDownload, TrySlot, SyncRetry, JoinDownload, AddBg, list,
        files, locals
  <2>2. PICK label \in {"lockW", "findAd", "wait", "trySlot", "addBg", "launch",
                        "syncDl", "peekNext"} : Goto(r, label)
    BY <1>1 DEF MissCached, NoDownload, TrySlot, SyncRetry, JoinDownload, AddBg
  <2>3. Reading(r)'
    BY <2>2, ReaderAt
  <2> QED
    BY <2>1, <2>2, <2>3, StatusKept, ReaderWishes
<1>2. CASE \/ PeekNext(r) \/ TryNextSlot(r)
           \/ AddNext(r) /\ UNCHANGED active_dls
  <2>1. /\ UNCHANGED <<active_dls, seg, send>> /\ send[r] # "none"
        /\ \A x \in Readers \ {r} : dl_offset'[x] = dl_offset[x]
    BY <1>2
    DEF PeekNext, TryNextSlot, AddNext, Return, list, files, LocalsOK,
        AnswerInv, AnsweredInPlace, AnsweredPcs, Threads
  <2>2. \E label : Goto(r, label)
    BY <1>2 DEF PeekNext, TryNextSlot, AddNext, Return
  <2> QED
    BY <2>1, <2>2, StatusKept, ReaderWishes
<1>3. CASE Launch(r) \/ LaunchNext(r)
  <2>1. PICK w \in Workers, label \in {"lockW", "ready"} :
          /\ Cache_bgdl_launcher(r, w, label)
          /\ \A x \in Readers \ {r} : dl_offset'[x] = dl_offset[x]
          /\ \/ label = "lockW" /\ dl_offset'[r] = dl_offset[r]
                /\ pc[r] = "launch"
             \/ send[r] # "none"
    BY <1>3
    DEF Launch, LaunchNext, LocalsOK, AnswerInv, AnsweredInPlace, AnsweredPcs,
        Threads
  <2>2. \A x \in Readers : pc'[x] = IF x = r THEN label ELSE pc[x]
    BY <2>1, LauncherAt
  <2>3. UNCHANGED <<active_dls, seg, send>>
    BY <1>3 DEF Launch, LaunchNext, files
  <2>4. \A x \in Readers : WantOf(x)' = WantOf(x)
    BY <2>1, <2>2, <2>3 DEF WantOf
  <2> QED
    BY <2>3, <2>4, StatusKept DEF SameWishes
<1>4. CASE SleepAgain(r) \/ CollectSlot(r)
  <2>1. UNCHANGED <<active_dls, seg, send, pc, dl_offset>>
    BY <1>4 DEF SleepAgain, CollectSlot, list, files, locals
  <2> QED
    BY <2>1, StatusKept DEF SameWishes, WantOf
<1>5. CASE DownloadEnded(r)
  <2>1. ~shutting_down
    <3>1. pc[r] \in OpenPcs
      BY <1>5 DEF DownloadEnded, Awake, OpenPcs, ReaderPcs
    <3>2. cache_opened > 0
      BY <3>1, FiniteThreads, CountType
      DEF Known, Counted, HandlesCounted, Opened
    <3> QED
      BY <3>2 DEF DataInv, OpenNotShutting
  <2>2. /\ Goto(r, "relockW") /\ pc[r] = "wait"
        /\ UNCHANGED <<active_dls, seg, send, dl_offset>>
    BY <1>5, <2>1 DEF DownloadEnded, Awake, files
  <2> QED
    BY <2>2, StatusKept, ReaderWishes, ReaderAt
<1>6. CASE Cache_open(r) \/ SaveAndShutDown(r) \/ FreeCache(r)
  <2>1. /\ UNCHANGED <<send, dl_offset>> /\ ~Reading(r)
        /\ \E label \in {"ready", "freeing", "closed"} : Goto(r, label)
    BY <1>6 DEF Cache_open, SaveAndShutDown, FreeCache, locals
  <2>2. SameWishes
    BY <2>1, ReaderWishes, ReaderAt
  <2>3. \/ UNCHANGED <<active_dls, seg>>
        \/ Quiet /\ active_dls' = {}
    BY <1>6, QuietAt
    DEF Cache_open, SaveAndShutDown, FreeCache, list, files, Known, Counted,
        SlotsCounted
  <2>4. Quiet => /\ active_dls = {}
                 /\ \A t \in Threads : ~Store(t)
    BY QuietList DEF Known, LockInv, TypeOK, Typed, Quiet, Store
  <2> QED
    BY <2>2, <2>3, <2>4, StatusKept
<1> QED
  BY <1>1, <1>2, <1>3, <1>4, <1>5, <1>6

\* A download that is put in the list begins a fetch, of a segment that is
\* neither present nor on its way.
LEMMA FetchSeen ==
  ASSUME Known, Known', DataInv, AnswerInv, [Next]_vars, NEW r \in Readers,
         AddBg(r) \/ SyncStart(r) \/ AddNext(r)
  PROVE  UNCHANGED active_dls \/ \E s \in Segs : Promise!Fetch(s)
<1> /\ PcOK /\ LocalsOK /\ ListOK /\ MissHolds /\ r \in Threads
  BY DEF Known, LockInv, TypeOK, Threads
<1>1. \/ UNCHANGED active_dls
      \/ \E a \in AdIds, s \in Segs :
            /\ ActiveDownload_find(s) = {} /\ ActiveDownload_add(a, s)
            /\ s \notin seg
            /\ Goto(r, "launch") \/ Goto(r, "attempt") \/ Goto(r, "launchNext")
            /\ UNCHANGED <<dl_offset, send, seg>>
  BY DEF AddBg, SyncStart, AddNext, Missing, Seg_exist, MissHolds, UnderWLock,
      LocalsOK, locals, files
<1>2. SUFFICES ASSUME NEW a \in AdIds, NEW s \in Segs,
                      ActiveDownload_find(s) = {}, ActiveDownload_add(a, s),
                      s \notin seg,
                      \/ Goto(r, "launch") \/ Goto(r, "attempt")
                      \/ Goto(r, "launchNext"),
                      UNCHANGED <<dl_offset, send, seg>>
               PROVE  Promise!Fetch(s)
  BY <1>1
<1>3. Reading(r) /\ pc[r] \notin {"closed", "closing", "freeing", "idle"}
  BY DEF Reading, AddBg, SyncStart, AddNext
<1>4. SameWishes
  BY <1>2, <1>3, ReaderWishes, ReaderAt DEF Reading
<1>5. Bits = seg /\ Bits' = Bits
  BY <1>2, <1>3, ExistsUnlessQuiet, BitsStep DEF Quiet
<1>6. a \notin active_dls
  BY <1>2, FreeUnreferenced DEF ActiveDownload_add, Known
<1>7. \A u \in Segs : ActiveDownload_find(u)' = ActiveDownload_find(u)
                                               \cup (IF u = s THEN {a} ELSE {})
  BY <1>2, <1>6, AddFinds
<1>8. StatusOf(s) = "absent" /\ Becomes(s, "fetching")
  BY <1>2, <1>5, <1>7, StatusMoves
<1> QED
  BY <1>4, <1>8, PromiseBecomes, PromiseWishes DEF Promise!Fetch

\* Untracking the download of a segment that is not present aborts its fetch.
LEMMA RemoveSeen ==
  ASSUME Known, Bits' = Bits, NEW s \in Segs, NEW t \in Threads, Owns(t, s),
         ActiveDownload_remove(s)
  PROVE  /\ s \in Bits => StatusOf(s) = "present" /\ SameStatus
         /\ s \notin Bits => StatusOf(s) = "fetching" /\ Becomes(s, "absent")
<1>1. ActiveDownload_find(s) # {} /\ SingleDownload /\ ListOK
  BY DEF Known, DownloadInv, SingleDownload, LockInv, TypeOK
<1>2. \A u \in Segs : ActiveDownload_find(u)'
                        = IF u = s THEN {} ELSE ActiveDownload_find(u)
  BY <1>1, RemoveFinds
<1>3. s \in Bits => StatusOf(s) = "present" /\ SameStatus
  BY <1>2, StatusMoves DEF StatusOf, Bits
<1> QED
  BY <1>1, <1>2, <1>3, StatusMoves

\* The store of a segment lands its fetch, when every byte could be written.
LEMMA StoreSeen ==
  ASSUME Known, Known', DataInv, [Next]_vars, NEW t \in Threads, Store(t)
  PROVE  \/ UNCHANGED Promise!vars
         \/ \E s \in Segs : Promise!Land(s)
<1> DEFINE s == dl_offset[t]
<1> /\ PcOK /\ s \in Segs /\ Owns(t, s)
  BY DEF Known, LockInv, TypeOK, LocalsOK, Store, Owns, Downloading
<1>1. /\ pc[t] = "store" /\ UNCHANGED <<active_dls, ad, dl_offset, send, handles>>
      /\ \A x \in Threads : pc'[x] = IF x = t THEN "untrack" ELSE pc[x]
      /\ seg' = seg \/ seg' = seg \cup {s}
  BY DownloadAt DEF Store, StoreSegment, list, locals
<1>2. SameWishes
  <2>1. ASSUME NEW x \in Readers PROVE WantOf(x)' = WantOf(x)
    BY <1>1 DEF WantOf, Reading, Threads
  <2> QED
    BY <1>1, <2>1 DEF SameWishes
<1>3. CacheExists /\ CacheExists' /\ s \notin seg
  BY <1>1, ExistsUnlessQuiet
  DEF Quiet, CacheExists, handles, DataInv, OwnsMissing
<1>4. \A u \in Segs : ActiveDownload_find(u)' = ActiveDownload_find(u)
  BY <1>1 DEF ActiveDownload_find
<1>5. ActiveDownload_find(s) # {}
  BY DEF Known, DownloadInv, SingleDownload
<1>6. CASE seg' = seg
  <2>1. SameStatus
    BY <1>3, <1>4, <1>6 DEF SameStatus, StatusOf
  <2> QED
    BY <1>2, <2>1, PromiseKeeps
<1>7. CASE seg' = seg \cup {s}
  <2>1. StatusOf(s) = "fetching" /\ Becomes(s, "present")
    BY <1>3, <1>4, <1>5, <1>7 DEF Becomes, StatusOf
  <2> QED
    BY <1>2, <2>1, PromiseBecomes, PromiseWishes DEF Promise!Land
<1> QED
  BY <1>1, <1>6, <1>7

\* A reader that answers gets its wish off the list of wishes.
LEMMA ReplySeen ==
  ASSUME Known, AnswerInv, NEW r \in Readers, NEW bytes, Answer(r, bytes),
         Reading(r), pc[r] \notin AnsweredPcs,
         \/ Goto(r, "ready") \/ (Goto(r, "peekNext") /\ bytes # "none"),
         \A x \in Readers \ {r} : dl_offset'[x] = dl_offset[x]
  PROVE  WantOf(r) = dl_offset[r] /\ Promise!Reply(r, bytes)
<1> PcOK /\ LocalsOK
  BY DEF Known, LockInv, TypeOK
<1>1. WantOf(r) = dl_offset[r] /\ dl_offset[r] # None
  BY CacheAssumption
  DEF WantOf, AnswerInv, AnsweredInPlace, LocalsOK, CacheAssumption, Threads
<1>2. /\ \A x \in Readers \ {r} : pc'[x] = pc[x]
      /\ pc'[r] = "ready" \/ (pc'[r] = "peekNext" /\ bytes # "none")
  BY ReaderAt
<1>3. /\ \A x \in Readers \ {r} : send'[x] = send[x]
      /\ send'[r] = bytes
  BY DEF Answer, LocalsOK
<1>4. WantOf(r)' = None
  BY <1>2, <1>3 DEF WantOf, Reading
<1>5. \A x \in Readers \ {r} : WantOf(x)' = WantOf(x)
  BY <1>2, <1>3 DEF WantOf, Reading
<1> QED
  BY <1>1, <1>4, <1>5, PromiseReplies

\* A reader that finds the segment stored, or in the buffer of a download, gets
\* the bytes of a segment that is present or on its way, or the disk's error; from
\* the buffer, unchecked bytes if the server is not faithful.
LEMMA GiveSeen ==
  ASSUME Known, Known', DataInv, AnswerInv, NoLookalike, [Next]_vars,
         NEW r \in Readers,
         ReadCached(r) \/ JoinDownload(r) \/ EarlyReturn(r)
  PROVE  \/ JoinDownload(r) /\ UNCHANGED send
         \/ Promise!Give(r) \/ Promise!GiveUnchecked(r) \/ Promise!DiskError(r)
<1> DEFINE s == dl_offset[r]
<1> s \in Segs /\ PcOK /\ ListOK /\ LocalsOK
  BY DEF Known, LockInv, TypeOK, LocalsOK, Threads
<1>1. ASSUME NEW bytes, Answer(r, bytes), Goto(r, "peekNext"), Reading(r),
             pc[r] \notin AnsweredPcs, UNCHANGED <<active_dls, seg, dl_offset>>,
             \/ bytes = "file" /\ StatusOf(s) \in {"fetching", "present"}
             \/ bytes = "unchecked" /\ ~FaithfulServer /\ StatusOf(s) = "fetching"
             \/ bytes = "EIO" /\ DiskFaults /\ StatusOf(s) = "present"
      PROVE  Promise!Give(r) \/ Promise!GiveUnchecked(r) \/ Promise!DiskError(r)
  <2>1. WantOf(r) = s /\ Promise!Reply(r, bytes)
    BY <1>1, ReplySeen
  <2>2. UNCHANGED [u \in Segs |-> StatusOf(u)]
    BY <1>1, StatusKept, PromiseStatus
  <2> HIDE DEF s
  <2>3. [u \in Segs |-> StatusOf(u)][[x \in Readers |-> WantOf(x)][r]]
          = StatusOf(s)
    BY <2>1
  <2> QED
    BY <1>1, <2>1, <2>2, <2>3
    DEF Promise!Give, Promise!GiveUnchecked, Promise!DiskError
<1>2. ASSUME ReadCached(r)
      PROVE  Promise!Give(r) \/ Promise!GiveUnchecked(r) \/ Promise!DiskError(r)
  <2>1. PICK bytes \in Data_read(s) : Answer(r, bytes)
    BY <1>2 DEF ReadCached
  <2>2. /\ s \in seg /\ Goto(r, "peekNext") /\ pc[r] \in {"lockW", "relockW"}
        /\ UNCHANGED <<active_dls, seg, dl_offset>>
    BY <1>2 DEF ReadCached, Seg_exist, list, files
  <2>3. bytes = "file" \/ (bytes = "EIO" /\ DiskFaults)
    BY <2>2 DEF Data_read, DataInv, StoredAreFile, BitmapSound
  <2>4. StatusOf(s) = "present"
    BY <2>2, ExistsUnlessQuiet DEF StatusOf, Bits, Quiet, Threads
  <2> QED
    BY <1>1, <2>1, <2>2, <2>3, <2>4 DEF Reading, AnsweredPcs
<1>3. ASSUME NEW a \in ActiveDownload_find(s), CanCopy(r, a),
             Answer(r, CopiedBytes(a)), Goto(r, "peekNext"),
             pc[r] \in {"findAd", "wait"},
             UNCHANGED <<active_dls, seg, dl_offset>>
      PROVE  Promise!Give(r) \/ Promise!GiveUnchecked(r) \/ Promise!DiskError(r)
  <2>1. \/ CopiedBytes(a) = "file"
        \/ CopiedBytes(a) = "unchecked" /\ ~FaithfulServer
    BY <1>3, FindType, CopiesFile DEF CopiedBytes
  <2>2. PICK t \in Threads : pc[t] = "transfer" /\ ts[t].ad = a
    BY <1>3, FindType
    DEF CanCopy, Known, DownloadInv, NoDanglingTransfer, ListOK, AdNode
  <2>3. dl_offset[t] = s
    BY <1>3, <2>2 DEF Known, DownloadInv, TransferListed, ActiveDownload_find
  <2>4. s \notin seg
    BY <2>2, <2>3 DEF DataInv, OwnsMissing, Owns, Downloading
  <2>5. StatusOf(s) = "fetching"
    BY <1>3, <2>2, <2>4, ExistsUnlessQuiet DEF StatusOf, Bits, Quiet
  <2> QED
    BY <1>1, <1>3, <2>1, <2>5 DEF Reading, AnsweredPcs
<1>4. CASE JoinDownload(r)
  <2>1. PICK a \in ActiveDownload_find(s) :
          \/ /\ CanCopy(r, a) /\ Answer(r, CopiedBytes(a))
             /\ Goto(r, "peekNext")
          \/ UNCHANGED send
    BY <1>4 DEF JoinDownload
  <2> QED
    BY <1>3, <1>4, <2>1 DEF JoinDownload, files
<1>5. CASE EarlyReturn(r)
  <2>1. orig_ad[r] \in ActiveDownload_find(s)
    BY <1>5
    DEF EarlyReturn, Awake, EndWait, Known, DownloadInv, WaitListed
  <2> QED
    BY <1>3, <1>5, <2>1 DEF EarlyReturn, Awake, files
<1> QED
  BY <1>2, <1>4, <1>5

\* A reader that fetched for itself gets its bytes, stored or not, or the error
\* that ended the fetch.
LEMMA SyncSeen ==
  ASSUME Known, Known', DataInv, AnswerInv, NoLookalike, [Next]_vars,
         NEW r \in Readers, SyncFailed(r) \/ SyncUntrack(r)
  PROVE  Promise!Give(r) \/ Promise!GiveUnstored(r) \/ Promise!Refuse(r)
<1> DEFINE s == dl_offset[r]
<1> s \in Segs /\ PcOK /\ ListOK /\ LocalsOK /\ r \in Threads
  BY DEF Known, LockInv, TypeOK, LocalsOK, Threads
<1>1. /\ pc[r] \in {"store", "untrack"} /\ Owns(r, s)
      /\ ActiveDownload_remove(s) /\ UNCHANGED seg
      /\ \A x \in Readers \ {r} : dl_offset'[x] = dl_offset[x]
  <2>1. CASE SyncFailed(r)
    BY <2>1 DEF SyncFailed, Owns, Downloading, files, Return, LocalsOK
  <2>2. CASE SyncUntrack(r)
    BY <2>2 DEF SyncUntrack, Owns, Downloading, files
  <2> QED
    BY <2>1, <2>2
<1>2. Bits = seg /\ Bits' = Bits
  BY <1>1, ExistsUnlessQuiet, BitsStep DEF Quiet
<1>3. /\ s \in seg => StatusOf(s) = "present" /\ SameStatus
      /\ s \notin seg => StatusOf(s) = "fetching" /\ Becomes(s, "absent")
  BY <1>1, <1>2, RemoveSeen
<1>4. ASSUME NEW bytes, WantOf(r) = s, Promise!Reply(r, bytes),
             \/ bytes = "file" /\ (s \notin seg => DiskFaults)
             \/ bytes = "ENOENT" /\ s \notin seg
      PROVE  Promise!Give(r) \/ Promise!GiveUnstored(r) \/ Promise!Refuse(r)
  <2>1. /\ [x \in Readers |-> WantOf(x)][r] = s
        /\ [u \in Segs |-> StatusOf(u)][s] = StatusOf(s)
    BY <1>4
  <2>2. CASE s \in seg
    BY <1>3, <1>4, <2>1, <2>2, PromiseStatus DEF Promise!Give
  <2>3. CASE s \notin seg
    <3>1. Promise!Become(s, "absent")
      BY <1>3, <2>3, PromiseBecomes
    <3> HIDE DEF s
    <3> QED
      BY <1>3, <1>4, <2>1, <2>3, <3>1 DEF Promise!GiveUnstored, Promise!Refuse
  <2> QED
    BY <2>2, <2>3
<1>5. CASE SyncFailed(r)
  <2>1. /\ Answer(r, "ENOENT") /\ Goto(r, "ready") /\ pc[r] = "store"
    BY <1>5 DEF SyncFailed, Return
  <2>2. s \notin seg
    BY <1>1, <2>1 DEF DataInv, OwnsMissing
  <2> QED
    BY <1>1, <1>4, <2>1, <2>2, ReplySeen DEF Reading, AnsweredPcs
<1>6. CASE SyncUntrack(r)
  <2>1. /\ Answer(r, recv[r]) /\ Goto(r, "peekNext") /\ pc[r] = "untrack"
    BY <1>6 DEF SyncUntrack
  <2>2. recv[r] = "file" /\ (s \notin seg => DiskFaults)
    BY <2>1 DEF AnswerInv, StoredOrFault, DataInv, StoredAreFile
  <2>3. WantOf(r) = s /\ Promise!Reply(r, "file")
    BY <1>1, <2>1, <2>2, ReplySeen DEF Reading, AnsweredPcs
  <2> QED
    BY <1>4, <2>2, <2>3
<1> QED
  BY <1>5, <1>6

\* A background thread that untracks a segment it could not store aborts.
LEMMA BgSeen ==
  ASSUME Known, Known', DataInv, [Next]_vars, NEW w \in Workers, Bgdl(w)
  PROVE  \/ UNCHANGED Promise!vars
         \/ \E s \in Segs : Promise!Abort(s)
<1> /\ PcOK /\ LocalsOK /\ w \in Threads /\ w \notin Readers
  BY CacheAssumption
  DEF Known, LockInv, TypeOK, Threads, CacheAssumption
<1>1. SameWishes
  <2>1. /\ UNCHANGED send
        /\ \A x \in Readers : pc'[x] = pc[x] /\ dl_offset'[x] = dl_offset[x]
    <3>1. UNCHANGED send /\ \A x \in Readers : pc'[x] = pc[x]
      BY WorkerAt DEF Bgdl, BgUntrack, BgPost, locals
    <3>2. \A x \in Readers : dl_offset'[x] = dl_offset[x]
      <4>1. \/ UNCHANGED dl_offset
            \/ dl_offset' = [dl_offset EXCEPT ![w] = 0]
        BY DEF Bgdl, BgUntrack, BgPost, locals
      <4> QED
        BY <4>1 DEF LocalsOK, Threads
    <3> QED
      BY <3>1, <3>2
  <2> QED
    BY <2>1 DEF SameWishes, WantOf, Reading
<1>2. CASE BgPost(w)
  <2>1. UNCHANGED <<active_dls, seg>>
    BY <1>2 DEF BgPost, list, files
  <2> QED
    BY <1>1, <2>1, StatusKept, PromiseKeeps
<1>3. CASE BgUntrack(w)
  <2>1. /\ pc[w] = "untrack" /\ UNCHANGED seg
        /\ ActiveDownload_remove(dl_offset[w])
    BY <1>3 DEF BgUntrack, files
  <2>2. Owns(w, dl_offset[w]) /\ dl_offset[w] \in Segs
    BY <2>1 DEF Owns, Downloading, LocalsOK
  <2>3. Bits' = Bits
    BY <2>1, ExistsUnlessQuiet, BitsStep
  <2>4. \/ SameStatus
        \/ StatusOf(dl_offset[w]) = "fetching" /\ Becomes(dl_offset[w], "absent")
    BY <2>1, <2>2, <2>3, RemoveSeen
  <2>5. ASSUME NEW s \in Segs, StatusOf(s) = "fetching", Becomes(s, "absent")
        PROVE  Promise!Abort(s)
    BY <1>1, <2>5, PromiseBecomes, PromiseWishes DEF Promise!Abort
  <2> QED
    BY <1>1, <2>2, <2>4, <2>5, PromiseKeeps
<1> QED
  BY <1>2, <1>3 DEF Bgdl

\* A user asks for a read, or closes its handle and drops its answer.
LEMMA AskSeen ==
  ASSUME Known, Known', DataInv, [Next]_vars, NEW r \in Readers,
         StartRead(r) \/ Cache_close(r)
  PROVE  \/ \E s \in Segs : Promise!Ask(r, s)
         \/ Promise!Forget(r)
<1> /\ PcOK /\ LocalsOK /\ Readers \subseteq Threads
  BY DEF Known, LockInv, TypeOK, Threads
<1>1. /\ pc[r] = "ready" /\ send' = [send EXCEPT ![r] = "none"]
      /\ UNCHANGED <<active_dls, seg>>
  BY DEF StartRead, Cache_close, Answer, list, files
<1>2. UNCHANGED [s \in Segs |-> StatusOf(s)]
  BY <1>1, StatusKept, PromiseStatus
<1>3. WantOf(r) = None /\ [x \in Readers |-> WantOf(x)][r] = None
  BY <1>1 DEF WantOf, Reading
<1>4. ASSUME \A x \in Readers \ {r} : /\ pc'[x] = pc[x]
                                      /\ dl_offset'[x] = dl_offset[x]
      PROVE  \A x \in Readers \ {r} : WantOf(x)' = WantOf(x)
  BY <1>1, <1>4 DEF WantOf, Reading, LocalsOK
<1>5. CASE StartRead(r)
  <2>1. PICK s \in Segs : dl_offset' = [dl_offset EXCEPT ![r] = s]
    BY <1>5 DEF StartRead
  <2>2. pc'[r] = "lockW" /\ \A x \in Readers \ {r} : pc'[x] = pc[x]
    BY <1>5, ReaderAt DEF StartRead
  <2>3. WantOf(r)' = s
    BY <1>1, <2>1, <2>2 DEF WantOf, Reading, LocalsOK
  <2>4. \A x \in Readers : WantOf(x)' = IF x = r THEN s ELSE WantOf(x)
    BY <1>4, <2>1, <2>2, <2>3 DEF LocalsOK
  <2>5. [x \in Readers |-> WantOf(x)']
          = [[x \in Readers |-> WantOf(x)] EXCEPT ![r] = s]
    BY <2>4
  <2> QED
    BY <1>1, <1>2, <1>3, <2>5 DEF Promise!Ask
<1>6. CASE Cache_close(r)
  <2>1. /\ \E label \in {"closed", "closing"} : Goto(r, label)
        /\ UNCHANGED dl_offset
    BY <1>6 DEF Cache_close
  <2>2. /\ pc'[r] \in {"closed", "closing"}
        /\ \A x \in Readers \ {r} : pc'[x] = pc[x]
    BY <2>1, ReaderAt
  <2>3. WantOf(r)' = WantOf(r)
    BY <1>3, <2>2 DEF WantOf, Reading
  <2>4. \A x \in Readers : WantOf(x)' = WantOf(x)
    BY <1>4, <2>1, <2>2, <2>3
  <2>5. UNCHANGED [x \in Readers |-> WantOf(x)]
    BY <2>4
  <2> QED
    BY <1>1, <1>2, <1>3, <2>5 DEF Promise!Forget
<1> QED
  BY <1>5, <1>6

\* Every step is a step of the promise, or is not seen there.
LEMMA PromiseStep ==
  ASSUME NoLookalike, Known, Known', DataInv, AnswerInv, [Next]_vars
  PROVE  [Promise!Next]_(Promise!vars)
<1> PcOK /\ LocalsOK
  BY DEF Known, LockInv, TypeOK
<1>1. ASSUME NEW r \in Readers, Reader(r)
      PROVE  [Promise!Next]_(Promise!vars)
  <2>1. CASE \/ MissCached(r) \/ NoDownload(r) \/ TrySlot(r) \/ Launch(r)
             \/ SyncRetry(r) \/ SleepAgain(r) \/ DownloadEnded(r)
             \/ PeekNext(r) \/ TryNextSlot(r) \/ LaunchNext(r)
             \/ Cache_open(r) \/ CloseStep(r)
    BY <2>1, ReaderUnseen, PromiseKeeps DEF CloseStep
  <2>2. CASE AddBg(r) \/ SyncStart(r) \/ AddNext(r)
    <3>1. UNCHANGED active_dls => ~SyncStart(r)
      BY FreeUnreferenced DEF SyncStart, ActiveDownload_add, Known
    <3>2. UNCHANGED active_dls => UNCHANGED Promise!vars
      BY <2>2, <3>1, ReaderUnseen, PromiseKeeps
    <3>3. \/ UNCHANGED active_dls
          \/ \E s \in Segs : Promise!Fetch(s)
      BY <2>2, FetchSeen
    <3> QED
      BY <3>2, <3>3 DEF Promise!Next
  <2>3. CASE ReadCached(r) \/ JoinDownload(r) \/ EarlyReturn(r)
    <3>1. \/ JoinDownload(r) /\ UNCHANGED send
          \/ Promise!Give(r) \/ Promise!GiveUnchecked(r)
          \/ Promise!DiskError(r)
      BY <2>3, GiveSeen
    <3>2. JoinDownload(r) /\ UNCHANGED send => UNCHANGED Promise!vars
      BY ReaderUnseen, PromiseKeeps
    <3> QED
      BY <3>1, <3>2 DEF Promise!Next
  <2>4. CASE SyncFailed(r) \/ SyncUntrack(r)
    BY <2>4, SyncSeen DEF Promise!Next
  <2>5. CASE StartRead(r) \/ Cache_close(r)
    BY <2>5, AskSeen DEF Promise!Next
  <2> QED
    BY <1>1, <2>1, <2>2, <2>3, <2>4, <2>5 DEF Reader, ReadStep
<1>2. ASSUME NEW t \in Threads, Download(t)
      PROVE  [Promise!Next]_(Promise!vars)
  <2>1. CASE Store(t)
    BY <2>1, StoreSeen DEF Promise!Next
  <2>2. CASE ~Store(t)
    <3>1. /\ UNCHANGED <<active_dls, seg, send, dl_offset>>
          /\ pc[t] \in DownloadPcs /\ pc'[t] \in DownloadPcs
          /\ \A x \in Threads \ {t} : pc'[x] = pc[x]
      BY <1>2, <2>2, DownloadStays
      DEF Download, Attempt, ReceiveChunk, TransferOk, TransferGone,
          TransferRetry, files, locals
    <3>2. SameWishes
      BY <3>1 DEF SameWishes, WantOf, Reading, DownloadPcs, Threads
    <3> QED
      BY <3>1, <3>2, StatusKept, PromiseKeeps
  <2> QED
    BY <2>1, <2>2
<1>3. ASSUME NEW w \in Workers, Bgdl(w) PROVE [Promise!Next]_(Promise!vars)
  BY <1>3, BgSeen DEF Promise!Next
<1>4. CASE UNCHANGED vars
  BY <1>4 DEF vars, Promise!vars, StatusOf, WantOf, CacheExists,
      ActiveDownload_find, Reading
<1> QED
  BY <1>1, <1>2, <1>3, <1>4 DEF Next

\* KeepsPromise: cache.c, with all its locks, lists and threads, is an
\* implementation of SegmentStore, whose answers may be unchecked where the
\* server is not faithful.
THEOREM CacheKeepsPromise == ASSUME NoLookalike PROVE Spec => KeepsPromise
<1>1. Init => Promise!Init
  BY CacheAssumption
  DEF Init, Promise!Init, StatusOf, WantOf, CacheExists, ActiveDownload_find,
      Reading, Threads, CacheAssumption
<1>2. Known /\ Known' /\ DataInv /\ AnswerInv /\ [Next]_vars
        => [Promise!Next]_(Promise!vars)
  BY PromiseStep
<1> QED
  BY KnownInvariant, FilesTold, AnswersInvariant, <1>1, <1>2, PTL
  DEF Spec, KeepsPromise, Promise!Spec
===============================================================================
