--------------------------- MODULE CacheDiskProofs ---------------------------
(***************************************************************************)
(* Proofs about CacheDisk, for any segments and any number of versions.    *)
(*                                                                         *)
(* The invariant follows the files through Cache_open: what each step may  *)
(* assume about them when no call failed (Staged) and in any case          *)
(* (Written), why whatever the metadata file vouches for was fetched under *)
(* its version or later (Fresh), and what an open cache has behind it      *)
(* (Opened, Backed).                                                       *)
(***************************************************************************)
EXTENDS CacheDisk, TLAPS

IsOpen == pc \in {"opened", "flush meta", "flush data"}

Faulty == attempt \in faults

Staged ==
  /\ pc # "failed" => attempt \in {0, 1}
  /\ pc \in {"exist", "clear meta"} /\ attempt = 1 /\ ~Faulty
       => meta = NoMeta /\ data = NoData
  /\ pc \in {"clear meta", "clear data", "drop meta", "drop data"}
       => ~Usable \/ Faulty
  /\ pc \in {"drop meta", "drop data"} /\ attempt = 1 => Faulty
  /\ pc = "drop data" /\ 1 \notin faults => meta = NoMeta
  /\ pc = "clear data" /\ ~Faulty => meta = NoMeta
  /\ pc = "create meta" /\ ~Faulty => meta = NoMeta /\ data = NoData
  /\ pc = "write meta" /\ ~Faulty => data = NoData
  /\ pc = "create data" /\ ~Faulty => meta = MetaOf(link, {}) /\ data = NoData
  /\ pc = "size data" /\ ~Faulty => meta = MetaOf(link, {}) /\ data = EmptyData
  /\ pc = "verify" /\ ~Faulty
       => meta = MetaOf(link, {}) /\ data.size = Length[link]
  /\ pc = "open" /\ attempt = 1 /\ ~Faulty => Usable

Written ==
  /\ pc = "write meta" => meta \in {EmptyMeta, TornMeta}
  /\ pc \in {"create data", "size data", "verify"}
       => meta \in {EmptyMeta, TornMeta, MetaOf(link, {})}
  /\ pc \in {"create meta", "write meta"} /\ ~leftover => data = NoData

Fresh ==
  /\ meta.state # "whole" => meta.bits = {}
  /\ ~leftover /\ meta.state = "whole" =>
       \A s \in Segs : data.holds[s] # Hole => data.holds[s] >= meta.version
  /\ meta.state = "whole" =>
       \A s \in (meta.bits \cup seg) \ Odd :
         data.holds[s] # Hole => data.holds[s] >= meta.version
  /\ \A s \in Segs : tail[s] # Hole => tail[s] >= link

Opened == IsOpen => Usable /\ meta.bits \subseteq seg

Backed ==
  /\ data.size > 0 => \A s \in meta.bits \ Odd : data.holds[s] # Hole
  /\ \A s \in seg \ Odd : data.holds[s] # Hole
  /\ \A s \in Segs \ Odd : tail[s] = Hole

DiskInv ==
  TypeOK /\ Staged /\ Written /\ Fresh /\ Opened /\ Backed /\ OpensInTwo

\* The invariant holds at the start.
LEMMA DiskInit == Init => DiskInv
<1> SUFFICES ASSUME Init PROVE DiskInv OBVIOUS
<1>1. TypeOK
  <2>1. 1 \in Versions BY DiskAssumption DEF DiskAssumption, Versions
  <2>2. NoMeta \in Metas BY DEF NoMeta, Metas
  <2>3. Holes \in Holdings BY DEF Holes, Hole, Holdings
  <2>4. NoData \in Datas BY <2>3 DEF NoData, Datas
  <2>5. remote <= remote BY DEF Init
  <2>6. attempt \in 0..2 BY DEF Init
  <2> QED BY <2>1, <2>2, <2>3, <2>4, <2>5, <2>6 DEF Init, TypeOK, Pcs
<1>2. Staged /\ Written /\ OpensInTwo BY DEF Init, Staged, Written, OpensInTwo
<1>3. Fresh /\ Opened /\ Backed
  BY DEF Init, Fresh, Opened, Backed, IsOpen, NoMeta, NoData, Holes, Hole
<1> QED BY <1>1, <1>2, <1>3 DEF DiskInv

\* What the steps write into a variable is in its range.
LEMMA Shapes ==
  /\ {NoMeta, EmptyMeta, TornMeta} \subseteq Metas
  /\ \A v \in Versions, B \in SUBSET Segs : MetaOf(v, B) \in Metas
  /\ Holes \in Holdings
  /\ NoData \in Datas /\ EmptyData \in Datas
  /\ \A d \in Datas : \A n \in Nat : [d EXCEPT !.size = n] \in Datas
  /\ \A d \in Datas : \A h \in Holdings : [d EXCEPT !.holds = h] \in Datas
BY DEF NoMeta, EmptyMeta, TornMeta, Metas, MetaOf, Holes, Hole, Holdings,
       NoData, EmptyData, Datas

\* A look at the two files removes at most one, and that only when the other
\* is missing or cannot be seen.
LEMMA ExistLooks ==
  ASSUME Exist \/ Verify
  PROVE  /\ meta' \in {meta, NoMeta} /\ data' \in {data, NoData}
         /\ leftover' = (leftover /\ data' # NoData)
         /\ faults' \in {faults, faults \cup {attempt}}
         /\ HasMeta /\ HasData /\ attempt \notin faults'
              => meta' = meta /\ data' = data
         /\ UNCHANGED <<remote, link>>
<1>1. PICK m \in BOOLEAN, d \in BOOLEAN :
         /\ Cache_exist(HasMeta /\ m, HasData /\ d)
         /\ IF m /\ d THEN NoFault ELSE Fault
  BY DEF Exist, Verify
<1>2. UNCHANGED <<remote, link>> BY DEF Exist, Verify, world
<1> QED BY <1>1, <1>2 DEF Cache_exist, NoFault, Fault

\* So is what a flush leaves in the data file.
LEMMA FlushedShape == ASSUME TypeOK PROVE Flushed \in Holdings
BY DEF TypeOK, Flushed, Datas, Holdings

\* A dead process has nothing in memory.
LEMMA Dead ==
  ASSUME Killed
  PROVE  /\ attempt' \in 0..2 /\ pc' \in Pcs
         /\ seg' \in SUBSET Segs /\ tail' \in Holdings
         /\ seg' = {} /\ tail' = Holes
BY Shapes DEF Killed, Pcs, Goto

\* Every step keeps every variable in its range.
LEMMA DiskType == ASSUME DiskInv, [Next]_vars PROVE TypeOK'
<1> USE DEF DiskInv, TypeOK, Pcs, Goto, world, cf, history, Killed
<1>1. CASE ServerChange
  <2> HIDE DEF TypeOK
  <2>1. remote \in Versions /\ link \in Versions /\ link <= remote
    BY DEF TypeOK
  <2>2. remote < MaxVersion /\ remote' = remote + 1 BY <1>1 DEF ServerChange
  <2>3. remote' \in Versions /\ link <= remote'
    BY <2>1, <2>2, DiskAssumption DEF Versions, DiskAssumption
  <2> QED BY <1>1, <2>3 DEF ServerChange, TypeOK
<1>2. CASE Relist BY <1>2 DEF Relist, Versions
<1>3. CASE Kill
  <2>1. UNCHANGED <<remote, link, meta, data, faults, leftover>> BY <1>3 DEF Kill
  <2> HIDE DEF Killed
  <2>2. Killed BY <1>3 DEF Kill
  <2> QED BY <2>1, <2>2, Dead
<1>4. CASE Open BY <1>4 DEF Open
<1>5. CASE Exist
  <2>1. meta' \in Metas /\ data' \in Datas BY <1>5, ExistLooks, Shapes
  <2>2. leftover' \in BOOLEAN /\ UNCHANGED <<remote, link>> BY <1>5, ExistLooks
  <2>3. faults' \in SUBSET (0..2) BY <1>5, ExistLooks
  <2>4. pc' \in {"open", "clear meta"} /\ UNCHANGED <<seg, tail, attempt>>
    BY <1>5 DEF Exist
  <2> QED BY <1>5, <2>1, <2>2, <2>3, <2>4 DEF Exist
<1>f. attempt \in {0, 1} \/ pc = "failed" BY DEF Staged
<1>g. pc # "failed" => faults \cup {attempt} \in SUBSET (0..2)
                       /\ faults \cup {attempt + 1} \in SUBSET (0..2)
  <2> SUFFICES ASSUME pc # "failed"
               PROVE  {attempt, attempt + 1} \subseteq 0..2 /\ faults \subseteq 0..2
    OBVIOUS
  <2>1. attempt = 0 \/ attempt = 1 BY <1>f
  <2> HIDE DEF DiskInv
  <2>2. attempt \in 0..2 /\ attempt + 1 \in 0..2 BY <2>1
  <2>3. faults \subseteq 0..2 BY DEF DiskInv
  <2> QED BY <2>2, <2>3
<1>6. CASE UnlinkMeta
  <2>1. faults' \in SUBSET (0..2)
    BY <1>6, <1>g DEF UnlinkMeta, Fault, FaultOfNext, NoFault
  <2>2. meta' \in Metas BY <1>6, Shapes DEF UnlinkMeta
  <2> QED BY <1>6, <2>1, <2>2 DEF UnlinkMeta
<1>7. CASE UnlinkData
  <2>1. faults' \in SUBSET (0..2) BY <1>7, <1>g DEF UnlinkData, Fault, NoFault
  <2>2. data' \in Datas /\ leftover' \in BOOLEAN BY <1>7, Shapes DEF UnlinkData
  <2> QED BY <1>7, <2>1, <2>2 DEF UnlinkData
<1>8. CASE NextAttempt
  <2> HIDE DEF TypeOK, DiskInv
  <2>1. attempt \in {0, 1} BY <1>8 DEF DiskInv, Staged, NextAttempt
  <2>2. attempt' = attempt + 1 BY <1>8 DEF NextAttempt
  <2>3. attempt' \in 0..2 BY <2>1, <2>2
  <2>4. data' \in Datas /\ leftover' \in BOOLEAN
    BY <1>8, Shapes DEF NextAttempt, TypeOK, DiskInv
  <2>5. faults' \in SUBSET (0..2)
    BY <1>8, <1>g DEF NextAttempt, TypeOK, DiskInv, FaultOfNext, NoFault
  <2> QED BY <1>8, <2>3, <2>4, <2>5 DEF NextAttempt, TypeOK, DiskInv
<1>9. CASE Meta_create BY <1>9, Shapes DEF Meta_create
<1>10. CASE WriteMeta
  <2>1. faults' \in SUBSET (0..2) BY <1>10, <1>g DEF WriteMeta, Fault, NoFault
  <2>2. meta' \in Metas BY <1>10, Shapes DEF WriteMeta
  <2> QED BY <1>10, <2>1, <2>2 DEF WriteMeta
<1>11. CASE Data_create
  <2>1. Length[link] \in Nat BY DiskAssumption DEF DiskAssumption
  <2>2. data' \in Datas BY <1>11, <2>1, Shapes DEF Data_create
  <2>3. faults' \in SUBSET (0..2) BY <1>11, <1>g DEF Data_create, Fault, NoFault
  <2> QED BY <1>11, <2>2, <2>3 DEF Data_create
<1>12. CASE Verify
  <2> HIDE DEF Killed
  <2>1. meta' \in Metas /\ data' \in Datas BY <1>12, ExistLooks, Shapes
  <2>2. leftover' \in BOOLEAN /\ UNCHANGED <<remote, link>>
    BY <1>12, ExistLooks
  <2>3. faults' \in SUBSET (0..2)
    <3>1. faults' \in {faults, faults \cup {attempt}} BY <1>12, ExistLooks
    <3> QED BY <3>1
  <2>4. Killed \/ (pc' = "open" /\ pc = "verify" /\ UNCHANGED <<seg, tail, attempt>>)
    BY <1>12 DEF Verify
  <2>5. CASE Killed BY <2>1, <2>2, <2>3, <2>5, Dead
  <2>6. CASE pc' = "open" /\ pc = "verify" /\ UNCHANGED <<seg, tail, attempt>>
    BY <2>1, <2>2, <2>3, <2>6
  <2> QED BY <2>4, <2>5, <2>6
<1>13. CASE OpenFiles BY <1>13 DEF OpenFiles, Metas
<1>14. CASE OpenFails
  <2>1. faults' \in SUBSET (0..2) BY <1>14, <1>g DEF OpenFails, Fault, NoFault
  <2> QED BY <1>14, <2>1 DEF OpenFails
<1>16. CASE Flush BY <1>16, Shapes, FlushedShape DEF Flush
<1>17. ASSUME NEW s \in Segs, Store(s) PROVE TypeOK'
  <2>1. tail' \in Holdings BY <1>17 DEF Store, Data_write, Holdings, Holes
  <2>2. [Flushed EXCEPT ![s] = remote] \in Holdings
    BY FlushedShape DEF Holdings
  <2>3. data' \in Datas BY <1>17, <2>2, FlushedShape, Shapes DEF Store, Data_write
  <2> QED BY <1>17, <2>1, <2>3 DEF Store
<1>18. CASE Close BY <1>18 DEF Close
<1>19. CASE FlushPart
  <2>1. meta.version \in Versions
    BY <1>19 DEF FlushPart, Opened, IsOpen, Usable
  <2>2. PICK B \in SUBSET seg : meta' = MetaOf(meta.version, meta.bits \cup B)
    BY <1>19 DEF FlushPart
  <2>3. meta.bits \cup B \in SUBSET Segs BY DEF Metas
  <2>4. meta' \in Metas BY <2>1, <2>2, <2>3, Shapes
  <2> QED BY <1>19, <2>4 DEF FlushPart
<1>20. CASE FlushMeta BY <1>20, Shapes DEF FlushMeta
<1>21. CASE FlushData
  <2> HIDE DEF Killed
  <2>1. data' \in Datas BY <1>21, Shapes, FlushedShape DEF FlushData
  <2>2. UNCHANGED <<remote, link, meta, faults, leftover>> BY <1>21 DEF FlushData
  <2>3. Killed BY <1>21 DEF FlushData
  <2> QED BY <2>1, <2>2, <2>3, Dead
<1>22. CASE UNCHANGED vars BY <1>22 DEF vars
<1> QED
  BY <1>1, <1>2, <1>3, <1>4, <1>5, <1>6, <1>7, <1>8, <1>9, <1>10, <1>11,
     <1>12, <1>13, <1>14, <1>16, <1>17, <1>18, <1>19, <1>20, <1>21,
     <1>22 DEF Next

\* While the cache is open, what a flush leaves in the data file is no older
\* than the metadata says, but for the ends that an undeleted file shows.
LEMMA FlushedFresh ==
  ASSUME DiskInv, IsOpen, NEW s \in Segs, Flushed[s] # Hole,
         ~leftover \/ s \in (meta.bits \cup seg) \ Odd
  PROVE  Flushed[s] >= meta.version
<1>1. meta.state = "whole" /\ meta.version = link
  BY DEF DiskInv, Opened, Usable
<1>2. CASE tail[s] # Hole BY <1>1, <1>2 DEF DiskInv, Fresh, Flushed
<1>3. CASE tail[s] = Hole
  <2>1. Flushed[s] = data.holds[s] BY <1>3 DEF Flushed
  <2> QED BY <1>1, <2>1 DEF DiskInv, Fresh
<1> QED BY <1>2, <1>3

\* Whatever the metadata file vouches for was fetched under its version.
LEMMA FreshStep == ASSUME DiskInv, [Next]_vars PROVE Fresh'
<1>1. TypeOK /\ Written /\ Fresh /\ Opened BY DEF DiskInv
<1>2. \A s \in Segs : Holes[s] = Hole BY DEF Holes
<1>3. /\ NoData.holds = Holes /\ EmptyData.holds = Holes
      /\ NoMeta.state # "whole" /\ NoMeta.bits = {}
      /\ EmptyMeta.state # "whole" /\ EmptyMeta.bits = {}
      /\ TornMeta.state # "whole" /\ TornMeta.bits = {}
  BY DEF NoData, EmptyData, NoMeta, EmptyMeta, TornMeta
<1>b. seg \subseteq Segs /\ meta.bits \subseteq Segs BY <1>1 DEF TypeOK, Metas
<1>c. ~IsOpen => seg = {} /\ tail = Holes BY <1>1 DEF TypeOK, IsOpen
<1> USE DEF Fresh
<1>4. CASE ServerChange BY <1>1, <1>4 DEF ServerChange, cf, history
<1>5. CASE Relist
  <2>1. ~IsOpen BY <1>5 DEF Relist, IsOpen
  <2> QED BY <1>1, <1>2, <1>5, <1>c, <2>1 DEF Relist, cf, history
<1>6. CASE Kill BY <1>1, <1>2, <1>6 DEF Kill, Killed, history
<1>7. CASE Open BY <1>1, <1>7 DEF Open, world, cf
<1>8. CASE Exist \/ Verify
  <2>1. ~IsOpen BY <1>8 DEF Exist, Verify, IsOpen
  <2>2. seg' = {} /\ tail' = Holes
    BY <1>8, <1>c, <2>1 DEF Exist, Verify, Killed, cf
  <2>3. meta' \in {meta, NoMeta} /\ data' \in {data, NoData}
        /\ leftover' = (leftover /\ data' # NoData)
    BY <1>8, ExistLooks
  <2>4. meta'.state # "whole" => meta'.bits = {} BY <1>1, <1>3, <2>3
  <2>5. ASSUME meta'.state = "whole" PROVE meta' = meta BY <1>3, <2>3, <2>5
  <2>6. ASSUME NEW s \in Segs, data'.holds[s] # Hole PROVE data' = data
    BY <1>2, <1>3, <2>3, <2>6
  <2>7. data' = data /\ ~leftover' => ~leftover \/ data = NoData BY <2>3
  <2>8. \A s \in Segs : NoData.holds[s] = Hole BY <1>2, <1>3
  <2> QED BY <1>1, <1>2, <1>b, <2>2, <2>4, <2>5, <2>6, <2>7, <2>8
<1>9. CASE UnlinkMeta BY <1>1, <1>3, <1>9 DEF UnlinkMeta, world, cf
<1>10. CASE UnlinkData \/ NextAttempt
  <2>1. \/ data' = NoData
        \/ data' = data /\ leftover' = (data # NoData)
    BY <1>10 DEF UnlinkData, NextAttempt
  <2>2. UNCHANGED <<link, meta, seg, tail>>
    BY <1>10 DEF UnlinkData, NextAttempt, world, cf
  <2>3. \A s \in Segs : NoData.holds[s] = Hole BY <1>2, <1>3
  <2> QED BY <1>1, <1>b, <2>1, <2>2, <2>3
<1>12. CASE Meta_create BY <1>1, <1>3, <1>12 DEF Meta_create, world, cf, history
<1>13. CASE WriteMeta
  <2>1. ~IsOpen BY <1>13 DEF WriteMeta, IsOpen
  <2>2. UNCHANGED <<link, data, seg, tail, leftover>>
    BY <1>13 DEF WriteMeta, world, cf
  <2>3. meta' \in {meta, TornMeta, MetaOf(link, {})} BY <1>13 DEF WriteMeta
  <2>4. CASE meta' \in {meta, TornMeta} BY <1>1, <1>3, <2>2, <2>4
  <2>5. CASE meta' = MetaOf(link, {})
    <3>1. meta'.bits = {} BY <2>5 DEF MetaOf
    <3>2. ~leftover => data = NoData BY <1>1, <1>13 DEF WriteMeta, Written
    <3> QED BY <1>1, <1>2, <1>3, <1>c, <2>1, <2>2, <3>1, <3>2
  <2> QED BY <2>3, <2>4, <2>5
<1>14. CASE Data_create
  <2>1. data'.holds \in {data.holds, Holes}
    BY <1>1, <1>3, <1>14 DEF Data_create, TypeOK, Datas
  <2>2. UNCHANGED <<link, meta, seg, tail, leftover>>
    BY <1>14 DEF Data_create, world, cf
  <2> QED BY <1>1, <1>2, <1>b, <2>1, <2>2
<1>16. CASE OpenFiles BY <1>1, <1>16 DEF OpenFiles, world
<1>17. CASE OpenFails BY <1>1, <1>17 DEF OpenFails, world, cf
<1>18. CASE Flush
  <2>1. data'.holds = Flushed BY <1>1, <1>18 DEF Flush, TypeOK, Datas
  <2>2. IsOpen /\ UNCHANGED <<link, meta, seg, leftover>> /\ tail' = Holes
    BY <1>18 DEF Flush, IsOpen, world, history
  <2>3. meta.state = "whole" BY <1>1, <2>2 DEF Opened, Usable
  <2> QED BY <1>2, <1>b, <2>1, <2>2, <2>3, FlushedFresh
<1>19. ASSUME NEW t \in Segs, Store(t) PROVE Fresh'
  <2>1. IsOpen /\ UNCHANGED <<remote, link, meta, leftover>>
    BY <1>19 DEF Store, IsOpen, world, history
  <2>2. remote >= link /\ meta.state = "whole" /\ meta.version = link
    BY <1>1, <2>1 DEF TypeOK, Versions, Opened, Usable
  <2>3. \A s \in Segs : data'.holds[s] =
          IF s = t /\ t \notin Odd THEN remote ELSE Flushed[s]
    BY <1>1, <1>19 DEF Store, Data_write, TypeOK, Datas, Flushed
  <2>4. \A s \in Segs : tail'[s] = Hole \/ tail'[s] = remote
    BY <1>2, <1>19 DEF Store, Data_write, Holes
  <2>5. seg' = seg \cup {t} BY <1>19 DEF Store
  <2>6. ASSUME NEW s \in Segs, data'.holds[s] # Hole,
               ~leftover \/ s \in (meta.bits \cup seg') \ Odd
        PROVE  data'.holds[s] >= meta.version
    <3>1. CASE s = t /\ t \notin Odd BY <2>2, <2>3, <3>1
    <3>2. CASE ~(s = t /\ t \notin Odd)
      <4>1. Flushed[s] # Hole BY <2>3, <2>6, <3>2
      <4>2. ~leftover \/ s \in (meta.bits \cup seg) \ Odd BY <2>5, <2>6, <3>2
      <4>3. Flushed[s] >= meta.version BY <2>1, <4>1, <4>2, FlushedFresh
      <4> QED BY <2>3, <3>2, <4>3
    <3> QED BY <3>1, <3>2
  <2>7. seg' \subseteq Segs BY <1>b, <2>5
  <2> QED BY <1>b, <2>1, <2>2, <2>4, <2>6, <2>7
<1>20. CASE Close BY <1>1, <1>20 DEF Close, world, cf, history
<1>21. CASE FlushPart
  <2>1. PICK B \in SUBSET seg : meta' = MetaOf(meta.version, meta.bits \cup B)
    BY <1>21 DEF FlushPart
  <2>2. /\ meta'.state = "whole" /\ meta'.version = meta.version
        /\ meta'.bits = meta.bits \cup B
    BY <2>1 DEF MetaOf
  <2>3. meta.state = "whole"
    BY <1>1, <1>21 DEF FlushPart, Opened, IsOpen, Usable
  <2> QED BY <1>1, <1>21, <2>2, <2>3 DEF FlushPart, world, cf, history
<1>22. CASE FlushMeta
  <2>1. IsOpen BY <1>22 DEF FlushMeta, IsOpen
  <2>2. meta.state = "whole" /\ meta.version = link BY <1>1, <2>1 DEF Opened, Usable
  <2>3. /\ meta'.version = meta.version /\ meta'.state = "whole"
        /\ meta'.bits \in {seg, meta.bits}
    <3>1. meta' = MetaOf(link, seg) \/ meta' = meta BY <1>22 DEF FlushMeta
    <3>2. CASE meta' = MetaOf(link, seg) BY <2>2, <3>2 DEF MetaOf
    <3>3. CASE meta' = meta BY <2>2, <3>3
    <3> QED BY <3>1, <3>2, <3>3
  <2> QED BY <1>1, <1>22, <2>2, <2>3 DEF FlushMeta, world, cf, history
<1>23. CASE FlushData
  <2>1. data' = data \/ data'.holds = Flushed
    BY <1>1, <1>23 DEF FlushData, TypeOK, Datas
  <2>2. IsOpen BY <1>23 DEF FlushData, IsOpen
  <2>3. UNCHANGED <<link, meta, leftover>> /\ seg' = {} /\ tail' = Holes
    BY <1>23 DEF FlushData, Killed, world, history
  <2>4. meta.state = "whole" BY <1>1, <2>2 DEF Opened, Usable
  <2>5. CASE data' = data BY <1>1, <1>2, <2>3, <2>5
  <2>6. CASE data'.holds = Flushed
    BY <1>2, <1>b, <2>2, <2>3, <2>4, <2>6, FlushedFresh
  <2> QED BY <2>1, <2>5, <2>6
<1>24. CASE UNCHANGED vars BY <1>1, <1>24 DEF vars
<1> QED
  BY <1>4, <1>5, <1>6, <1>7, <1>8, <1>9, <1>10, <1>12, <1>13, <1>14,
     <1>16, <1>17, <1>18, <1>19, <1>20, <1>21, <1>22, <1>23, <1>24
  DEF Next

\* An open cache could be opened again: its metadata is of the listing's
\* version, and shows nothing that the bitmap in memory does not.
LEMMA OpenedStep == ASSUME DiskInv, [Next]_vars PROVE Opened'
<1>1. TypeOK /\ Opened BY DEF DiskInv
<1> USE DEF Opened, IsOpen, Goto
<1>2. CASE ServerChange BY <1>1, <1>2 DEF ServerChange, Usable, cf
<1>3. CASE Relist BY <1>3 DEF Relist
<1>4. CASE OpenFiles BY <1>4 DEF OpenFiles, Readable, Usable, world
<1>5. CASE Flush
  <2>1. data'.size = data.size BY <1>1, <1>5 DEF Flush, TypeOK, Datas
  <2> QED BY <1>1, <1>5, <2>1 DEF Flush, Usable, world
<1>6. ASSUME NEW s \in Segs, Store(s) PROVE Opened'
  <2>1. data'.size = data.size
    BY <1>1, <1>6 DEF Store, Data_write, TypeOK, Datas
  <2> QED BY <1>1, <1>6, <2>1 DEF Store, Usable, world
<1>7. CASE Close BY <1>1, <1>7 DEF Close, Usable, world, cf
<1>8. CASE FlushPart
  <2>1. PICK B \in SUBSET seg : meta' = MetaOf(meta.version, meta.bits \cup B)
    BY <1>8 DEF FlushPart
  <2>2. /\ meta'.state = "whole" /\ meta'.version = meta.version
        /\ meta'.bits = meta.bits \cup B
    BY <2>1 DEF MetaOf
  <2> QED BY <1>1, <1>8, <2>2 DEF FlushPart, Usable, world, cf
<1>9. CASE FlushMeta
  <2>1. meta' = MetaOf(link, seg) \/ meta' = meta BY <1>9 DEF FlushMeta
  <2>2. CASE meta' = MetaOf(link, seg)
    <3>1. meta'.state = "whole" /\ meta'.version = link /\ meta'.bits = seg
      BY <2>2 DEF MetaOf
    <3> QED BY <1>1, <1>9, <3>1 DEF FlushMeta, Usable, world, cf
  <2>3. CASE meta' = meta BY <1>1, <1>9, <2>3 DEF FlushMeta, Usable, world, cf
  <2> QED BY <2>1, <2>2, <2>3
<1>10. CASE Kill \/ FlushData \/ Open \/ Exist \/ UnlinkMeta \/ UnlinkData
  BY <1>10 DEF Kill, FlushData, Killed, Open, Exist, UnlinkMeta, UnlinkData
<1>11. CASE NextAttempt \/ Meta_create \/ WriteMeta \/ Data_create
  BY <1>11 DEF NextAttempt, Meta_create, WriteMeta, Data_create
<1>12. CASE Verify \/ OpenFails BY <1>12 DEF Verify, Killed, OpenFails
<1>13. CASE UNCHANGED vars BY <1>1, <1>13 DEF vars, Usable
<1> QED
  BY <1>2, <1>3, <1>4, <1>5, <1>6, <1>7, <1>8, <1>9, <1>10, <1>11, <1>12,
     <1>13 DEF Next

\* A bit of a segment of whole blocks, in memory or on disk, has its bytes
\* in the data file.
LEMMA BackedStep == ASSUME DiskInv, [Next]_vars PROVE Backed'
<1>1. TypeOK /\ Written /\ Fresh /\ Opened /\ Backed BY DEF DiskInv
<1>2. \A s \in Segs : Holes[s] = Hole BY DEF Holes
<1>3. ~IsOpen => seg = {} /\ tail = Holes BY <1>1 DEF TypeOK, IsOpen
<1>4. NoMeta.bits = {} /\ EmptyMeta.bits = {} /\ TornMeta.bits = {}
  BY DEF NoMeta, EmptyMeta, TornMeta
<1>5. \A s \in Segs \ Odd : Flushed[s] = data.holds[s]
  BY <1>1 DEF Backed, Flushed
<1>6. seg \subseteq Segs /\ meta.bits \subseteq Segs
  BY <1>1 DEF TypeOK, Metas
<1>d. ~(NoData.size > 0) /\ ~(EmptyData.size > 0) BY DEF NoData, EmptyData
<1>e. IsOpen => data.size > 0
  <2>1. link \in Versions BY <1>1 DEF TypeOK
  <2>2. Length[link] \in Nat \ {0} BY <2>1, DiskAssumption DEF DiskAssumption
  <2>3. data.size \in {-1} \cup Nat BY <1>1 DEF TypeOK, Datas
  <2> QED BY <1>1, <2>2, <2>3 DEF Opened, Usable
<1>0. remote # Hole
  <2>1. remote \in Versions BY <1>1 DEF TypeOK
  <2> QED BY <2>1 DEF Versions, Hole
<1> USE <1>1 DEF Backed, IsOpen
<1>7. CASE ServerChange BY <1>7 DEF ServerChange, cf
<1>8. CASE Relist BY <1>8 DEF Relist, cf
<1>9. CASE Kill BY <1>2, <1>9 DEF Kill, Killed
<1>10. CASE Open BY <1>10 DEF Open, cf
<1>11. CASE Exist \/ Verify
  <2>1. ~IsOpen BY <1>11 DEF Exist, Verify
  <2>2. seg' = {} /\ tail' = Holes
    BY <1>3, <1>11, <2>1 DEF Exist, Verify, Killed, cf
  <2>3. meta' \in {meta, NoMeta} /\ data' \in {data, NoData}
    BY <1>11, ExistLooks
  <2>4. data'.size > 0 => data' = data BY <1>d, <2>3
  <2>5. meta'.bits = meta.bits \/ meta'.bits = {} BY <1>4, <2>3
  <2> QED BY <1>2, <2>2, <2>4, <2>5
<1>12. CASE UnlinkMeta
  <2>1. meta'.bits = meta.bits \/ meta'.bits = {} BY <1>4, <1>12 DEF UnlinkMeta
  <2> QED BY <1>12, <2>1 DEF UnlinkMeta, cf
<1>13. CASE UnlinkData \/ NextAttempt
  <2>1. ~IsOpen /\ UNCHANGED <<meta, seg, tail>>
    BY <1>13 DEF UnlinkData, NextAttempt, cf
  <2>2. data' = NoData \/ data' = data BY <1>13 DEF UnlinkData, NextAttempt
  <2> QED BY <1>3, <1>d, <2>1, <2>2
<1>15. CASE Meta_create BY <1>4, <1>15 DEF Meta_create, cf
<1>16. CASE WriteMeta
  <2>1. meta' \in {meta, TornMeta, MetaOf(link, {})} BY <1>16 DEF WriteMeta
  <2>2. MetaOf(link, {}).bits = {} BY DEF MetaOf
  <2>3. meta'.bits = meta.bits \/ meta'.bits = {} BY <1>4, <2>1, <2>2
  <2> QED BY <1>16, <2>3 DEF WriteMeta, cf
<1>17. CASE Data_create
  <2>1. meta \in {EmptyMeta, TornMeta, MetaOf(link, {})}
    BY <1>17 DEF Data_create, Written
  <2>2. MetaOf(link, {}).bits = {} BY DEF MetaOf
  <2>3. meta.bits = {} BY <1>4, <2>1, <2>2
  <2>4. ~IsOpen BY <1>17 DEF Data_create
  <2> QED BY <1>3, <1>17, <2>3, <2>4 DEF Data_create, cf
<1>19. CASE OpenFiles
  <2>1. link \in Versions BY <1>1 DEF TypeOK
  <2>2. Length[link] \in Nat \ {0} BY <2>1, DiskAssumption DEF DiskAssumption
  <2>3. data.size \in {-1} \cup Nat BY <1>1 DEF TypeOK, Datas
  <2>4. data.size > 0 BY <1>19, <2>2, <2>3 DEF OpenFiles, Readable
  <2> QED BY <1>19, <2>4 DEF OpenFiles
<1>20. CASE OpenFails BY <1>20 DEF OpenFails, cf
<1>21. CASE Flush
  <2>1. data'.holds = Flushed BY <1>21 DEF Flush, TypeOK, Datas
  <2>2. data.size > 0 BY <1>e, <1>21 DEF Flush
  <2> QED BY <1>2, <1>5, <1>6, <1>21, <2>1, <2>2 DEF Flush
<1>22. ASSUME NEW t \in Segs, Store(t) PROVE Backed'
  <2>1. /\ tail' = IF t \in Odd THEN [Holes EXCEPT ![t] = remote] ELSE Holes
        /\ data'.holds = IF t \in Odd THEN Flushed
                                      ELSE [Flushed EXCEPT ![t] = remote]
    BY <1>22 DEF Store, Data_write, TypeOK, Datas
  <2>2. \A s \in Segs \ Odd : tail'[s] = Hole
    BY <1>2, <2>1 DEF Holes
  <2>3. \A s \in Segs \ Odd :
          data'.holds[s] = IF s = t THEN remote ELSE data.holds[s]
    BY <1>5, <2>1 DEF Flushed
  <2>4. seg' = seg \cup {t} /\ meta' = meta BY <1>22 DEF Store
  <2>5. data.size > 0 BY <1>e, <1>22 DEF Store
  <2> QED BY <1>0, <1>6, <2>2, <2>3, <2>4, <2>5
<1>23. CASE Close BY <1>23 DEF Close, cf
<1>24. CASE FlushPart
  <2>1. PICK B \in SUBSET seg : meta' = MetaOf(meta.version, meta.bits \cup B)
    BY <1>24 DEF FlushPart
  <2>2. meta'.bits = meta.bits \cup B BY <2>1 DEF MetaOf
  <2>3. data.size > 0 BY <1>e, <1>24 DEF FlushPart
  <2> QED BY <2>3, <1>24, <2>2 DEF FlushPart, cf
<1>25. CASE FlushMeta
  <2>1. meta' = MetaOf(link, seg) \/ meta' = meta BY <1>25 DEF FlushMeta
  <2>2. meta'.bits = seg \/ meta'.bits = meta.bits BY <2>1 DEF MetaOf
  <2>3. data.size > 0 BY <1>e, <1>25 DEF FlushMeta
  <2> QED BY <1>25, <2>2, <2>3 DEF FlushMeta, cf
<1>26. CASE FlushData
  <2>1. data'.holds \in {data.holds, Flushed}
    BY <1>26 DEF FlushData, TypeOK, Datas
  <2>2. data.size > 0 BY <1>e, <1>26 DEF FlushData
  <2> QED BY <1>2, <1>5, <1>6, <1>26, <2>1, <2>2 DEF FlushData, Killed
<1>27. CASE UNCHANGED vars BY <1>27 DEF vars
<1> QED
  BY <1>7, <1>8, <1>9, <1>10, <1>11, <1>12, <1>13, <1>15, <1>16,
     <1>17, <1>19, <1>20, <1>21, <1>22, <1>23, <1>24, <1>25, <1>26,
     <1>27 DEF Next

\* What was written while a cache is created is of the listing's version,
\* and over old data only where that could not be unlinked.
LEMMA WrittenStep == ASSUME DiskInv, [Next]_vars PROVE Written'
<1>1. Written BY DEF DiskInv
<1> USE <1>1 DEF Written, Goto
<1>2. CASE ServerChange BY <1>2 DEF ServerChange, history
<1>3. CASE Relist BY <1>3 DEF Relist
<1>4. CASE Exist \/ UnlinkMeta \/ NextAttempt \/ Open
  BY <1>4 DEF Exist, UnlinkMeta, NextAttempt, Open
<1>5. CASE Kill \/ Verify \/ FlushData
  BY <1>5 DEF Kill, Verify, FlushData, Killed
<1>6. CASE UnlinkData BY <1>6 DEF UnlinkData
<1>7. CASE Meta_create BY <1>7 DEF Meta_create, history
<1>8. CASE WriteMeta BY <1>8 DEF WriteMeta, world
<1>9. CASE Data_create BY <1>9 DEF Data_create, world
<1>10. CASE OpenFiles \/ OpenFails \/ Close \/ FlushMeta
  BY <1>10 DEF OpenFiles, OpenFails, Close, FlushMeta
<1>11. CASE Flush \/ FlushPart BY <1>11 DEF Flush, FlushPart
<1>12. ASSUME NEW s \in Segs, Store(s) PROVE Written' BY <1>12 DEF Store
<1>13. CASE UNCHANGED vars BY <1>13 DEF vars
<1> QED
  BY <1>2, <1>3, <1>4, <1>5, <1>6, <1>7, <1>8, <1>9, <1>10, <1>11, <1>12,
     <1>13 DEF Next

\* A dead process expects nothing of the files.
LEMMA DeadStaged == ASSUME Killed PROVE Staged' /\ OpensInTwo'
BY DEF Killed, Staged, OpensInTwo, Goto

\* As long as no call fails, each step of Cache_open finds the files as the
\* steps before it left them, and the second attempt does not fail.
LEMMA StagedStep ==
  ASSUME DiskInv, [Next]_vars PROVE Staged' /\ OpensInTwo'
<1>1. TypeOK /\ Staged /\ Written /\ OpensInTwo BY DEF DiskInv
<1>2. Readable <=> Usable BY DEF Readable, Usable
<1>len. Length[link] <= Length[link] /\ Length[link] > 0
  <2>1. link \in Versions BY <1>1 DEF TypeOK
  <2>2. Length[link] \in Nat \ {0} BY <2>1, DiskAssumption DEF DiskAssumption
  <2> QED BY <2>2
<1> USE <1>1 DEF Staged, OpensInTwo, Goto, Faulty, Fault, FaultOfNext, NoFault
<1>3. CASE ServerChange BY <1>3 DEF ServerChange, Usable, history
<1>4. CASE Relist BY <1>4 DEF Relist
<1>5. CASE Kill BY <1>5, DeadStaged DEF Kill
<1>6. CASE Open BY <1>6 DEF Open
<1>7. CASE Exist
  <2>1. attempt \in {0, 1} /\ attempt' = attempt BY <1>7 DEF Exist
  <2>2. /\ pc' \in {"open", "clear meta"}
        /\ pc' = "open" => HasMeta /\ HasData
        /\ pc' = "clear meta" => ~(HasMeta /\ HasData) \/ attempt \in faults'
    BY <1>7 DEF Exist
  <2>3. /\ meta' \in {meta, NoMeta} /\ data' \in {data, NoData}
        /\ attempt \in faults => attempt \in faults'
        /\ UNCHANGED link
    BY <1>7, ExistLooks
  <2>4. attempt = 1 /\ attempt \notin faults'
          => meta = NoMeta /\ meta' = NoMeta /\ data' = NoData
    BY <1>7, <2>3 DEF Exist
  <2>5. ~(HasMeta /\ HasData) => ~Usable'
    <3>1. SUFFICES ASSUME ~(HasMeta /\ HasData), Usable' PROVE FALSE OBVIOUS
    <3>1a. meta' # NoMeta
      <4> HIDE DEF Staged, OpensInTwo
      <4>1. meta'.state = "whole" BY <3>1 DEF Usable
      <4>2. NoMeta.state = "none" BY DEF NoMeta
      <4> QED BY <4>1, <4>2
    <3>1b. Length[link] > 0 /\ data'.size >= Length[link] /\ UNCHANGED link
      BY <1>len, <2>3, <3>1 DEF Usable
    <3>1c. data' # NoData
      <4>1. SUFFICES ASSUME data' = NoData PROVE FALSE OBVIOUS
      <4>2. data'.size = -1 BY <4>1 DEF NoData
      <4>3. Length[link] \in Nat \ {0}
        <5>1. link \in Versions BY DEF TypeOK
        <5> QED BY <5>1, DiskAssumption DEF DiskAssumption
      <4> HIDE DEF Staged
      <4> QED BY <3>1b, <4>2, <4>3
    <3>2. meta' = meta /\ data' = data BY <2>3, <3>1a, <3>1c
    <3>3. data.size \in {-1} \cup Nat BY DEF TypeOK, Datas
    <3>4. Length[link] \in Nat \ {0}
      <4>1. link \in Versions BY DEF TypeOK
      <4> QED BY <4>1, DiskAssumption DEF DiskAssumption
    <3>5. meta.state = "whole" /\ Length[link] <= data.size
      BY <2>3, <3>1, <3>2 DEF Usable
    <3>6. HasMeta BY <3>5 DEF HasMeta
    <3> HIDE DEF Staged
    <3>7. HasData BY <3>3, <3>4, <3>5 DEF HasData
    <3> QED BY <3>1, <3>6, <3>7
  <2>6. NoMeta.state = "none" BY DEF NoMeta
  <2>7. pc' = "open" /\ attempt = 1 => attempt \in faults'
    BY <2>2, <2>4, <2>6 DEF HasMeta
  <2> QED BY <2>1, <2>2, <2>4, <2>5, <2>7
<1>8. CASE UnlinkMeta
  <2>1. NoMeta.state # "whole" BY DEF NoMeta
  <2>2. meta' = NoMeta => ~Usable' BY <2>1 DEF Usable
  <2>3. meta' = meta => (Usable' <=> Usable) BY <1>8 DEF UnlinkMeta, Usable, world
  <2>4. attempt' = attempt /\ attempt \in {0, 1} BY <1>8 DEF UnlinkMeta
  <2>5. CASE pc = "clear meta"
    <3> HIDE DEF Staged, OpensInTwo
    <3>1. /\ pc' = "clear data"
          /\ (meta' = NoMeta /\ NoFault) \/ (meta' = meta /\ Fault)
      BY <1>8, <2>5 DEF UnlinkMeta
    <3> USE DEF Staged, OpensInTwo
    <3> QED BY <2>2, <2>4, <2>5, <3>1
  <2>6. CASE pc = "drop meta"
    <3> HIDE DEF Staged, OpensInTwo
    <3>1. /\ pc' = "drop data"
          /\ (meta' = NoMeta /\ NoFault) \/ (meta' = meta /\ FaultOfNext)
      BY <1>8, <2>6 DEF UnlinkMeta
    <3>2. attempt = 0 => attempt + 1 = 1 OBVIOUS
    <3> USE DEF Staged, OpensInTwo
    <3>3. 1 \notin faults' /\ attempt = 0 => meta' = NoMeta
      BY <3>1, <3>2
    <3>4. 1 \notin faults' /\ attempt = 1 => meta' = NoMeta
      BY <2>6, <3>1
    <3>5. ~Usable' \/ attempt \in faults' BY <2>2, <2>3, <2>6, <3>1
    <3>6. attempt = 1 => attempt \in faults' BY <2>6, <3>1
    <3> QED BY <2>4, <3>1, <3>3, <3>4, <3>5, <3>6
  <2> QED BY <1>8, <2>5, <2>6 DEF UnlinkMeta
<1>9. CASE UnlinkData BY <1>9 DEF UnlinkData
<1>10. CASE NextAttempt
  <2>1. /\ pc = "drop data" /\ attempt' = attempt + 1 /\ meta' = meta
        /\ pc' = IF attempt = 0 THEN "exist" ELSE "failed"
        /\ \/ data' = NoData /\ faults' = faults
           \/ faults' = faults \cup {attempt + 1}
    BY <1>10 DEF NextAttempt
  <2>2. /\ attempt = 0 \/ attempt = 1
        /\ attempt = 1 => attempt \in faults
        /\ 1 \notin faults => meta = NoMeta
    BY <2>1
  <2>3. CASE attempt = 0
    <3> HIDE DEF Staged
    <3>1. attempt + 1 = 1 BY <2>3
    <3>2. pc' = "exist" /\ attempt' = 1 BY <2>1, <2>3, <3>1
    <3>3. 1 \notin faults' => meta' = NoMeta /\ data' = NoData
      BY <2>1, <2>2, <3>1
    <3> USE DEF Staged
    <3> QED BY <3>2, <3>3
  <2>4. CASE attempt = 1
    <3> HIDE DEF Staged, OpensInTwo
    <3>0. ~(attempt = 0) BY <2>4
    <3>1. pc' = "failed" BY <2>1, <3>0
    <3>2. 1 \in faults' BY <2>1, <2>2, <2>4
    <3> USE DEF Staged, OpensInTwo
    <3> QED BY <3>1, <3>2
  <2> QED BY <2>2, <2>3, <2>4
<1>11. CASE Meta_create BY <1>11 DEF Meta_create, history
<1>12. CASE WriteMeta BY <1>12 DEF WriteMeta, world
<1>13. CASE Data_create
  <2>1. NoData.size = -1 /\ EmptyData.size = 0 BY DEF NoData, EmptyData
  <2>2. [EmptyData EXCEPT !.size = Length[link]].size = Length[link]
    BY DEF NoData, EmptyData
  <2> QED BY <1>13, <2>1, <2>2 DEF Data_create, world
<1>14. CASE Verify
  <2>1. Killed \/ (/\ pc' = "open" /\ attempt' = attempt /\ HasMeta /\ HasData
                  /\ attempt \in {0, 1})
    BY <1>14 DEF Verify, cf
  <2>2. CASE Killed BY <2>2, DeadStaged
  <2>3. CASE pc' = "open" /\ attempt' = attempt /\ HasMeta /\ HasData
             /\ attempt \in {0, 1}
    <3>1. SUFFICES ASSUME attempt \notin faults' PROVE Usable' BY <2>3
    <3>2. meta' = meta /\ data' = data /\ UNCHANGED link /\ attempt \notin faults
      BY <1>14, <2>3, <3>1, ExistLooks
    <3>3. meta = MetaOf(link, {}) /\ data.size = Length[link]
      BY <1>14, <3>2 DEF Verify
    <3>4. meta.state = "whole" /\ meta.version = link BY <3>3 DEF MetaOf
    <3> QED BY <1>len, <3>2, <3>3, <3>4 DEF Usable
  <2> QED BY <2>1, <2>2, <2>3
<1>15. CASE OpenFiles BY <1>15 DEF OpenFiles
<1>16. CASE OpenFails BY <1>2, <1>16 DEF OpenFails, world, Usable
<1>17. CASE Flush BY <1>17 DEF Flush
<1>18. ASSUME NEW s \in Segs, Store(s) PROVE Staged' /\ OpensInTwo'
  BY <1>18 DEF Store
<1>19. CASE Close BY <1>19 DEF Close
<1>20. CASE FlushPart BY <1>20 DEF FlushPart
<1>21. CASE FlushMeta BY <1>21 DEF FlushMeta
<1>22. CASE FlushData BY <1>22, DeadStaged DEF FlushData
<1>23. CASE UNCHANGED vars BY <1>23 DEF vars, Usable
<1> QED
  BY <1>3, <1>4, <1>5, <1>6, <1>7, <1>8, <1>9, <1>10, <1>11, <1>12, <1>13,
     <1>14, <1>15, <1>16, <1>17, <1>18, <1>19, <1>20, <1>21, <1>22, <1>23
  DEF Next

\* Spec keeps the invariant.
THEOREM DiskInvariant == Spec => []DiskInv
<1>1. DiskInv /\ [Next]_vars => DiskInv'
  BY DiskType, StagedStep, WrittenStep, FreshStep, OpenedStep, BackedStep DEF DiskInv
<1> QED BY <1>1, DiskInit, PTL DEF Spec

\* The cache object, the two files and the world around them stay in their
\* ranges, whenever the process is killed.
THEOREM DiskTypes == Spec => []TypeOK
<1>1. DiskInv => TypeOK
  BY DEF DiskInv
<1> QED BY <1>1, DiskInvariant, PTL

\* Every bit of a segment of whole blocks is backed by downloaded bytes,
\* across any kills of the process.
THEOREM WholeBlocksBacked == Spec => []BitsBacked
<1>1. DiskInv => BitsBacked
  <2> SUFFICES ASSUME DiskInv, NEW s \in seg \ Odd PROVE Content(s) # Hole
    BY DEF BitsBacked
  <2>1. s \in Segs BY DEF DiskInv, TypeOK
  <2> QED BY <2>1 DEF DiskInv, Backed, Content, Flushed
<1> QED BY <1>1, DiskInvariant, PTL

\* No cache serves what is older than the listing it was opened under.
THEOREM NothingStale == Spec => []NeverOlder
<1>1. DiskInv => NeverOlder
  <2> SUFFICES ASSUME DiskInv, NEW s \in seg, Content(s) # Hole,
                      ~(s \in Odd /\ leftover)
               PROVE  Content(s) >= link
    BY DEF NeverOlder
  <2>1. s \in Segs /\ IsOpen BY DEF DiskInv, TypeOK, IsOpen
  <2>2. meta.version = link BY <2>1 DEF DiskInv, Opened, Usable
  <2> QED BY <2>1, <2>2, FlushedFresh DEF Content
<1> QED BY <1>1, DiskInvariant, PTL

\* Cache_open succeeds at the second attempt at the latest, unless a call
\* fails in that one.
THEOREM SecondAttemptOpens == Spec => []OpensInTwo
<1>1. DiskInv => OpensInTwo BY DEF DiskInv
<1> QED BY <1>1, DiskInvariant, PTL

\* No step but a new listing takes a bit, or the files, from a cache that
\* could be opened, unless a call failed in the attempt it belongs to.
LEMMA UsableStep ==
  ASSUME DiskInv, [Next]_vars, Usable, link' = link, attempt \notin faults'
  PROVE  Usable' /\ meta.bits \subseteq meta'.bits
<1>1. TypeOK /\ Staged /\ Written /\ Opened BY DEF DiskInv
<1>2. HasMeta /\ HasData
  <2>1. link \in Versions BY <1>1 DEF TypeOK
  <2>2. Length[link] \in Nat \ {0} BY <2>1, DiskAssumption DEF DiskAssumption
  <2>3. data.size \in {-1} \cup Nat BY <1>1 DEF TypeOK, Datas
  <2> QED BY <2>2, <2>3 DEF HasMeta, HasData, Usable
<1>3. meta # NoMeta /\ meta # EmptyMeta /\ meta # TornMeta
  BY DEF Usable, NoMeta, EmptyMeta, TornMeta
<1>4. data # NoData /\ data # EmptyData
  BY <1>2 DEF HasData, NoData, EmptyData
<1> USE DEF Usable
<1>5. CASE ServerChange \/ Relist \/ Kill \/ Open \/ Close
  BY <1>5 DEF ServerChange, Relist, Kill, Open, Close
<1>6. CASE Exist \/ Verify
  <2>1. meta' = meta /\ data' = data BY <1>2, <1>6, ExistLooks
  <2> QED BY <2>1
<1>7. CASE UnlinkMeta \/ UnlinkData \/ NextAttempt
  <2>1. attempt \notin faults
    BY <1>7 DEF UnlinkMeta, UnlinkData, NextAttempt, NoFault, Fault, FaultOfNext
  <2>2. pc \in {"clear meta", "clear data", "drop meta", "drop data"}
    BY <1>7 DEF UnlinkMeta, UnlinkData, NextAttempt
  <2>3. ~Usable BY <1>1, <2>1, <2>2 DEF Staged, Faulty
  <2> QED BY <2>3
<1>8. CASE Meta_create
  <2>1. pc = "create meta" /\ faults' = faults
    BY <1>8 DEF Meta_create, history
  <2>2. meta = NoMeta BY <1>1, <2>1 DEF Staged, Faulty
  <2> QED BY <1>3, <2>2
<1>w. CASE WriteMeta
  <2>1. meta \in {EmptyMeta, TornMeta} BY <1>1, <1>w DEF WriteMeta, Written
  <2> QED BY <1>3, <2>1
<1>9. CASE Data_create
  <2>1. attempt \notin faults BY <1>9 DEF Data_create, NoFault, Fault
  <2>2. data \in {NoData, EmptyData}
    BY <1>1, <1>9, <2>1 DEF Data_create, Staged, Faulty
  <2> QED BY <1>4, <2>2
<1>10. CASE OpenFiles \/ OpenFails BY <1>10 DEF OpenFiles, OpenFails
<1>11. CASE Flush \/ FlushData
  <2>1. data'.size = data.size /\ meta' = meta
    BY <1>1, <1>11 DEF Flush, FlushData, TypeOK, Datas
  <2> QED BY <2>1
<1>12. ASSUME NEW s \in Segs, Store(s)
       PROVE  Usable' /\ meta.bits \subseteq meta'.bits
  <2>1. data'.size = data.size /\ meta' = meta
    BY <1>1, <1>12 DEF Store, Data_write, TypeOK, Datas
  <2> QED BY <2>1
<1>13. CASE FlushPart
  <2>1. PICK B \in SUBSET seg : meta' = MetaOf(meta.version, meta.bits \cup B)
    BY <1>13 DEF FlushPart
  <2>2. /\ meta'.state = "whole" /\ meta'.version = meta.version
        /\ meta'.bits = meta.bits \cup B
    BY <2>1 DEF MetaOf
  <2> QED BY <1>13, <2>2 DEF FlushPart
<1>14. CASE FlushMeta
  <2>1. meta' = MetaOf(link, seg) \/ meta' = meta BY <1>14 DEF FlushMeta
  <2>2. meta.bits \subseteq seg /\ data' = data
    BY <1>1, <1>14 DEF FlushMeta, Opened, IsOpen
  <2>3. CASE meta' = MetaOf(link, seg)
    <3>1. meta'.state = "whole" /\ meta'.version = link /\ meta'.bits = seg
      BY <2>3 DEF MetaOf
    <3> QED BY <2>2, <3>1
  <2>4. CASE meta' = meta BY <2>2, <2>4
  <2> QED BY <2>1, <2>3, <2>4
<1>15. CASE UNCHANGED vars BY <1>15 DEF vars
<1> QED
  BY <1>5, <1>6, <1>7, <1>8, <1>w, <1>9, <1>10, <1>11, <1>12, <1>13, <1>14,
     <1>15
  DEF Next

\* A usable cache stays usable, and keeps its bits, until the listing changes
\* or a look at its files fails.
THEOREM NothingUsableLost == Spec => UsableKept
<1>1. DiskInv /\ [Next]_vars
        => [Usable /\ link' = link
              => \/ Usable' /\ meta.bits \subseteq meta'.bits
                 \/ attempt \in faults']_vars
  BY UsableStep
<1> QED BY <1>1, DiskInvariant, PTL DEF Spec, UsableKept

=============================================================================
