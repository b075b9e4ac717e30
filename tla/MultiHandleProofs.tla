--------------------------- MODULE MultiHandleProofs ---------------------------
(***************************************************************************)
(* The threads that share curl's multi handle: whoever processes a         *)
(* message, every loader ends with a complete listing in which a link is   *)
(* given up only for its own answer.                                       *)
(***************************************************************************)
EXTENDS MultiHandle, FiniteSetTheorems, TLAPS

\* These variables are functions on the loaders.
PerLoader == /\ toRequest = [t \in Loaders |-> toRequest[t]]
             /\ running = [t \in Loaders |-> running[t]]
             /\ saved = [t \in Loaders |-> saved[t]]

\* Where the handle of a loader's index page is, at each of its labels; the
\* flag is down only once the message of the page has been read.
PageAt ==
  \A t \in Loaders :
    /\ pc[t] = "add page" => curl_multi[t] \in {"none", "read", "out"}
    /\ pc[t] = "wait page" => curl_multi[t] \notin {"none", "freed"}
    /\ pc[t] = "page" => curl_multi[t] \in {"read", "out"}
    /\ pc[t] \in Locked \cup {"perform", "performed"} => curl_multi[t] # "none"
    /\ pc[t] \in {"request", "scan", "save", "loaded", "failed"}
         => curl_multi[t] = "freed"
    /\ ~transferring[t] => curl_multi[t] \in {"read", "out", "freed"}

\* One message at a time is in hand, that of a handle that was answered.
MessageInHand ==
  /\ msg # None => \/ curl_multi[msg] = "read"
                   \/ msg \in Loaders /\ curl_multi[msg] = "freed"
  /\ \A h \in Handles : curl_multi[h] = "read" => msg = h
  /\ \A h \in Handles : curl_multi[h] \in {"arrived", "done", "read", "out"}
                         => response[h] # None
  /\ \A l \in Links : curl_multi[l] # "out"

\* An index page that failed temporarily has a retry left until it takes it.
RetryLeft ==
  \A t \in Loaders :
    /\ curl_multi[t] \in {"arrived", "done", "read", "out"}
    /\ response[t] = "temp" /\ pc[t] # "add page"
    => temps[t] < MaxTemp

\* The links of a page are requested once, one by one, when it is in.
RequestedOnce ==
  \A t \in Loaders :
    /\ toRequest[t] # {} => pc[t] = "request"
    /\ pc[t] = "request" /\ toRequest[t] = {} => Unknown(t) = {}
    /\ \A l \in toRequest[t] : curl_multi[l] = "none"
    /\ curl_multi[t] # "freed" => \A l \in LinksOf[t] : curl_multi[l] = "none"
    /\ curl_multi[t] = "freed" /\ pc[t] # "failed"
         => \A l \in Unknown(t) \ toRequest[t] : curl_multi[l] # "none"

\* What a perform that saw nothing running tells its thread: no transfer was
\* under way, and all its own links' messages have been processed.
NothingRuns ==
  \A t \in Loaders :
    running[t] = 0 =>
      /\ pc[t] \in Locked
           => \A h \in Handles : curl_multi[h] \notin {"running", "arrived"}
      /\ pc[t] = "performed"
           => \A l \in LinksOf[t] : curl_multi[l] \in {"none", "freed"}

\* A link's type is its answer's, from the moment its message was looked at.
Judged(l) == \/ curl_multi[l] = "freed"
             \/ msg = l /\ \E t \in Loaders : pc[t] \in {"length", "remove"}

TypesTold ==
  \A l \in Links :
    /\ type[l] \notin Uninitialised => curl_multi[l] \in {"read", "freed"}
    /\ type[l] \in Uninitialised /\ Judged(l) => response[l] \in {"temp", "gone"}

LoadInv == /\ TypeOK /\ PerLoader /\ PageAt /\ MessageInHand /\ RetryLeft
           /\ RequestedOnce /\ NothingRuns /\ TypesTold
           /\ FillComplete /\ GoodAnswersKept
-----------------------------------------------------------------------------
(* Ranges. *)

HandleStates == {"none", "running", "arrived", "done", "read", "out", "freed"}

LocksOK == /\ pc \in [Loaders -> Pcs]
           /\ \A t \in Loaders : (transfer_lock = t) <=> (pc[t] \in Locked)
           /\ (msg # None) <=> \E t \in Loaders : pc[t] \in Locked \ {"messages"}
           /\ msg \in Handles \cup {None}

\* Where the loaders are after one of them has moved, and the handles after one
\* of them has changed its state.
LEMMA LoaderAt ==
  ASSUME pc \in [Loaders -> Pcs], NEW t \in Loaders, NEW label, Goto(t, label)
  PROVE  \A u \in Loaders : pc'[u] = IF u = t THEN label ELSE pc[u]
BY DEF Goto

\* A step that gives a handle a state gives it to that handle only.
LEMMA HandleAt ==
  ASSUME curl_multi \in [Handles -> HandleStates], NEW h \in Handles,
         NEW state, Set(h, state)
  PROVE  \A g \in Handles : curl_multi'[g] = IF g = h THEN state
                                                       ELSE curl_multi[g]
BY DEF Set

\* What a step does to the locks: a loader that does not hold transfer_lock goes
\* on without it, or takes it; one that holds it reads a message, goes on with
\* the message, or drops it, or unlocks when there is none.
Outside(t) == /\ pc[t] \notin Locked /\ UNCHANGED <<transfer_lock, msg>>
              /\ \E label \in Pcs \ Locked : Goto(t, label)
Locks(t)   == /\ pc[t] \notin Locked /\ UNCHANGED msg
              /\ transfer_lock = None /\ transfer_lock' = t
              /\ Goto(t, "messages")
Unlocks(t) == /\ pc[t] = "messages" /\ UNCHANGED msg /\ transfer_lock' = None
              /\ Goto(t, "performed")
Reads(t)   == /\ pc[t] = "messages" /\ UNCHANGED transfer_lock
              /\ msg' \in Handles /\ Goto(t, "message")
GoesOn(t)  == /\ pc[t] \in {"message", "stat", "length"}
              /\ UNCHANGED <<transfer_lock, msg>>
              /\ \E label \in {"stat", "length", "remove"} : Goto(t, label)
Drops(t)   == /\ pc[t] = "remove" /\ UNCHANGED transfer_lock /\ msg' = None
              /\ Goto(t, "messages")

\* Every step of a loader does one of these with the lock and the message.
LEMMA LockMoves ==
  ASSUME NEW t \in Loaders, Load(t)
  PROVE  \/ Outside(t) \/ Locks(t) \/ Unlocks(t) \/ Reads(t) \/ GoesOn(t)
         \/ Drops(t)
<1> USE DEF Pcs, Locked
<1>1. CASE \/ AddPage(t) \/ WaitPage(t) \/ RetryPage(t) \/ EndPage(t)
           \/ Link_req_file_stat(t) \/ NothingToRequest(t) \/ Scan(t)
  BY <1>1
  DEF AddPage, WaitPage, RetryPage, EndPage, Link_req_file_stat,
      NothingToRequest, Scan, FillDone, Outside, net
<1>2. CASE AfterPerform(t) \/ LinkTable_disk_save(t)
  BY <1>2 DEF AfterPerform, LinkTable_disk_save, GiveUp, FillDone, Outside, net
<1>3. CASE Perform(t)
  BY <1>3 DEF Perform, Locks
<1>4. CASE ReadMessage(t)
  BY <1>4 DEF ReadMessage, Queued, Reads
<1>5. CASE NoMessage(t)
  BY <1>5 DEF NoMessage, Unlocks
<1>6. CASE StartMessage(t) \/ SetType(t) \/ SetLength(t)
  BY <1>6 DEF StartMessage, SetType, SetLength, GoesOn, net
<1>7. CASE RemoveHandle(t)
  BY <1>7 DEF RemoveHandle, Drops
<1> QED
  BY <1>1, <1>2, <1>3, <1>4, <1>5, <1>6, <1>7 DEF Load

\* So transfer_lock is held, and a message in hand, where the program counters
\* say.
LEMMA LocksStep == ASSUME LocksOK, [Next]_vars PROVE LocksOK'
<1> /\ pc \in [Loaders -> Pcs] /\ None \notin Loaders /\ None \notin Handles
  BY LoadersAssumption DEF LocksOK, LoadersAssumption, Handles
<1>1. ASSUME NEW t \in Loaders, Load(t) PROVE LocksOK'
  <2>1. PICK label \in Pcs : Goto(t, label)
    BY <1>1, LockMoves
    DEF Outside, Locks, Unlocks, Reads, GoesOn, Drops, Pcs, Locked
  <2>2. pc' \in [Loaders -> Pcs]
    BY <2>1 DEF Goto
  <2>3. CASE Outside(t)
    <3>1. /\ pc'[t] \notin Locked /\ \A u \in Loaders \ {t} : pc'[u] = pc[u]
      BY <2>3, LoaderAt DEF Outside
    <3> QED
      BY <2>2, <2>3, <3>1 DEF LocksOK, Outside
  <2>4. CASE Locks(t)
    <3>1. pc'[t] = "messages" /\ \A u \in Loaders \ {t} : pc'[u] = pc[u]
      BY <2>4, LoaderAt DEF Locks
    <3> QED
      BY <2>2, <2>4, <3>1 DEF LocksOK, Locks, Locked
  <2>5. CASE Unlocks(t)
    <3>1. pc'[t] = "performed" /\ \A u \in Loaders \ {t} : pc'[u] = pc[u]
      BY <2>5, LoaderAt DEF Unlocks
    <3> QED
      BY <2>2, <2>5, <3>1 DEF LocksOK, Unlocks, Locked
  <2>6. CASE Reads(t)
    <3>1. pc'[t] = "message" /\ \A u \in Loaders \ {t} : pc'[u] = pc[u]
      BY <2>6, LoaderAt DEF Reads
    <3> QED
      BY <2>2, <2>6, <3>1 DEF LocksOK, Reads, Locked
  <2>7. CASE GoesOn(t)
    <3>1. /\ pc'[t] \in {"stat", "length", "remove"}
          /\ \A u \in Loaders \ {t} : pc'[u] = pc[u]
      BY <2>7, LoaderAt DEF GoesOn
    <3> QED
      BY <2>2, <2>7, <3>1 DEF LocksOK, GoesOn, Locked
  <2>8. CASE Drops(t)
    <3>1. pc'[t] = "messages" /\ \A u \in Loaders \ {t} : pc'[u] = pc[u]
      BY <2>8, LoaderAt DEF Drops
    <3> QED
      BY <2>2, <2>8, <3>1 DEF LocksOK, Drops, Locked
  <2> QED
    BY <1>1, <2>3, <2>4, <2>5, <2>6, <2>7, <2>8, LockMoves
<1>2. ASSUME UNCHANGED <<transfer_lock, msg, pc>> PROVE LocksOK'
  BY <1>2 DEF LocksOK
<1> QED
  BY <1>1, <1>2 DEF Next, Arrive, vars

\* The part of the type invariant that is about the handles and the flags.
NetOK == /\ curl_multi \in [Handles -> HandleStates]
         /\ response \in [Handles -> Answers \cup {None}]
         /\ transferring \in [Loaders -> BOOLEAN]
         /\ temps \in [Loaders -> 0 .. MaxTemp]

\* The part that is about the links and the tables.
TablesOK == /\ type \in [Links -> Types] /\ length \in [Links -> 0 .. 1]
            /\ \A t \in Loaders :
                 /\ toRequest[t] \subseteq LinksOf[t]
                 /\ running[t] \in 0 .. Cardinality(Handles)
                 /\ saved[t] # None =>
                      saved[t] \in [LinksOf[t] -> [type : Types, length : 0 .. 1]]

\* The type invariant in three parts: locks, handles and messages, tables.
LEMMA TypeParts == TypeOK <=> LocksOK /\ NetOK /\ TablesOK
BY DEF TypeOK, LocksOK, NetOK, TablesOK, HandleStates

\* The handles stay within their states, and a page's failures within the bound.
LEMMA NetStep ==
  ASSUME LocksOK, NetOK, TablesOK, RetryLeft, PageAt, [Next]_vars
  PROVE  NetOK'
<1> USE DEF NetOK, HandleStates
<1> /\ MaxTemp \in Nat /\ Loaders \subseteq Handles /\ Links \subseteq Handles
  BY LoadersAssumption DEF LoadersAssumption, Handles
<1>1. ASSUME NEW t \in Loaders, NEW h \in Handles, NEW state \in HandleStates,
             Set(h, state), UNCHANGED <<response, transferring, temps>>
      PROVE  NetOK'
  BY <1>1 DEF Set
<1>2. ASSUME UNCHANGED <<curl_multi, response, transferring, temps>>
      PROVE  NetOK'
  BY <1>2
<1>3. ASSUME NEW t \in Loaders, AddPage(t) PROVE NetOK'
  BY <1>3 DEF AddPage, Set
<1>4. ASSUME NEW t \in Loaders, RetryPage(t) PROVE NetOK'
  <2>1. temps[t] < MaxTemp /\ temps[t] \in 0 .. MaxTemp
    BY <1>4 DEF RetryPage, PageAt, RetryLeft
  <2>2. temps[t] + 1 \in 0 .. MaxTemp
    BY <2>1
  <2>3. temps' \in [Loaders -> 0 .. MaxTemp]
    BY <1>4, <2>2 DEF RetryPage
  <2> QED
    BY <1>4, <2>3 DEF RetryPage, net
<1>5. ASSUME NEW t \in Loaders, EndPage(t) PROVE NetOK'
  BY <1>1, <1>5 DEF EndPage, page
<1>6. ASSUME NEW t \in Loaders, Link_req_file_stat(t), TablesOK
      PROVE  NetOK'
  BY <1>1, <1>6 DEF Link_req_file_stat, page, TablesOK, Links
<1>7. ASSUME NEW t \in Loaders, Perform(t) PROVE NetOK'
  BY <1>7 DEF Perform, page
<1>8. ASSUME NEW t \in Loaders, ReadMessage(t) PROVE NetOK'
  BY <1>1, <1>8 DEF ReadMessage, page, Queued
<1>9. ASSUME NEW t \in Loaders, StartMessage(t) PROVE NetOK'
  BY <1>9 DEF StartMessage, ClearTransferring, net
<1>10. ASSUME NEW t \in Loaders, RemoveHandle(t) PROVE NetOK'
  <2>1. msg \in Handles
    BY <1>10 DEF RemoveHandle, LocksOK, Locked
  <2> QED
    BY <1>1, <1>10, <2>1 DEF RemoveHandle, page
<1>11. ASSUME NEW h \in Handles, Arrive(h) PROVE NetOK'
  BY <1>11 DEF Arrive, Set, AnswersTo, Answers, Good, page
<1> QED
  BY <1>2, <1>3, <1>4, <1>5, <1>6, <1>7, <1>8, <1>9, <1>10, <1>11
  DEF Next, Load, WaitPage, NothingToRequest, Scan, AfterPerform,
      LinkTable_disk_save, NoMessage, SetType, SetLength, net, page, vars

\* The tables keep their links; perform counts some of the handles.
LEMMA TablesStep ==
  ASSUME LocksOK, TablesOK, PerLoader, [Next]_vars PROVE TablesOK' /\ PerLoader'
<1> USE DEF TablesOK, PerLoader, Unknown
<1>1. ASSUME UNCHANGED <<type, length, toRequest, running, saved>>
      PROVE  TablesOK' /\ PerLoader'
  BY <1>1
<1>2. ASSUME NEW t \in Loaders, EndPage(t) \/ Link_req_file_stat(t)
      PROVE  TablesOK' /\ PerLoader'
  <2>1. PICK links \in SUBSET LinksOf[t] :
          toRequest' = [toRequest EXCEPT ![t] = links] \/ UNCHANGED toRequest
    BY <1>2 DEF EndPage, Link_req_file_stat
  <2>2. UNCHANGED <<type, length, running, saved>>
    BY <1>2 DEF EndPage, Link_req_file_stat
  <2> QED
    BY <2>1, <2>2
<1>3. ASSUME NEW t \in Loaders, AfterPerform(t) PROVE TablesOK' /\ PerLoader'
  BY <1>3 DEF AfterPerform, GiveUp, net, Types
<1>4. ASSUME NEW t \in Loaders, LinkTable_disk_save(t)
      PROVE  TablesOK' /\ PerLoader'
  <2>1. LinksOf[t] \subseteq Links
    BY DEF Links
  <2>2. [l \in LinksOf[t] |-> [type |-> type[l], length |-> length[l]]]
          \in [LinksOf[t] -> [type : Types, length : 0 .. 1]]
    BY <2>1
  <2>3. PICK links \in SUBSET LinksOf[t] :
          toRequest' = [toRequest EXCEPT ![t] = links] \/ UNCHANGED toRequest
    BY <1>4 DEF LinkTable_disk_save
  <2>4. /\ UNCHANGED <<type, length, running>>
        /\ saved' = [saved EXCEPT ![t] =
                       [l \in LinksOf[t] |-> [type |-> type[l],
                                              length |-> length[l]]]]
    BY <1>4 DEF LinkTable_disk_save, net
  <2> QED
    BY <2>2, <2>3, <2>4
<1>5. ASSUME NEW t \in Loaders, Perform(t) PROVE TablesOK' /\ PerLoader'
  <2>1. IsFiniteSet(Handles)
    BY LoadersAssumption, FS_Union DEF LoadersAssumption, Handles
  <2>2. Cardinality(StillRunning) \in 0 .. Cardinality(Handles)
    BY <2>1, FS_Subset, FS_CardinalityType DEF StillRunning
  <2> QED
    BY <1>5, <2>2 DEF Perform, table
<1>6. ASSUME NEW t \in Loaders, SetType(t) PROVE TablesOK' /\ PerLoader'
  <2>1. \A l \in Links : StatType(l) \in Types
    BY DEF StatType, FileType, Types, Good
  <2> QED
    BY <1>6, <2>1 DEF SetType, net
<1>7. ASSUME NEW t \in Loaders, SetLength(t) PROVE TablesOK' /\ PerLoader'
  BY <1>7 DEF SetLength, net
<1> QED
  BY <1>1, <1>2, <1>3, <1>4, <1>5, <1>6, <1>7
  DEF Next, Load, AddPage, WaitPage, RetryPage, NothingToRequest, Scan,
      ReadMessage, NoMessage, StartMessage, RemoveHandle, Arrive, net, table, vars

-----------------------------------------------------------------------------
(* The handles. *)

\* The links of a page are links, and on no other page.
LEMMA LinksIn ==
  /\ \A t \in Loaders : LinksOf[t] \subseteq Links
  /\ \A t, u \in Loaders : \A l \in LinksOf[t] : l \in LinksOf[u] => t = u
  /\ Loaders \subseteq Handles /\ Links \subseteq Handles
  /\ Loaders \cap Links = {} /\ None \notin Handles
<1>1. \A t \in Loaders : LinksOf[t] \subseteq Links
  BY DEF Links
<1>2. \A t, u \in Loaders : \A l \in LinksOf[t] : l \in LinksOf[u] => t = u
  BY LoadersAssumption DEF LoadersAssumption
<1>3. /\ Loaders \subseteq Handles /\ Links \subseteq Handles
      /\ Loaders \cap Links = {} /\ None \notin Handles
  BY LoadersAssumption DEF LoadersAssumption, Handles
<1> QED
  BY <1>1, <1>2, <1>3

\* One thread at a time is inside curl_multi_perform_once, and it has a message
\* in hand exactly between reading one and removing its handle.
LEMMA OneHolder ==
  ASSUME LocksOK
  PROVE  /\ transfer_lock = None
              => msg = None /\ \A t \in Loaders : pc[t] \notin Locked
         /\ \A t, u \in Loaders : pc[t] \in Locked /\ pc[u] \in Locked => t = u
         /\ \A t \in Loaders : pc[t] = "messages" => msg = None
         /\ \A t \in Loaders : pc[t] \in Locked \ {"messages"}
                                 => msg \in Handles /\ msg # None
BY LoadersAssumption DEF LocksOK, Locked, LoadersAssumption, Handles

\* The handle of a loader's page is where its label says.
LEMMA PageStep ==
  ASSUME LocksOK, NetOK, TablesOK, PageAt, MessageInHand, [Next]_vars
  PROVE  PageAt'
<1> /\ pc \in [Loaders -> Pcs] /\ curl_multi \in [Handles -> HandleStates]
    /\ Loaders \subseteq Handles /\ Links \subseteq Handles
    /\ Loaders \cap Links = {} /\ transferring \in [Loaders -> BOOLEAN]
  BY LoadersAssumption DEF LoadersAssumption, Handles, LocksOK, NetOK
<1>1. ASSUME NEW t \in Loaders, UNCHANGED <<curl_multi, transferring>>,
             NEW label, Goto(t, label),
             \/ /\ label \in {"request", "scan", "save", "loaded"}
                /\ curl_multi[t] = "freed"
             \/ label \in Locked \cup {"perform", "performed"}
                /\ curl_multi[t] # "none"
             \/ label = "wait page" /\ curl_multi[t] \notin {"none", "freed"}
             \/ label = "page" /\ curl_multi[t] \in {"read", "out"}
             \/ label = "add page" /\ curl_multi[t] \in {"none", "read", "out"}
      PROVE  PageAt'
  <2>1. \A u \in Loaders : pc'[u] = IF u = t THEN label ELSE pc[u]
    BY <1>1, LoaderAt
  <2> QED
    BY <1>1, <2>1 DEF PageAt, Locked, HandleStates
<1>2. ASSUME UNCHANGED pc, UNCHANGED transferring,
             NEW h \in Handles, NEW state, Set(h, state),
             \/ h \notin Loaders
             \/ curl_multi[h] = "running" /\ state = "arrived"
      PROVE  PageAt'
  <2>1. \A g \in Handles : curl_multi'[g] = IF g = h THEN state
                                                    ELSE curl_multi[g]
    BY <1>2, HandleAt
  <2> QED
    BY <1>2, <2>1 DEF PageAt, Locked, HandleStates
<1>3. ASSUME NEW t \in Loaders, AddPage(t) PROVE PageAt'
  <2>1. /\ Goto(t, "wait page") /\ Set(t, "running")
        /\ \A u \in Loaders : transferring'[u] = IF u = t THEN TRUE
                                                          ELSE transferring[u]
    BY <1>3 DEF AddPage
  <2>2. \A u \in Loaders : pc'[u] = IF u = t THEN "wait page" ELSE pc[u]
    BY <2>1, LoaderAt
  <2>3. \A g \in Handles : curl_multi'[g] = IF g = t THEN "running"
                                                    ELSE curl_multi[g]
    BY <2>1, HandleAt
  <2> QED
    BY <2>1, <2>2, <2>3 DEF PageAt, Locked, HandleStates
<1>4. ASSUME NEW t \in Loaders,
             WaitPage(t) \/ RetryPage(t) \/ NothingToRequest(t) \/ Scan(t)
      PROVE  PageAt'
  BY <1>1, <1>4
  DEF WaitPage, RetryPage, NothingToRequest, Scan, FillDone, net, page, PageAt
<1>5. ASSUME NEW t \in Loaders, AfterPerform(t) \/ LinkTable_disk_save(t)
      PROVE  PageAt'
  BY <1>1, <1>5
  DEF AfterPerform, LinkTable_disk_save, GiveUp, FillDone, net, page, PageAt
<1>6. ASSUME NEW t \in Loaders, EndPage(t) PROVE PageAt'
  <2>1. PICK label \in {"request", "failed"} : Goto(t, label)
    BY <1>6 DEF EndPage
  <2>2. Set(t, "freed") /\ UNCHANGED transferring /\ pc[t] = "page"
    BY <1>6 DEF EndPage, page
  <2>3. \A u \in Loaders : pc'[u] = IF u = t THEN label ELSE pc[u]
    BY <2>1, LoaderAt
  <2>4. \A g \in Handles : curl_multi'[g] = IF g = t THEN "freed"
                                                    ELSE curl_multi[g]
    BY <2>2, HandleAt
  <2> QED
    BY <2>1, <2>2, <2>3, <2>4 DEF PageAt, Locked, HandleStates
<1>7. ASSUME NEW t \in Loaders, Link_req_file_stat(t) PROVE PageAt'
  <2>1. PICK l \in toRequest[t], label \in {"scan", "request"} :
          Set(l, "running") /\ Goto(t, label)
    BY <1>7 DEF Link_req_file_stat
  <2>2. \A u \in Loaders : pc'[u] = IF u = t THEN label ELSE pc[u]
    BY <2>1, LoaderAt
  <2>4. l \in Links
    BY LinksIn DEF TablesOK
  <2>5. \A g \in Handles : curl_multi'[g] = IF g = l THEN "running"
                                                    ELSE curl_multi[g]
    BY <2>1, <2>4, HandleAt
  <2>3. /\ \A u \in Loaders : curl_multi'[u] = curl_multi[u]
        /\ UNCHANGED transferring /\ pc[t] = "request"
    BY <1>7, <2>4, <2>5 DEF Link_req_file_stat, page
  <2> QED
    BY <2>1, <2>2, <2>3 DEF PageAt, Locked, HandleStates
<1>8. ASSUME NEW t \in Loaders, Perform(t) PROVE PageAt'
  <2>1. /\ \A u \in Loaders : pc'[u] = IF u = t THEN "messages" ELSE pc[u]
        /\ \A u \in Loaders : curl_multi'[u] = IF curl_multi[u] = "arrived"
                                                 THEN "done" ELSE curl_multi[u]
        /\ UNCHANGED transferring /\ pc[t] = "perform"
    BY <1>8, LoaderAt DEF Perform, page
  <2> QED
    BY <2>1 DEF PageAt, Locked, HandleStates
<1>9. ASSUME NEW t \in Loaders, ReadMessage(t) PROVE PageAt'
  <2>1. PICK h \in Handles : curl_multi[h] = "done" /\ Set(h, "read")
    BY <1>9 DEF ReadMessage, Queued
  <2>2. \A g \in Handles : curl_multi'[g] = IF g = h THEN "read"
                                                    ELSE curl_multi[g]
    BY <2>1, HandleAt
  <2>3. /\ \A u \in Loaders : pc'[u] = IF u = t THEN "message" ELSE pc[u]
        /\ UNCHANGED transferring /\ pc[t] = "messages"
    BY <1>9, LoaderAt DEF ReadMessage, page
  <2> QED
    BY <2>1, <2>2, <2>3 DEF PageAt, Locked, HandleStates
<1>10. ASSUME NEW t \in Loaders, NoMessage(t) \/ SetType(t) \/ SetLength(t)
       PROVE  PageAt'
  BY <1>1, <1>10 DEF NoMessage, SetType, SetLength, net, page, PageAt, Locked
<1>11. ASSUME NEW t \in Loaders, StartMessage(t) PROVE PageAt'
  <2>1. /\ \A u \in Loaders : pc'[u] = IF u = t THEN "stat" ELSE pc[u]
        /\ \A u \in Loaders : transferring'[u] = (transferring[u] /\ msg # u)
        /\ UNCHANGED curl_multi /\ pc[t] = "message"
    BY <1>11, LoaderAt DEF StartMessage, ClearTransferring, net
  <2>2. msg \in Loaders => curl_multi[msg] \in {"read", "freed"}
    BY <1>11, OneHolder DEF StartMessage, MessageInHand, Locked
  <2> QED
    BY <2>1, <2>2 DEF PageAt, Locked, HandleStates
<1>12. ASSUME NEW t \in Loaders, RemoveHandle(t) PROVE PageAt'
  <2>1. /\ msg \in Handles
        /\ \/ curl_multi[msg] = "read"
           \/ msg \in Loaders /\ curl_multi[msg] = "freed"
    BY <1>12, OneHolder DEF RemoveHandle, MessageInHand, Locked
  <2>2. /\ \A u \in Loaders : pc'[u] = IF u = t THEN "messages" ELSE pc[u]
        /\ UNCHANGED transferring /\ pc[t] = "remove"
    BY <1>12, LoaderAt DEF RemoveHandle, page
  <2>3. PICK state \in {"freed", "out"} :
          Set(msg, state) /\ (curl_multi[msg] = "freed" => state = "freed")
    BY <1>12 DEF RemoveHandle
  <2>4. \A g \in Handles : curl_multi'[g] = IF g = msg THEN state
                                                      ELSE curl_multi[g]
    BY <2>1, <2>3, HandleAt
  <2>5. msg \in Loaders => (state = "freed" => curl_multi[msg] = "freed")
    BY <1>12, <2>3 DEF RemoveHandle, Set
  <2>6. \A u \in Loaders : curl_multi'[u] = "freed" <=> curl_multi[u] = "freed"
    BY <2>1, <2>3, <2>4, <2>5
  <2>7. \A u \in Loaders : \/ curl_multi'[u] = curl_multi[u]
                           \/ curl_multi[u] = "read" /\ curl_multi'[u] = "out"
    BY <2>1, <2>3, <2>4, <2>5
  <2>8. \A u \in Loaders : pc[u] = "messages" \/ u = t => curl_multi[u] # "none"
    BY <1>12 DEF RemoveHandle, PageAt, Locked
  <2> QED
    BY <2>2, <2>6, <2>7, <2>8 DEF PageAt, Locked, HandleStates
<1>13. ASSUME NEW h \in Handles, Arrive(h) PROVE PageAt'
  BY <1>2, <1>13 DEF Arrive, page
<1>14. CASE UNCHANGED vars
  BY <1>14 DEF vars, PageAt
<1> QED
  BY <1>3, <1>4, <1>5, <1>6, <1>7, <1>8, <1>9, <1>10, <1>11, <1>12, <1>13, <1>14
  DEF Next, Load

\* What a step does to the handles: nothing; it adds one to the multi handle,
\* takes in an answer, or all that arrived, reads a message, frees the handle of
\* a page, or removes the handle whose message is in hand.
Changes(h, new) == \A g \in Handles : curl_multi'[g] = IF g = h THEN new
                                                               ELSE curl_multi[g]
SameHandles == UNCHANGED <<curl_multi, response, msg>>
Adds(h) == /\ curl_multi[h] \in {"none", "out"} /\ Changes(h, "running")
           /\ transfer_lock = None /\ UNCHANGED <<response, msg>>
Answered(h) == /\ curl_multi[h] = "running" /\ Changes(h, "arrived")
               /\ response'[h] \in Answers
               /\ \A g \in Handles : g # h => response'[g] = response[g]
               /\ UNCHANGED <<msg, pc, type, toRequest, running, saved>>
TakesIn == /\ \A h \in Handles : curl_multi'[h] = IF curl_multi[h] = "arrived"
                                                  THEN "done" ELSE curl_multi[h]
           /\ transfer_lock = None /\ UNCHANGED <<response, msg>>
Picks(h) == /\ curl_multi[h] = "done" /\ Changes(h, "read")
            /\ msg = None /\ msg' = h /\ UNCHANGED response
Frees(h) == /\ curl_multi[h] \in {"read", "out"} /\ Changes(h, "freed")
            /\ UNCHANGED <<response, msg>>
Removes(h, state) == /\ msg = h /\ Changes(h, state)
                     /\ state = "freed" <=> h \in Links \/ curl_multi[h] = "freed"
                     /\ msg' = None /\ UNCHANGED response

\* What a thread's step does to the handles.
LEMMA LoadMoves ==
  ASSUME LocksOK, NetOK, TablesOK, PageAt, MessageInHand, RequestedOnce,
         NEW t \in Loaders, Load(t)
  PROVE  \/ SameHandles \/ TakesIn \/ Frees(t)
         \/ \E h \in Handles : Adds(h) \/ Picks(h)
         \/ \E h \in Handles, state \in {"freed", "out"} : Removes(h, state)
<1> curl_multi \in [Handles -> HandleStates]
  BY DEF NetOK
<1>1. ASSUME NEW h \in Handles, NEW state, Set(h, state)
      PROVE  Changes(h, state)
  BY <1>1, HandleAt DEF Changes
<1>2. CASE AddPage(t)
  <2>1. curl_multi[t] # "read"
    BY <1>2, OneHolder, LinksIn DEF AddPage, MessageInHand
  <2>2. Adds(t)
    BY <1>1, <1>2, <2>1, LinksIn DEF AddPage, Adds, PageAt
  <2> QED
    BY <2>2, LinksIn
<1>3. CASE Link_req_file_stat(t)
  <2>1. PICK l \in toRequest[t] : Set(l, "running")
    BY <1>3 DEF Link_req_file_stat
  <2>2. l \in Handles /\ curl_multi[l] = "none"
    BY LinksIn DEF TablesOK, RequestedOnce
  <2> QED
    BY <1>1, <1>3, <2>1, <2>2 DEF Link_req_file_stat, Adds
<1>4. CASE EndPage(t)
  BY <1>1, <1>4, LinksIn DEF EndPage, PageAt, Frees
<1>5. CASE Perform(t)
  BY <1>5 DEF Perform, TakesIn
<1>6. CASE ReadMessage(t)
  <2>1. msg = None /\ msg' \in Handles /\ curl_multi[msg'] = "done"
    BY <1>6, OneHolder DEF ReadMessage, Queued
  <2>2. Changes(msg', "read")
    BY <1>1, <1>6, <2>1 DEF ReadMessage
  <2> QED
    BY <1>6, <2>1, <2>2 DEF ReadMessage, Picks
<1>7. CASE RemoveHandle(t)
  <2>1. msg \in Handles
    BY <1>7, OneHolder DEF RemoveHandle, Locked
  <2>2. PICK state \in {"freed", "out"} :
          /\ Set(msg, state)
          /\ state = "freed" <=> msg \in Links \/ curl_multi[msg] = "freed"
    BY <1>7 DEF RemoveHandle
  <2> QED
    BY <1>1, <1>7, <2>1, <2>2 DEF RemoveHandle, Removes
<1> QED
  BY <1>2, <1>3, <1>4, <1>5, <1>6, <1>7
  DEF Load, SameHandles, WaitPage, RetryPage, NothingToRequest,
      Scan, AfterPerform, LinkTable_disk_save, NoMessage, StartMessage, SetType,
      SetLength, net

\* What the server's step does to them.
LEMMA ArriveMoves ==
  ASSUME NetOK, NEW h \in Handles, Arrive(h) PROVE Answered(h)
<1>1. PICK a \in Answers : response' = [response EXCEPT ![h] = a]
  BY DEF Arrive, AnswersTo, Answers, Good
<1>2. Changes(h, "arrived")
  BY HandleAt DEF Arrive, Changes, NetOK
<1> QED
  BY <1>1, <1>2 DEF Arrive, Answered, NetOK, table

\* What a step does to them.
LEMMA HandlesMove ==
  ASSUME LocksOK, NetOK, TablesOK, PageAt, MessageInHand, RequestedOnce,
         [Next]_vars
  PROVE  \/ SameHandles \/ TakesIn
         \/ \E h \in Handles : Adds(h) \/ Answered(h) \/ Picks(h)
         \/ \E t \in Loaders : Frees(t)
         \/ \E h \in Handles, state \in {"freed", "out"} : Removes(h, state)
<1>1. CASE \E t \in Loaders : Load(t)
  BY <1>1, LoadMoves
<1>2. CASE \E h \in Handles : Arrive(h)
  BY <1>2, ArriveMoves
<1>3. CASE UNCHANGED vars
  BY <1>3 DEF vars, SameHandles
<1> QED
  BY <1>1, <1>2, <1>3 DEF Next

\* One message is in hand at a time, of a handle that was answered.
LEMMA MessageStep ==
  ASSUME LocksOK, NetOK, TablesOK, PageAt, MessageInHand, RequestedOnce,
         [Next]_vars
  PROVE  MessageInHand'
<1> /\ Loaders \subseteq Handles /\ Links \subseteq Handles
    /\ Loaders \cap Links = {} /\ None \notin Handles
  BY LinksIn
<1> None \notin Answers
  BY LoadersAssumption DEF LoadersAssumption
<1> msg \in Handles \cup {None}
  BY DEF LocksOK
<1>1. CASE SameHandles
  BY <1>1 DEF SameHandles, MessageInHand
<1>2. CASE TakesIn
  <2>1. msg = None
    BY <1>2, OneHolder DEF TakesIn
  <2>2. \A h \in Handles : curl_multi'[h] = "read" => curl_multi[h] = "read"
    BY <1>2 DEF TakesIn
  <2>3. \A h \in Handles :
          curl_multi'[h] \in {"arrived", "done", "read", "out"}
            => curl_multi[h] \in {"arrived", "done", "read", "out"}
    BY <1>2 DEF TakesIn
  <2>4. \A l \in Links : curl_multi'[l] = "out" => curl_multi[l] = "out"
    BY <1>2 DEF TakesIn
  <2>5. UNCHANGED <<response, msg>>
    BY <1>2 DEF TakesIn
  <2> QED
    BY <2>1, <2>2, <2>3, <2>4, <2>5 DEF MessageInHand
<1>3. ASSUME NEW h \in Handles, Adds(h) PROVE MessageInHand'
  <2>1. msg = None
    BY <1>3, OneHolder DEF Adds
  <2>2. /\ \A g \in Handles : curl_multi'[g] = IF g = h THEN "running"
                                                       ELSE curl_multi[g]
        /\ UNCHANGED <<response, msg>>
    BY <1>3 DEF Adds, Changes
  <2> QED
    BY <2>1, <2>2 DEF MessageInHand
<1>4. ASSUME NEW h \in Handles, Answered(h) PROVE MessageInHand'
  <2>1. /\ \A g \in Handles : curl_multi'[g] = IF g = h THEN "arrived"
                                                       ELSE curl_multi[g]
        /\ curl_multi[h] = "running" /\ response'[h] # None
        /\ UNCHANGED msg
        /\ \A g \in Handles : g # h => response'[g] = response[g]
    BY <1>4 DEF Answered, Changes
  <2>2. msg' # None => \/ curl_multi'[msg'] = "read"
                       \/ msg' \in Loaders /\ curl_multi'[msg'] = "freed"
    BY <2>1 DEF MessageInHand
  <2>3. \A g \in Handles : curl_multi'[g] = "read" => msg' = g
    BY <2>1 DEF MessageInHand
  <2>4. \A g \in Handles :
          curl_multi'[g] \in {"arrived", "done", "read", "out"}
            => response'[g] # None
    BY <2>1 DEF MessageInHand
  <2>5. \A l \in Links : curl_multi'[l] # "out"
    BY <2>1 DEF MessageInHand
  <2> QED
    BY <2>2, <2>3, <2>4, <2>5 DEF MessageInHand
<1>5. ASSUME NEW h \in Handles, Picks(h) PROVE MessageInHand'
  BY <1>5 DEF Picks, Changes, MessageInHand
<1>6. ASSUME NEW t \in Loaders, Frees(t) PROVE MessageInHand'
  <2>1. /\ \A g \in Handles : curl_multi'[g] = IF g = t THEN "freed"
                                                       ELSE curl_multi[g]
        /\ UNCHANGED <<response, msg>> /\ t \in Handles
    BY <1>6 DEF Frees, Changes
  <2>2. msg' # None => \/ curl_multi'[msg'] = "read"
                       \/ msg' \in Loaders /\ curl_multi'[msg'] = "freed"
    BY <2>1 DEF MessageInHand
  <2>3. \A g \in Handles : curl_multi'[g] = "read" => msg' = g
    BY <2>1 DEF MessageInHand
  <2>4. \A g \in Handles :
          curl_multi'[g] \in {"arrived", "done", "read", "out"}
            => response'[g] # None
    BY <2>1 DEF MessageInHand
  <2>5. \A l \in Links : curl_multi'[l] # "out"
    BY <2>1 DEF MessageInHand
  <2> QED
    BY <2>2, <2>3, <2>4, <2>5 DEF MessageInHand
<1>7. ASSUME NEW h \in Handles, NEW state \in {"freed", "out"},
             Removes(h, state)
      PROVE  MessageInHand'
  BY <1>7 DEF Removes, Changes, MessageInHand
<1> QED
  BY <1>1, <1>2, <1>3, <1>4, <1>5, <1>6, <1>7, HandlesMove

\* Where a thread is after its step; the other threads stay.
LEMMA LoadGoes ==
  ASSUME LocksOK, NEW t \in Loaders, Load(t)
  PROVE  /\ \A u \in Loaders : u # t => pc'[u] = pc[u]
         /\ pc[t] \notin {"loaded", "failed"}
         /\ pc[t] = "add page" <=> AddPage(t)
         /\ pc'[t] = "add page" <=> RetryPage(t)
<1> pc \in [Loaders -> Pcs]
  BY DEF LocksOK
<1>1. PICK label \in Pcs : Goto(t, label)
  BY LockMoves DEF Outside, Locks, Unlocks, Reads, GoesOn, Drops, Pcs, Locked
<1>2. \A u \in Loaders : pc'[u] = IF u = t THEN label ELSE pc[u]
  BY <1>1, LoaderAt
<1>3. CASE \/ AddPage(t) \/ WaitPage(t) \/ RetryPage(t) \/ EndPage(t)
           \/ Link_req_file_stat(t) \/ NothingToRequest(t) \/ Scan(t)
  BY <1>2, <1>3
  DEF AddPage, WaitPage, RetryPage, EndPage, Link_req_file_stat,
      NothingToRequest, Scan, FillDone, Goto
<1>4. CASE \/ AfterPerform(t) \/ LinkTable_disk_save(t) \/ Perform(t)
           \/ ReadMessage(t) \/ NoMessage(t) \/ StartMessage(t) \/ SetType(t)
           \/ SetLength(t) \/ RemoveHandle(t)
  BY <1>2, <1>4
  DEF AfterPerform, LinkTable_disk_save, GiveUp, FillDone, Perform, ReadMessage,
      NoMessage, StartMessage, SetType, SetLength, RemoveHandle, Goto,
      AddPage, RetryPage
<1> QED
  BY <1>3, <1>4 DEF Load

\* An index page that failed temporarily keeps its retry until it takes it.
LEMMA RetryStep ==
  ASSUME LocksOK, NetOK, TablesOK, PageAt, MessageInHand, RequestedOnce,
         RetryLeft, [Next]_vars
  PROVE  RetryLeft'
<1> DEFINE In(state) == state \in {"arrived", "done", "read", "out"}
<1> /\ Loaders \subseteq Handles /\ temps \in [Loaders -> 0 .. MaxTemp]
    /\ pc \in [Loaders -> Pcs]
  BY LinksIn DEF NetOK, LocksOK
<1>1. ASSUME NEW t \in Loaders, Load(t) PROVE RetryLeft'
  <2>1. \A u \in Loaders : In(curl_multi'[u]) => In(curl_multi[u])
    <3>1. CASE SameHandles
      BY <3>1 DEF SameHandles
    <3>2. CASE TakesIn
      BY <3>2 DEF TakesIn
    <3>3. CASE Frees(t)
      BY <3>3 DEF Frees, Changes
    <3>4. ASSUME NEW h \in Handles, Adds(h) \/ Picks(h)
          PROVE  \A u \in Loaders : In(curl_multi'[u]) => In(curl_multi[u])
      BY <3>4 DEF Adds, Picks, Changes
    <3>5. ASSUME NEW h \in Handles, NEW state \in {"freed", "out"},
                 Removes(h, state)
          PROVE  \A u \in Loaders : In(curl_multi'[u]) => In(curl_multi[u])
      <4>1. curl_multi[h] \in {"read", "freed"}
        BY <3>5, LinksIn DEF Removes, MessageInHand
      <4> QED
        BY <3>5, <4>1 DEF Removes, Changes
    <3> QED
      BY <1>1, <3>1, <3>2, <3>3, <3>4, <3>5, LoadMoves
  <2>2. UNCHANGED response
    BY <1>1 DEF Load, AddPage, WaitPage, RetryPage, EndPage, Link_req_file_stat,
      NothingToRequest, Scan, AfterPerform, LinkTable_disk_save, Perform,
      ReadMessage, NoMessage, StartMessage, SetType, SetLength, RemoveHandle, net
  <2>3. CASE AddPage(t)
    <3>1. /\ curl_multi'[t] = "running" /\ UNCHANGED temps
          /\ \A u \in Loaders : u # t => pc'[u] = pc[u]
      BY <1>1, <2>3, LoadGoes DEF AddPage, Set, NetOK
    <3> QED
      BY <2>1, <2>2, <3>1 DEF RetryLeft
  <2>4. CASE RetryPage(t)
    <3>1. /\ pc'[t] = "add page"
          /\ \A u \in Loaders : u # t => pc'[u] = pc[u] /\ temps'[u] = temps[u]
      BY <1>1, <2>4, LoadGoes DEF RetryPage
    <3> QED
      BY <2>1, <2>2, <3>1 DEF RetryLeft
  <2>5. CASE ~AddPage(t) /\ ~RetryPage(t)
    <3>1. /\ pc[t] # "add page"
          /\ \A u \in Loaders : u # t => pc'[u] = pc[u]
      BY <1>1, <2>5, LoadGoes
    <3>2. UNCHANGED temps
      BY <1>1, <2>5 DEF Load, WaitPage, EndPage, Link_req_file_stat,
        NothingToRequest, Scan, AfterPerform, LinkTable_disk_save, Perform,
        ReadMessage, NoMessage, StartMessage, SetType, SetLength, RemoveHandle,
        page
    <3> QED
      BY <2>1, <2>2, <3>1, <3>2 DEF RetryLeft
  <2> QED
    BY <2>3, <2>4, <2>5
<1>2. ASSUME NEW h \in Handles, Arrive(h) PROVE RetryLeft'
  <2>1. PICK a : /\ a = "temp" /\ h \in Loaders => temps[h] < MaxTemp
                 /\ response' = [response EXCEPT ![h] = a]
    BY <1>2 DEF Arrive
  <2>2. /\ response'[h] = a
        /\ \A u \in Loaders : u # h => /\ response'[u] = response[u]
                                       /\ curl_multi'[u] = curl_multi[u]
    BY <1>2, <2>1, HandleAt DEF Arrive, NetOK
  <2>3. UNCHANGED <<pc, temps>>
    BY <1>2 DEF Arrive, page
  <2> QED
    BY <2>1, <2>2, <2>3 DEF RetryLeft
<1>3. CASE UNCHANGED vars
  BY <1>3 DEF vars, RetryLeft
<1> QED
  BY <1>1, <1>2, <1>3 DEF Next
-----------------------------------------------------------------------------
(* The links. *)

\* A link that is known stays known.
LEMMA UnknownShrinks ==
  ASSUME TablesOK, NEW t \in Loaders, [Next]_vars
  PROVE  Unknown(t)' \subseteq Unknown(t)
<1> type \in [Links -> Types] /\ LinksOf[t] \subseteq Links
  BY LinksIn DEF TablesOK
<1>1. ASSUME NEW u \in Loaders, AfterPerform(u)
      PROVE  Unknown(t)' \subseteq Unknown(t)
  <2>1. \A l \in Links : type'[l] \in Uninitialised => type[l] \in Uninitialised
    BY <1>1 DEF AfterPerform, GiveUp, Uninitialised
  <2> QED
    BY <2>1 DEF Unknown
<1>2. ASSUME NEW u \in Loaders, SetType(u)
      PROVE  Unknown(t)' \subseteq Unknown(t)
  <2>1. \A l \in Links : StatType(l) \in Uninitialised => type[l] \in Uninitialised
    BY DEF StatType, FileType, Uninitialised, Good
  <2>2. \A l \in Links : type'[l] \in Uninitialised => type[l] \in Uninitialised
    BY <1>2, <2>1 DEF SetType
  <2> QED
    BY <2>2 DEF Unknown
<1>3. CASE UNCHANGED type
  BY <1>3 DEF Unknown
<1> QED
  BY <1>1, <1>2, <1>3
  DEF Next, Load, AddPage, WaitPage, RetryPage, EndPage, Link_req_file_stat,
      NothingToRequest, Scan, LinkTable_disk_save, Perform, ReadMessage,
      NoMessage, StartMessage, SetLength, RemoveHandle, Arrive, net, table, vars

\* The handles that are new, and the pages that are done with, at a step other
\* than those that name them.
LEMMA NewAndFreed ==
  ASSUME LocksOK, NetOK, TablesOK, PageAt, MessageInHand, RequestedOnce,
         NEW t \in Loaders, Load(t), ~Link_req_file_stat(t), ~EndPage(t)
  PROVE  /\ \A l \in Links : curl_multi'[l] = "none" <=> curl_multi[l] = "none"
         /\ \A u \in Loaders :
              curl_multi'[u] = "freed" <=> curl_multi[u] = "freed"
<1> Loaders \subseteq Handles /\ Links \subseteq Handles /\ Loaders \cap Links = {}
  BY LinksIn
<1> DEFINE Kept ==
      /\ \A l \in Links : curl_multi'[l] = "none" <=> curl_multi[l] = "none"
      /\ \A u \in Loaders : curl_multi'[u] = "freed" <=> curl_multi[u] = "freed"
<1>1. CASE SameHandles
  BY <1>1 DEF SameHandles
<1>2. CASE TakesIn
  BY <1>2 DEF TakesIn
<1>3. CASE AddPage(t)
  <2>1. \A g \in Handles : curl_multi'[g] = IF g = t THEN "running"
                                                    ELSE curl_multi[g]
    BY <1>3, HandleAt DEF AddPage, NetOK
  <2>2. curl_multi[t] # "freed"
    BY <1>3 DEF AddPage, PageAt
  <2> QED
    BY <2>1, <2>2
<1>4. CASE ReadMessage(t)
  <2>1. PICK h \in Handles : curl_multi[h] = "done" /\ Set(h, "read")
    BY <1>4 DEF ReadMessage, Queued
  <2>2. \A g \in Handles : curl_multi'[g] = IF g = h THEN "read"
                                                    ELSE curl_multi[g]
    BY <2>1, HandleAt DEF NetOK
  <2> QED
    BY <2>1, <2>2
<1>5. ASSUME NEW h \in Handles, NEW state \in {"freed", "out"},
             Removes(h, state)
      PROVE  Kept
  <2>1. /\ \A g \in Handles : curl_multi'[g] = IF g = h THEN state
                                                       ELSE curl_multi[g]
        /\ state = "freed" <=> h \in Links \/ curl_multi[h] = "freed"
    BY <1>5 DEF Removes, Changes
  <2>2. curl_multi[h] # "none"
    BY <1>5, LinksIn DEF Removes, MessageInHand
  <2> QED
    BY <2>1, <2>2
<1>6. CASE RemoveHandle(t)
  <2>1. msg \in Handles
    BY <1>6, OneHolder DEF RemoveHandle, Locked
  <2>2. PICK state \in {"freed", "out"} :
          /\ Set(msg, state)
          /\ state = "freed" <=> msg \in Links \/ curl_multi[msg] = "freed"
    BY <1>6 DEF RemoveHandle
  <2>3. Changes(msg, state)
    BY <2>1, <2>2, HandleAt DEF NetOK, Changes
  <2>4. Removes(msg, state)
    BY <1>6, <2>2, <2>3 DEF RemoveHandle, Removes
  <2> QED
    BY <1>5, <2>1, <2>4
<1>7. CASE ~AddPage(t) /\ ~ReadMessage(t) /\ ~RemoveHandle(t)
  <2>1. \/ UNCHANGED curl_multi
        \/ Perform(t)
    BY <1>7 DEF Load, WaitPage, RetryPage, NothingToRequest, Scan, AfterPerform,
      LinkTable_disk_save, NoMessage, StartMessage, SetType, SetLength, net
  <2>2. CASE Perform(t)
    BY <2>2 DEF Perform
  <2> QED
    BY <2>1, <2>2
<1> QED
  BY <1>3, <1>4, <1>6, <1>7

\* The links of a page are requested once, one by one.
LEMMA RequestedStep ==
  ASSUME LocksOK, NetOK, TablesOK, PerLoader, PageAt, MessageInHand, RequestedOnce,
         FillComplete, [Next]_vars
  PROVE  RequestedOnce'
<1> /\ pc \in [Loaders -> Pcs] /\ curl_multi \in [Handles -> HandleStates]
    /\ toRequest = [t \in Loaders |-> toRequest[t]]
  BY DEF LocksOK, NetOK, PerLoader
<1>a. /\ Loaders \subseteq Handles /\ Links \subseteq Handles
      /\ Loaders \cap Links = {} /\ \A t \in Loaders : LinksOf[t] \subseteq Links
  BY LinksIn
<1>b. \A t \in Loaders : Unknown(t)' \subseteq Unknown(t)
  BY UnknownShrinks
<1>c. \A t \in Loaders : Unknown(t) \subseteq LinksOf[t]
  BY DEF Unknown
<1>1. ASSUME UNCHANGED toRequest,
             \A l \in Links : curl_multi'[l] = "none" <=> curl_multi[l] = "none",
             \A t \in Loaders :
               /\ curl_multi'[t] = "freed" <=> curl_multi[t] = "freed"
               /\ pc'[t] = "request" => pc[t] = "request"
               /\ pc[t] = "request" /\ pc'[t] # "request" => toRequest[t] = {}
               /\ pc[t] = "failed" => pc'[t] = "failed"
      PROVE  RequestedOnce'
  <2>1. \A t \in Loaders : toRequest[t] \subseteq Links
    BY <1>a DEF TablesOK
  <2> QED
    BY <1>1, <1>a, <1>b, <1>c, <2>1 DEF RequestedOnce
<1>2. ASSUME NEW t \in Loaders, Load(t), ~Link_req_file_stat(t), ~EndPage(t),
             ~LinkTable_disk_save(t)
      PROVE  RequestedOnce'
  <2>1. /\ \A l \in Links : curl_multi'[l] = "none" <=> curl_multi[l] = "none"
        /\ \A u \in Loaders : curl_multi'[u] = "freed" <=> curl_multi[u] = "freed"
    BY <1>2, NewAndFreed
  <2>2. UNCHANGED toRequest
    BY <1>2
    DEF Load, AddPage, WaitPage, RetryPage, NothingToRequest, Scan, AfterPerform,
        Perform, ReadMessage, NoMessage, StartMessage, SetType, SetLength,
        RemoveHandle, net, table
  <2>3. /\ \A u \in Loaders : u # t => pc'[u] = pc[u]
        /\ pc[t] \notin {"loaded", "failed"}
    BY <1>2, LoadGoes
  <2>4. /\ pc'[t] # "request"
        /\ pc[t] = "request" => toRequest[t] = {}
    BY <1>2
    DEF Load, AddPage, WaitPage, RetryPage, NothingToRequest, Scan, AfterPerform,
        GiveUp, FillDone, Goto, Perform, ReadMessage, NoMessage, StartMessage,
        SetType, SetLength, RemoveHandle
  <2> QED
    BY <1>1, <2>1, <2>2, <2>3, <2>4
<1>3. ASSUME NEW t \in Loaders, Link_req_file_stat(t) PROVE RequestedOnce'
  <2>1. PICK l \in toRequest[t] :
          /\ toRequest' = [toRequest EXCEPT ![t] = @ \ {l}]
          /\ Set(l, "running")
          /\ Goto(t, IF toRequest[t] = {l} THEN "scan" ELSE "request")
    BY <1>3 DEF Link_req_file_stat
  <2>2. l \in LinksOf[t] /\ l \in Links /\ pc[t] = "request" /\ l \notin Loaders
    BY <1>3, <1>a DEF TablesOK, Link_req_file_stat
  <2>3. \A g \in Handles : curl_multi'[g] = IF g = l THEN "running"
                                                    ELSE curl_multi[g]
    BY <1>a, <2>1, <2>2, HandleAt
  <2>4. \A u \in Loaders : toRequest'[u] = IF u = t THEN toRequest[t] \ {l}
                                                    ELSE toRequest[u]
    BY <2>1
  <2>5. /\ \A u \in Loaders : u # t => pc'[u] = pc[u]
        /\ pc'[t] = IF toRequest[t] = {l} THEN "scan" ELSE "request"
    BY <2>1 DEF Goto
  <2>6. curl_multi[t] = "freed"
    BY <2>2 DEF PageAt
  <2>7. \A u \in Loaders : u # t => l \notin LinksOf[u]
    BY <2>2, LinksIn
  <2>8. /\ toRequest[t] \subseteq LinksOf[t] /\ toRequest[t] \subseteq Links
        /\ \A u \in Loaders : toRequest[u] \subseteq LinksOf[u]
    BY <1>a DEF TablesOK
  <2>9. ASSUME NEW u \in Loaders, u # t
        PROVE  /\ toRequest'[u] # {} => pc'[u] = "request"
               /\ pc'[u] = "request" /\ toRequest'[u] = {} => Unknown(u)' = {}
               /\ \A m \in toRequest'[u] : curl_multi'[m] = "none"
               /\ curl_multi'[u] # "freed"
                    => \A m \in LinksOf[u] : curl_multi'[m] = "none"
               /\ curl_multi'[u] = "freed" /\ pc'[u] # "failed"
                    => \A m \in Unknown(u)' \ toRequest'[u] : curl_multi'[m] # "none"
    <3>1. \A m \in LinksOf[u] : curl_multi'[m] = curl_multi[m]
      BY <1>a, <2>3, <2>7, <2>9
    <3>2. /\ curl_multi'[u] = curl_multi[u] /\ toRequest'[u] = toRequest[u]
          /\ pc'[u] = pc[u]
      BY <1>a, <2>2, <2>3, <2>4, <2>5, <2>9
    <3>3. Unknown(u)' \subseteq Unknown(u) /\ Unknown(u) \subseteq LinksOf[u]
      BY <1>b, <1>c
    <3> QED
      BY <2>8, <3>1, <3>2, <3>3 DEF RequestedOnce
  <2>10. /\ toRequest'[t] # {} => pc'[t] = "request"
         /\ pc'[t] = "request" /\ toRequest'[t] = {} => Unknown(t)' = {}
    BY <2>1, <2>4, <2>5
  <2>11. \A m \in toRequest'[t] : curl_multi'[m] = "none"
    BY <1>a, <2>3, <2>4, <2>8 DEF RequestedOnce
  <2>12. curl_multi'[t] = "freed"
    BY <1>a, <2>2, <2>3, <2>6
  <2>13. \A m \in Unknown(t)' \ toRequest'[t] : curl_multi'[m] # "none"
    <3>1. \A m \in Unknown(t) \ toRequest[t] : curl_multi[m] # "none"
      BY <2>2, <2>6 DEF RequestedOnce
    <3>2. Unknown(t)' \subseteq Unknown(t) /\ Unknown(t) \subseteq Handles
      BY <1>a, <1>b, <1>c
    <3> QED
      BY <2>3, <2>4, <3>1, <3>2
  <2> QED
    BY <2>9, <2>10, <2>11, <2>12, <2>13 DEF RequestedOnce
<1>4. ASSUME NEW t \in Loaders, EndPage(t) PROVE RequestedOnce'
  <2>1. /\ \A g \in Handles : curl_multi'[g] = IF g = t THEN "freed"
                                                       ELSE curl_multi[g]
        /\ pc[t] = "page" /\ curl_multi[t] # "freed" /\ UNCHANGED type
    BY <1>4, <1>a, HandleAt DEF EndPage, PageAt
  <2>2. Unknown(t)' = Unknown(t) /\ toRequest[t] = {}
    BY <2>1 DEF Unknown, RequestedOnce
  <2>3. \A l \in Links : curl_multi'[l] = curl_multi[l]
    BY <1>a, <2>1
  <2>4. \A l \in LinksOf[t] : curl_multi'[l] = "none"
    BY <1>a, <2>1, <2>3 DEF RequestedOnce
  <2>5. PICK links, label :
          /\ \A u \in Loaders : pc'[u] = IF u = t THEN label ELSE pc[u]
          /\ \A u \in Loaders : toRequest'[u] = IF u = t THEN links
                                                         ELSE toRequest[u]
          /\ \/ links = Unknown(t) /\ label = "request"
             \/ links = {} /\ label = "failed"
    <3>1. CASE /\ toRequest' = [toRequest EXCEPT ![t] = Unknown(t)]
               /\ Goto(t, "request")
      BY <3>1, LoaderAt
    <3>2. CASE Goto(t, "failed") /\ UNCHANGED toRequest
      BY <2>2, <3>2, LoaderAt
    <3> QED
      BY <1>4, <3>1, <3>2 DEF EndPage
  <2>6. ASSUME NEW u \in Loaders, u # t
        PROVE  /\ toRequest'[u] # {} => pc'[u] = "request"
               /\ pc'[u] = "request" /\ toRequest'[u] = {} => Unknown(u)' = {}
               /\ \A m \in toRequest'[u] : curl_multi'[m] = "none"
               /\ curl_multi'[u] # "freed"
                    => \A m \in LinksOf[u] : curl_multi'[m] = "none"
               /\ curl_multi'[u] = "freed" /\ pc'[u] # "failed"
                    => \A m \in Unknown(u)' \ toRequest'[u] : curl_multi'[m] # "none"
    <3>1. /\ curl_multi'[u] = curl_multi[u] /\ toRequest'[u] = toRequest[u]
          /\ pc'[u] = pc[u]
      BY <1>a, <2>1, <2>5, <2>6
    <3>2. Unknown(u)' \subseteq Unknown(u) /\ Unknown(u) \subseteq LinksOf[u]
      BY <1>b, <1>c
    <3>3. toRequest[u] \subseteq LinksOf[u] /\ LinksOf[u] \subseteq Links
      BY <1>a DEF TablesOK
    <3> QED
      BY <2>3, <3>1, <3>2, <3>3 DEF RequestedOnce
  <2>7. curl_multi'[t] = "freed"
    BY <1>a, <2>1
  <2> QED
    BY <1>c, <2>2, <2>4, <2>5, <2>6, <2>7 DEF RequestedOnce
<1>5. ASSUME NEW t \in Loaders, LinkTable_disk_save(t) PROVE RequestedOnce'
  <2>1. Unknown(t) = {} /\ UNCHANGED curl_multi /\ toRequest[t] = {}
    BY <1>5 DEF LinkTable_disk_save, FillComplete, net, RequestedOnce
  <2>2. UNCHANGED toRequest
    BY <1>5, <2>1 DEF LinkTable_disk_save
  <2>3. PICK label : \A u \in Loaders : pc'[u] = IF u = t THEN label ELSE pc[u]
    BY <1>5, LoaderAt DEF LinkTable_disk_save
  <2>4. pc[t] = "save"
    BY <1>5 DEF LinkTable_disk_save
  <2>5. Unknown(t)' = {}
    BY <1>b, <2>1
  <2> QED
    BY <1>b, <2>1, <2>2, <2>3, <2>4, <2>5 DEF RequestedOnce
<1>6. ASSUME NEW h \in Handles, Arrive(h) PROVE RequestedOnce'
  <2>1. /\ Changes(h, "arrived") /\ curl_multi[h] = "running"
        /\ UNCHANGED <<pc, toRequest>>
    BY <1>6, ArriveMoves DEF Answered
  <2>2. \A g \in Handles : /\ curl_multi'[g] = "none" <=> curl_multi[g] = "none"
                           /\ curl_multi'[g] = "freed" <=> curl_multi[g] = "freed"
    BY <2>1 DEF Changes
  <2> QED
    BY <1>1, <1>a, <2>1, <2>2
<1>7. CASE UNCHANGED vars
  BY <1>1, <1>7 DEF vars
<1> QED
  BY <1>2, <1>3, <1>4, <1>5, <1>6, <1>7 DEF Next

\* A perform that saw nothing running has told its thread so, and what it told
\* stays true of the thread's own links.
LEMMA NothingStep ==
  ASSUME LocksOK, NetOK, TablesOK, PerLoader, PageAt, MessageInHand, RequestedOnce,
         NothingRuns, [Next]_vars
  PROVE  NothingRuns'
<1> DEFINE Busy(h) == curl_multi[h] \in {"running", "arrived"}
           Idle(l) == curl_multi[l] \in {"none", "freed"}
<1> /\ Loaders \subseteq Handles /\ Links \subseteq Handles
    /\ Loaders \cap Links = {} /\ \A t \in Loaders : LinksOf[t] \subseteq Links
  BY LinksIn
<1> /\ pc \in [Loaders -> Pcs] /\ curl_multi \in [Handles -> HandleStates]
    /\ running = [t \in Loaders |-> running[t]]
  BY DEF LocksOK, NetOK, PerLoader
<1>1. ASSUME UNCHANGED running,
             \A u \in Loaders : /\ pc'[u] \in Locked => pc[u] \in Locked
                                /\ pc'[u] = "performed" => pc[u] = "performed",
             \A h \in Handles : Busy(h)' => Busy(h),
             \A l \in Links : Idle(l) => Idle(l)'
      PROVE  NothingRuns'
  BY <1>1 DEF NothingRuns
<1>2. ASSUME NEW t \in Loaders, NEW h \in Handles, Load(t), Adds(h),
             pc'[t] \notin Locked \cup {"performed"}, UNCHANGED running,
             h = t \/ h \in LinksOf[t]
      PROVE  NothingRuns'
  <2>1. \A u \in Loaders : u # t => pc'[u] = pc[u]
    BY <1>2, LoadGoes
  <2>2. \A u \in Loaders : pc'[u] \notin Locked
    BY <1>2, <2>1, OneHolder DEF Adds
  <2>3. \A u \in Loaders : u # t => h \notin LinksOf[u]
    BY <1>2, LinksIn
  <2>4. \A u \in Loaders : u # t => \A l \in LinksOf[u] : Idle(l) => Idle(l)'
    BY <1>2, <2>3 DEF Adds, Changes
  <2> QED
    BY <1>2, <2>1, <2>2, <2>4 DEF NothingRuns
<1>3. ASSUME NEW t \in Loaders, AddPage(t) PROVE NothingRuns'
  <2>1. Changes(t, "running")
    BY <1>3, HandleAt DEF AddPage, Changes
  <2>2. curl_multi[t] # "read"
    BY <1>3, OneHolder, LinksIn DEF AddPage, MessageInHand
  <2>3. Adds(t)
    BY <1>3, <2>1, <2>2 DEF AddPage, Adds, PageAt
  <2>4. pc'[t] = "wait page" /\ UNCHANGED running
    BY <1>3 DEF AddPage, Goto
  <2> QED
    BY <1>2, <1>3, <2>3, <2>4 DEF Load, Locked
<1>4. ASSUME NEW t \in Loaders, Link_req_file_stat(t) PROVE NothingRuns'
  <2>1. PICK l \in toRequest[t] : Set(l, "running")
    BY <1>4 DEF Link_req_file_stat
  <2>2. l \in LinksOf[t] /\ l \in Handles /\ curl_multi[l] = "none"
    BY DEF TablesOK, RequestedOnce
  <2>3. Changes(l, "running")
    BY <2>1, <2>2, HandleAt DEF Changes
  <2>4. Adds(l)
    BY <1>4, <2>2, <2>3 DEF Link_req_file_stat, Adds
  <2>5. pc'[t] \in {"scan", "request"} /\ UNCHANGED running
    BY <1>4 DEF Link_req_file_stat, Goto
  <2> QED
    BY <1>2, <1>4, <2>2, <2>4, <2>5 DEF Load, Locked
<1>5. ASSUME NEW t \in Loaders, Perform(t) PROVE NothingRuns'
  <2>1. /\ \A h \in Handles : curl_multi'[h] = IF curl_multi[h] = "arrived"
                                                 THEN "done" ELSE curl_multi[h]
        /\ running'[t] = Cardinality(StillRunning)
        /\ \A u \in Loaders : u # t => running'[u] = running[u]
        /\ pc'[t] = "messages"
        /\ \A u \in Loaders : u # t => pc'[u] = pc[u]
    BY <1>5 DEF Perform, Goto
  <2>2. \A u \in Loaders : u # t => pc'[u] \notin Locked
    BY <1>5, <2>1, OneHolder DEF Perform
  <2>3. running'[t] = 0 => \A h \in Handles : ~Busy(h)'
    <3>1. IsFiniteSet(Handles)
      BY LoadersAssumption, FS_Union DEF LoadersAssumption, Handles
    <3>2. IsFiniteSet(StillRunning)
      BY <3>1, FS_Subset DEF StillRunning
    <3>3. running'[t] = 0 => StillRunning = {}
      BY <2>1, <3>2, FS_EmptySet
    <3> QED
      BY <2>1, <3>3 DEF StillRunning
  <2>4. \A l \in Links : Idle(l) => Idle(l)'
    BY <2>1
  <2> QED
    BY <2>1, <2>2, <2>3, <2>4 DEF NothingRuns, Locked
<1>6. ASSUME NEW t \in Loaders, NoMessage(t) PROVE NothingRuns'
  <2>1. UNCHANGED <<curl_multi, running>> /\ pc[t] = "messages"
    BY <1>6 DEF NoMessage
  <2>2. /\ pc'[t] = "performed"
        /\ \A u \in Loaders : u # t => pc'[u] = pc[u]
    BY <1>6 DEF NoMessage, Goto
  <2>3. msg = None
    BY <2>1, OneHolder
  <2>4. \A h \in Handles : curl_multi[h] \notin {"done", "read"}
    BY <1>6, <2>3, LinksIn DEF NoMessage, Queued, MessageInHand
  <2>5. running[t] = 0 => \A h \in Handles : ~Busy(h)
    BY <2>1 DEF NothingRuns, Locked
  <2>6. \A l \in Links : curl_multi[l] # "out"
    BY DEF MessageInHand
  <2>7. running[t] = 0 => \A l \in LinksOf[t] : Idle(l)
    BY <2>4, <2>5, <2>6 DEF HandleStates
  <2> QED
    BY <2>1, <2>2, <2>7 DEF NothingRuns, Locked
<1>7. ASSUME NEW h \in Handles, Arrive(h) PROVE NothingRuns'
  <2>1. /\ Changes(h, "arrived") /\ curl_multi[h] = "running"
        /\ UNCHANGED <<pc, running>>
    BY <1>7, ArriveMoves DEF Answered
  <2>2. \A u \in Loaders : running[u] = 0 => pc[u] \notin Locked
    BY <2>1 DEF NothingRuns
  <2>3. \A l \in Links : Idle(l) => Idle(l)'
    BY <2>1 DEF Changes
  <2> QED
    BY <2>1, <2>2, <2>3 DEF NothingRuns
<1>8. ASSUME NEW t \in Loaders, Load(t), ~AddPage(t), ~Link_req_file_stat(t),
             ~Perform(t), ~NoMessage(t)
      PROVE  NothingRuns'
  <2>1. /\ \A h \in Handles : Busy(h)' => Busy(h)
        /\ \A l \in Links : Idle(l) => Idle(l)'
    <3> DEFINE Kept == /\ \A h \in Handles : Busy(h)' => Busy(h)
                       /\ \A l \in Links : Idle(l) => Idle(l)'
    <3>1. CASE EndPage(t)
      <4>1. \A g \in Handles : curl_multi'[g] = IF g = t THEN "freed"
                                                        ELSE curl_multi[g]
        BY <3>1, HandleAt DEF EndPage
      <4> QED
        BY <4>1
    <3>2. CASE ReadMessage(t)
      <4>1. PICK h \in Handles : curl_multi[h] = "done" /\ Set(h, "read")
        BY <3>2 DEF ReadMessage, Queued
      <4>2. \A g \in Handles : curl_multi'[g] = IF g = h THEN "read"
                                                        ELSE curl_multi[g]
        BY <4>1, HandleAt
      <4> QED
        BY <4>1, <4>2
    <3>3. CASE RemoveHandle(t)
      <4>1. msg \in Handles
        BY <3>3, OneHolder DEF RemoveHandle, Locked
      <4>2. PICK state \in {"freed", "out"} :
              /\ Set(msg, state)
              /\ state = "freed" <=> msg \in Links \/ curl_multi[msg] = "freed"
        BY <3>3 DEF RemoveHandle
      <4>3. \A g \in Handles : curl_multi'[g] = IF g = msg THEN state
                                                          ELSE curl_multi[g]
        BY <4>1, <4>2, HandleAt
      <4> QED
        BY <4>1, <4>2, <4>3
    <3>4. CASE ~EndPage(t) /\ ~ReadMessage(t) /\ ~RemoveHandle(t)
      <4>1. UNCHANGED curl_multi
        BY <1>8, <3>4
        DEF Load, WaitPage, RetryPage, NothingToRequest, Scan, AfterPerform,
            LinkTable_disk_save, StartMessage, SetType, SetLength, net
      <4> QED
        BY <4>1
    <3> QED
      BY <3>1, <3>2, <3>3, <3>4
  <2>2. UNCHANGED running
    BY <1>8
    DEF Load, WaitPage, RetryPage, EndPage, NothingToRequest, Scan, AfterPerform,
        LinkTable_disk_save, ReadMessage, StartMessage, SetType, SetLength,
        RemoveHandle, net
  <2>3. \A u \in Loaders : u # t => pc'[u] = pc[u]
    BY <1>8, LoadGoes
  <2>4. /\ pc'[t] # "performed"
        /\ pc'[t] \in Locked => pc[t] \in Locked
    BY <1>8
    DEF Load, WaitPage, RetryPage, EndPage, NothingToRequest, Scan, AfterPerform,
        GiveUp, FillDone, Goto, LinkTable_disk_save, ReadMessage, StartMessage,
        SetType, SetLength, RemoveHandle, Locked
  <2> QED
    BY <1>1, <2>1, <2>2, <2>3, <2>4
<1>9. CASE UNCHANGED vars
  BY <1>1, <1>9 DEF vars
<1> QED
  BY <1>3, <1>4, <1>5, <1>6, <1>7, <1>8, <1>9 DEF Next

\* At the end of a fill, a link still unknown had an answer that leaves it so.
LEMMA GivenUp ==
  ASSUME LocksOK, NetOK, TablesOK, PageAt, RequestedOnce, NothingRuns, TypesTold,
         NEW t \in Loaders, pc[t] = "performed", curl_multi[t] = "freed",
         running[t] = 0, NEW l \in Unknown(t)
  PROVE  curl_multi[l] = "freed" /\ response[l] \in {"temp", "gone"}
<1>1. l \in LinksOf[t] /\ l \in Links /\ type[l] \in Uninitialised
  BY LinksIn DEF Unknown
<1>2. toRequest[t] = {}
  BY DEF RequestedOnce
<1>3. curl_multi[l] # "none"
  BY <1>2 DEF RequestedOnce
<1>4. curl_multi[l] = "freed"
  BY <1>1, <1>3 DEF NothingRuns
<1> QED
  BY <1>1, <1>4 DEF TypesTold, Judged

\* What a link's own answer makes of it.
LEMMA StatTypes ==
  ASSUME NEW l \in Links, response[l] \in Answers
  PROVE  /\ StatType(l) \in Uninitialised => response[l] \in {"temp", "gone"}
         /\ StatType(l) = "invalid" =>
              \/ type[l] = "invalid"
              \/ response[l] \in {"temp", "gone", "fail", "unsized"}
BY DEF StatType, FileType, Uninitialised, Answers, Good

\* A link gets its type from its own answer, when its message is looked at; one
\* that is given up was answered.
LEMMA TypesStep ==
  ASSUME LocksOK, NetOK, TablesOK, PerLoader, PageAt, MessageInHand, RequestedOnce,
         NothingRuns, TypesTold, GoodAnswersKept, [Next]_vars
  PROVE  TypesTold' /\ GoodAnswersKept'
<1> DEFINE Looked(l) == curl_multi[l] \in {"read", "freed"}
<1> /\ Loaders \subseteq Handles /\ Links \subseteq Handles
    /\ Loaders \cap Links = {} /\ None \notin Handles
  BY LinksIn
<1> /\ pc \in [Loaders -> Pcs] /\ curl_multi \in [Handles -> HandleStates]
    /\ response \in [Handles -> Answers \cup {None}]
  BY DEF LocksOK, NetOK
<1>1. ASSUME UNCHANGED <<type, response>>,
             \A l \in Links : Looked(l) => Looked(l)',
             \A l \in Links : Judged(l)' => Judged(l)
      PROVE  TypesTold' /\ GoodAnswersKept'
  BY <1>1 DEF TypesTold, GoodAnswersKept
<1>2. ASSUME UNCHANGED <<curl_multi, msg>>,
             \A u \in Loaders : pc'[u] \in {"length", "remove"}
                                  => pc[u] \in {"length", "remove"}
      PROVE  \A l \in Links : Judged(l)' => Judged(l)
  BY <1>2 DEF Judged
<1>3. ASSUME NEW t \in Loaders, SetType(t) PROVE TypesTold' /\ GoodAnswersKept'
  <2>1. /\ \A l \in Links : type'[l] = IF l = msg THEN StatType(l) ELSE type[l]
        /\ UNCHANGED <<curl_multi, response, msg>> /\ pc[t] = "stat"
    BY <1>3 DEF SetType, net
  <2>2. \A u \in Loaders : u # t => pc'[u] = pc[u]
    BY <1>3 DEF SetType, Goto
  <2>3. msg \in Links => curl_multi[msg] = "read" /\ response[msg] \in Answers
    BY <2>1, OneHolder DEF MessageInHand, Locked
  <2>4. ASSUME NEW l \in Links, l = msg
        PROVE  /\ curl_multi'[l] = "read"
               /\ type'[l] \in Uninitialised => response'[l] \in {"temp", "gone"}
               /\ type'[l] = "invalid" =>
                    response'[l] \in {"temp", "gone", "fail", "unsized"}
    <3>1. curl_multi[l] = "read" /\ response[l] \in Answers
      BY <2>3, <2>4
    <3>2. /\ StatType(l) \in Uninitialised => response[l] \in {"temp", "gone"}
          /\ StatType(l) = "invalid" =>
               \/ type[l] = "invalid"
               \/ response[l] \in {"temp", "gone", "fail", "unsized"}
      BY <3>1, StatTypes
    <3> QED
      BY <2>1, <2>4, <3>1, <3>2 DEF GoodAnswersKept
  <2>5. ASSUME NEW l \in Links, l # msg
        PROVE  /\ type'[l] = type[l] /\ response'[l] = response[l]
               /\ curl_multi'[l] = curl_multi[l] /\ (Judged(l)' => Judged(l))
    BY <2>1, <2>5 DEF Judged
  <2> QED
    BY <2>4, <2>5 DEF TypesTold, GoodAnswersKept
<1>4. ASSUME NEW t \in Loaders, AfterPerform(t)
      PROVE  TypesTold' /\ GoodAnswersKept'
  <2>1. UNCHANGED <<curl_multi, response, msg>> /\ pc[t] = "performed"
    BY <1>4 DEF AfterPerform, net
  <2>2. /\ \A u \in Loaders : u # t => pc'[u] = pc[u]
        /\ pc'[t] \in {"scan", "save", "loaded", "wait page"}
    BY <1>4 DEF AfterPerform, GiveUp, FillDone, Goto
  <2>3. \A l \in Links : Judged(l)' => Judged(l)
    BY <1>2, <2>1, <2>2
  <2>4. CASE UNCHANGED type
    BY <1>1, <2>1, <2>3, <2>4
  <2>5. CASE /\ curl_multi[t] = "freed" /\ running[t] = 0
             /\ type' = [l \in Links |-> IF l \in Unknown(t) THEN "invalid"
                                                              ELSE type[l]]
    <3>1. ASSUME NEW l \in Unknown(t)
          PROVE  curl_multi[l] = "freed" /\ response[l] \in {"temp", "gone"}
      BY <2>1, <2>5, GivenUp
    <3>2. \A l \in Links : type'[l] = IF l \in Unknown(t) THEN "invalid"
                                                           ELSE type[l]
      BY <2>5
    <3>3. "invalid" \notin Uninitialised
      BY DEF Uninitialised
    <3> QED
      BY <2>1, <2>3, <3>1, <3>2, <3>3 DEF TypesTold, GoodAnswersKept
  <2> QED
    BY <1>4, <2>4, <2>5 DEF AfterPerform, GiveUp
<1>5. ASSUME NEW h \in Handles, Arrive(h) PROVE TypesTold' /\ GoodAnswersKept'
  <2>1. /\ \A g \in Handles : curl_multi'[g] = IF g = h THEN "arrived"
                                                       ELSE curl_multi[g]
        /\ \A g \in Handles : g # h => response'[g] = response[g]
        /\ curl_multi[h] = "running" /\ UNCHANGED <<msg, pc, type>>
    BY <1>5, ArriveMoves DEF Answered, Changes
  <2>2. h \in Links => type[h] \in Uninitialised
    BY <2>1 DEF TypesTold
  <2>3. \A l \in Links : Looked(l) => Looked(l)' /\ l # h
    BY <2>1
  <2>4. \A l \in Links : Judged(l)' => Judged(l) /\ l # h
    BY <2>1 DEF Judged, MessageInHand
  <2>5. "invalid" \notin Uninitialised
    BY DEF Uninitialised
  <2>6. TypesTold'
    BY <2>1, <2>3, <2>4 DEF TypesTold
  <2>7. GoodAnswersKept'
    BY <2>1, <2>2, <2>5 DEF GoodAnswersKept
  <2> QED
    BY <2>6, <2>7
<1>6. ASSUME NEW t \in Loaders, Load(t), ~SetType(t), ~AfterPerform(t)
      PROVE  TypesTold' /\ GoodAnswersKept'
  <2>1. UNCHANGED <<type, response>>
    BY <1>6
    DEF Load, AddPage, WaitPage, RetryPage, EndPage, Link_req_file_stat,
        NothingToRequest, Scan, LinkTable_disk_save, Perform, ReadMessage,
        NoMessage, StartMessage, SetLength, RemoveHandle, net, table
  <2>2. \A u \in Loaders : u # t => pc'[u] = pc[u]
    BY <1>6, LoadGoes
  <2>3. pc'[t] \in {"length", "remove"} => pc[t] \in {"length", "remove"}
    BY <1>6
    DEF Load, AddPage, WaitPage, RetryPage, EndPage, Link_req_file_stat,
        NothingToRequest, Scan, LinkTable_disk_save, FillDone, Goto, Perform,
        ReadMessage, NoMessage, StartMessage, SetLength, RemoveHandle
  <2>4. \A u \in Loaders : pc'[u] \in {"length", "remove"}
                             => pc[u] \in {"length", "remove"}
    BY <2>2, <2>3
  <2>5. CASE SameHandles
    BY <1>1, <1>2, <2>1, <2>4, <2>5 DEF SameHandles
  <2>6. CASE TakesIn
    <3>1. /\ \A l \in Links : Looked(l) => Looked(l)'
          /\ \A l \in Links : curl_multi'[l] = "freed" => curl_multi[l] = "freed"
          /\ UNCHANGED msg
      BY <2>6 DEF TakesIn
    <3> QED
      BY <1>1, <2>1, <2>4, <3>1 DEF Judged
  <2>7. CASE Frees(t)
    <3>1. \A l \in Links : curl_multi'[l] = curl_multi[l]
      BY <2>7 DEF Frees, Changes
    <3>2. UNCHANGED msg
      BY <2>7 DEF Frees
    <3> QED
      BY <1>1, <2>1, <2>4, <3>1, <3>2 DEF Judged
  <2>8. ASSUME NEW h \in Handles, Adds(h) PROVE TypesTold' /\ GoodAnswersKept'
    <3>1. /\ \A g \in Handles : curl_multi'[g] = IF g = h THEN "running"
                                                         ELSE curl_multi[g]
          /\ curl_multi[h] \in {"none", "out"} /\ UNCHANGED msg
      BY <2>8 DEF Adds, Changes
    <3> QED
      BY <1>1, <2>1, <2>4, <3>1 DEF Judged
  <2>9. ASSUME NEW h \in Handles, Picks(h) PROVE TypesTold' /\ GoodAnswersKept'
    <3>1. /\ \A g \in Handles : curl_multi'[g] = IF g = h THEN "read"
                                                         ELSE curl_multi[g]
          /\ curl_multi[h] = "done" /\ msg = None
      BY <2>9 DEF Picks, Changes
    <3>2. \A u \in Loaders : pc[u] \notin {"length", "remove"}
      BY <3>1, OneHolder DEF Locked
    <3> QED
      BY <1>1, <2>1, <2>4, <3>1, <3>2 DEF Judged
  <2>10. ASSUME NEW h \in Handles, NEW state \in {"freed", "out"},
                Removes(h, state)
         PROVE  TypesTold' /\ GoodAnswersKept'
    <3>1. /\ \A g \in Handles : curl_multi'[g] = IF g = h THEN state
                                                         ELSE curl_multi[g]
          /\ h \in Links => state = "freed"
          /\ msg = h /\ msg' = None
      BY <2>10 DEF Removes, Changes
    <3>2. pc[t] = "remove"
      BY <1>6, <3>1
      DEF Load, AddPage, WaitPage, RetryPage, EndPage, Link_req_file_stat,
          NothingToRequest, Scan, LinkTable_disk_save, Perform, ReadMessage,
          NoMessage, StartMessage, SetLength, RemoveHandle, net, Queued
    <3> QED
      BY <1>1, <2>1, <3>1, <3>2 DEF Judged
  <2> QED
    BY <1>6, <2>5, <2>6, <2>7, <2>8, <2>9, <2>10, LoadMoves
<1>7. CASE UNCHANGED vars
  BY <1>1, <1>7 DEF vars, Judged
<1> QED
  BY <1>3, <1>4, <1>5, <1>6, <1>7 DEF Next

\* A thread leaves its fill when it has found no link unknown, or has given up
\* those that were.
LEMMA FillStep ==
  ASSUME LocksOK, NetOK, TablesOK, RequestedOnce, FillComplete, [Next]_vars
  PROVE  FillComplete'
<1>1. \A t \in Loaders : Unknown(t)' \subseteq Unknown(t)
  BY UnknownShrinks
<1>2. ASSUME NEW t \in Loaders, Load(t) PROVE FillComplete'
  <2>1. \A u \in Loaders : u # t => pc'[u] = pc[u]
    BY <1>2, LoadGoes
  <2>2. ASSUME pc'[t] \in {"save", "loaded"} PROVE Unknown(t)' = {}
    <3>1. CASE NothingToRequest(t)
      BY <1>1, <3>1 DEF NothingToRequest, RequestedOnce
    <3>2. CASE Scan(t)
      <4>1. Unknown(t) = {}
        BY <2>2, <3>2 DEF Scan, Goto, LocksOK
      <4> QED
        BY <1>1, <4>1
    <3>3. CASE AfterPerform(t)
      <4>1. type' = [l \in Links |-> IF l \in Unknown(t) THEN "invalid"
                                                          ELSE type[l]]
        BY <2>2, <3>3 DEF AfterPerform, GiveUp, Goto, LocksOK
      <4>2. \A l \in LinksOf[t] : l \in Links
        BY LinksIn
      <4> QED
        BY <4>1, <4>2 DEF Unknown, Uninitialised
    <3>4. CASE LinkTable_disk_save(t)
      BY <1>1, <3>4 DEF LinkTable_disk_save, FillComplete
    <3>5. CASE /\ ~NothingToRequest(t) /\ ~Scan(t) /\ ~AfterPerform(t)
               /\ ~LinkTable_disk_save(t)
      <4> pc \in [Loaders -> Pcs]
        BY DEF LocksOK
      <4>1. CASE \/ AddPage(t) \/ WaitPage(t) \/ RetryPage(t) \/ EndPage(t)
                 \/ Link_req_file_stat(t)
        BY <2>2, <4>1
        DEF AddPage, WaitPage, RetryPage, EndPage, Link_req_file_stat, Goto
      <4>2. CASE \/ Perform(t) \/ ReadMessage(t) \/ NoMessage(t)
                 \/ StartMessage(t) \/ SetType(t) \/ SetLength(t)
                 \/ RemoveHandle(t)
        BY <2>2, <4>2
        DEF Perform, ReadMessage, NoMessage, StartMessage, SetType, SetLength,
            RemoveHandle, Goto
      <4> QED
        BY <1>2, <3>5, <4>1, <4>2 DEF Load
    <3> QED
      BY <3>1, <3>2, <3>3, <3>4, <3>5
  <2> QED
    BY <1>1, <2>1, <2>2 DEF FillComplete
<1>3. CASE UNCHANGED pc
  BY <1>1, <1>3 DEF FillComplete
<1> QED
  BY <1>2, <1>3 DEF Next, Arrive, vars

-----------------------------------------------------------------------------
\* The invariant holds at the start: no handle is in the multi handle, and
\* nobody has looked at a link.
LEMMA LoadInit == ASSUME Init PROVE LoadInv
<1> MaxTemp \in Nat /\ None \notin Handles /\ IsFiniteSet(Handles)
  BY LoadersAssumption, FS_Union DEF LoadersAssumption, Handles
<1>1. LocksOK
  BY LinksIn DEF Init, LocksOK, Pcs, Locked
<1>2. NetOK
  <2>1. 0 \in 0 .. MaxTemp
    OBVIOUS
  <2>2. temps \in [Loaders -> 0 .. MaxTemp]
    BY <2>1 DEF Init
  <2>3. curl_multi \in [Handles -> HandleStates]
    BY DEF Init, HandleStates
  <2> QED
    BY <2>2, <2>3 DEF Init, NetOK
<1>3. TablesOK /\ PerLoader
  <2>1. 0 \in 0 .. Cardinality(Handles)
    BY FS_CardinalityType
  <2>2. type \in [Links -> Types]
    BY DEF Init, Types, Uninitialised
  <2>3. length = [l \in Links |-> 0]
    BY DEF Init
  <2>4. length \in [Links -> 0 .. 1]
    BY <2>3
  <2> QED
    BY <2>1, <2>2, <2>4 DEF Init, TablesOK, PerLoader
<1>4. PageAt /\ MessageInHand /\ RetryLeft
  BY LinksIn DEF Init, PageAt, MessageInHand, RetryLeft, Locked
<1>5. RequestedOnce /\ NothingRuns
  BY LinksIn DEF Init, RequestedOnce, NothingRuns, Locked
<1>6. TypesTold /\ GoodAnswersKept /\ FillComplete
  BY LinksIn DEF Init, TypesTold, Judged, Uninitialised, GoodAnswersKept, FillComplete
<1> QED
  BY <1>1, <1>2, <1>3, <1>4, <1>5, <1>6, TypeParts DEF LoadInv

\* Where every thread and every handle is while the directories are loaded.
THEOREM LoadInvariant == Spec => []LoadInv
<1>1. LoadInv /\ [Next]_vars => LoadInv'
  <2> SUFFICES ASSUME LoadInv, [Next]_vars PROVE LoadInv'
    OBVIOUS
  <2>1. LocksOK /\ NetOK /\ TablesOK
    BY TypeParts DEF LoadInv
  <2>2. /\ PerLoader /\ PageAt /\ MessageInHand /\ RetryLeft /\ RequestedOnce
        /\ NothingRuns /\ TypesTold /\ FillComplete /\ GoodAnswersKept
    BY DEF LoadInv
  <2>3. LocksOK'
    BY <2>1, LocksStep
  <2>4. NetOK'
    BY <2>1, <2>2, NetStep
  <2>5. TablesOK' /\ PerLoader'
    BY <2>1, <2>2, TablesStep
  <2>6. PageAt'
    BY <2>1, <2>2, PageStep
  <2>7. MessageInHand'
    BY <2>1, <2>2, MessageStep
  <2>8. RetryLeft'
    BY <2>1, <2>2, RetryStep
  <2>9. RequestedOnce'
    BY <2>1, <2>2, RequestedStep
  <2>10. NothingRuns'
    BY <2>1, <2>2, NothingStep
  <2>11. TypesTold' /\ GoodAnswersKept'
    BY <2>1, <2>2, TypesStep
  <2>12. FillComplete'
    BY <2>1, <2>2, FillStep
  <2>13. TypeOK'
    <3>1. TypeOK' <=> LocksOK' /\ NetOK' /\ TablesOK'
      BY DEF TypeOK, LocksOK, NetOK, TablesOK, HandleStates
    <3> QED
      BY <2>3, <2>4, <2>5, <3>1
  <2> QED
    BY <2>5, <2>6, <2>7, <2>8, <2>9, <2>10, <2>11, <2>12, <2>13 DEF LoadInv
<1> QED
  BY <1>1, LoadInit, PTL DEF Spec

\* The state keeps its ranges: transfer_lock is held, and a message is in hand,
\* exactly inside curl_multi_perform_once.
THEOREM LoadTypes == Spec => []TypeOK
<1>1. LoadInv => TypeOK
  BY DEF LoadInv
<1> QED
  BY <1>1, LoadInvariant, PTL

\* A thread that leaves Link_download_full's loop has its page, whichever
\* thread has processed the message that told it so.
THEOREM PagesAreIn == Spec => []PageIsIn
<1>1. LoadInv => PageIsIn
  BY LinksIn DEF LoadInv, PageAt, MessageInHand, PageIsIn
<1> QED
  BY <1>1, LoadInvariant, PTL

\* The listing that LinkTable_disk_save writes has no unknown link.
THEOREM ListingsComplete == Spec => []FillComplete
<1>1. LoadInv => FillComplete
  BY DEF LoadInv
<1> QED
  BY <1>1, LoadInvariant, PTL

\* A link that is given up had an answer of its own that was bad: none is given
\* up that was answered well, nor while its answer is still to come.
THEOREM AnswersKept == Spec => []GoodAnswersKept
<1>1. LoadInv => GoodAnswersKept
  BY DEF LoadInv
<1> QED
  BY <1>1, LoadInvariant, PTL
===============================================================================
