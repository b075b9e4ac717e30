----------------------------- MODULE MultiHandle -----------------------------
(***************************************************************************)
(* One curl multi handle for the whole process: curl_multi_perform_once,   *)
(* transfer_blocking and transfer_nonblocking of network.c, with the two   *)
(* callers of link.c that load a directory listing, Link_download_full and *)
(* LinkTable_uninitialised_fill.                                           *)
(*                                                                         *)
(* Whichever thread polls the multi handle processes the messages of every *)
(* thread's transfers.  transfer_lock is a variable, and curl_process_msgs *)
(* is taken apart into its writes: the threads it writes for read without  *)
(* the lock.  A loader is a thread in LinkTable_new.                       *)
(*                                                                         *)
(* An easy handle is named by what it fetches: the loader for its index    *)
(* page, the link for its header.                                          *)
(***************************************************************************)
EXTENDS Integers, FiniteSets

CONSTANTS Loaders,          \* threads, each loading a directory
          LinksOf,          \* the links on the page of each loader
          DirLinks,         \* the links whose names end in a slash
          ZeroLenIsDir,     \* CONFIG.zero_len_is_dir
          InvalidRefresh,   \* CONFIG.invalid_refresh
          MaxTemp,          \* bound: temporary failures of an index page
          None

Links == UNION {LinksOf[t] : t \in Loaders}
Handles == Loaders \cup Links

\* What the server may answer: 200 with a positive, a zero or no
\* Content-Length, a temporary failure, another status, or no answer.
\* A page comes with a body, or counts as gone.
Good == {"sized", "empty", "unsized"}
Answers == Good \cup {"temp", "gone", "fail"}
AnswersTo(h) == IF h \in Loaders THEN {"sized", "temp", "gone", "fail"} ELSE Answers

ASSUME LoadersAssumption ==
  /\ IsFiniteSet(Loaders) /\ IsFiniteSet(Links) /\ MaxTemp \in Nat
  /\ None \notin Handles \cup Answers
  /\ Loaders \cap Links = {} /\ DirLinks \subseteq Links
  /\ \A t, u \in Loaders : t # u => LinksOf[t] \cap LinksOf[u] = {}

VARIABLES transfer_lock,   \* who holds it
          curl_multi,      \* easy handle: "none", "running" or "arrived" in
                           \* the multi handle, "done" with its message
                           \* queued, "read", "out" again, or "freed"
          response,        \* the server's answer to it
          transferring,    \* ts->transferring of each loader's index page
          temps,           \* temporary failures of its page so far
          type, length,    \* the links: type and content_length
          toRequest,       \* links the request loop has not come to
          running,         \* n_running_curl of the thread's last perform
          msg,             \* the handle whose message is being processed
          saved,           \* the link table on disk
          pc

vars == <<transfer_lock, curl_multi, response, transferring, temps, type,
          length, toRequest, running, msg, saved, pc>>
net == <<transfer_lock, curl_multi, response, running, msg>>
table == <<type, length, toRequest, saved>>
page == <<transferring, temps>>

Uninitialised == {"newfile", "newdir"}
Unknown(t) == {l \in LinksOf[t] : type[l] \in Uninitialised}
StillRunning == {h \in Handles : curl_multi[h] = "running"}
Goto(t, label) == pc' = [pc EXCEPT ![t] = label]
Set(h, state) == curl_multi' = [curl_multi EXCEPT ![h] = state]

\* HTML_to_LinkTable's types are there from the start: nobody looks at them
\* before the page has arrived.
Init ==
  /\ transfer_lock = None /\ msg = None
  /\ curl_multi = [h \in Handles |-> "none"]
  /\ response = [h \in Handles |-> None]
  /\ transferring = [t \in Loaders |-> TRUE]
  /\ temps = [t \in Loaders |-> 0]
  /\ type = [l \in Links |-> IF l \in DirLinks THEN "newdir" ELSE "newfile"]
  /\ length = [l \in Links |-> 0]
  /\ toRequest = [t \in Loaders |-> {}]
  /\ running = [t \in Loaders |-> 0]
  /\ saved = [t \in Loaders |-> None]
  /\ pc = [t \in Loaders |-> "add page"]

-----------------------------------------------------------------------------
(* The server.  MaxTemp bounds the retries of an index page.               *)

Arrive(h) ==
  /\ curl_multi[h] = "running"
  /\ Set(h, "arrived")
  /\ \E a \in AnswersTo(h) :
       /\ a = "temp" /\ h \in Loaders => temps[h] < MaxTemp
       /\ response' = [response EXCEPT ![h] = a]
  /\ UNCHANGED <<transfer_lock, running, msg, table, page, pc>>

-----------------------------------------------------------------------------
(* Link_download_full: the index page, retried on temporary failures.      *)

\* Mutant: a retry starts with the flag the last attempt cleared.
AddPage_staleFlag(t) ==
  /\ pc[t] = "add page" /\ transfer_lock = None
  /\ Set(t, "running")
  /\ Goto(t, "wait page")
  /\ UNCHANGED <<transfer_lock, response, running, msg, table, page>>

AddPage(t) ==
  /\ pc[t] = "add page" /\ transfer_lock = None
  /\ transferring' = [transferring EXCEPT ![t] = TRUE]
  /\ Set(t, "running")
  /\ Goto(t, "wait page")
  /\ UNCHANGED <<transfer_lock, response, running, msg, table, temps>>

\* while (ts->transferring), read without the lock.
WaitPage(t) ==
  /\ pc[t] = "wait page"
  /\ Goto(t, IF transferring[t] THEN "perform" ELSE "page")
  /\ UNCHANGED <<net, table, page>>

RetryPage(t) ==
  /\ pc[t] = "page" /\ response[t] = "temp"
  /\ temps' = [temps EXCEPT ![t] = @ + 1]
  /\ Goto(t, "add page")
  /\ UNCHANGED <<net, table, transferring>>

\* curl_easy_cleanup.  Without a byte of a page LinkTable_new returns NULL; a
\* transfer that is cut short after its headers leaves what came of the page.
EndPage(t) ==
  /\ pc[t] = "page" /\ response[t] # "temp"
  /\ Set(t, "freed")
  /\ \/ /\ response[t] \in {"sized", "fail"}
        /\ toRequest' = [toRequest EXCEPT ![t] = Unknown(t)]
        /\ Goto(t, "request")
     \/ /\ response[t] # "sized"
        /\ Goto(t, "failed")
        /\ UNCHANGED toRequest
  /\ UNCHANGED <<transfer_lock, response, running, msg, type, length, saved,
                 page>>

-----------------------------------------------------------------------------
(* LinkTable_uninitialised_fill                                            *)

FillDone(t) == Goto(t, IF saved[t] = None THEN "save" ELSE "loaded")

\* Link_req_file_stat for each link that is not known yet; return if there
\* is none.
Link_req_file_stat(t) ==
  /\ pc[t] = "request" /\ transfer_lock = None
  /\ \E l \in toRequest[t] :
       /\ toRequest' = [toRequest EXCEPT ![t] = @ \ {l}]
       /\ Set(l, "running")
       /\ Goto(t, IF toRequest[t] = {l} THEN "scan" ELSE "request")
  /\ UNCHANGED <<transfer_lock, response, running, msg, type, length, saved,
                 page>>

NothingToRequest(t) ==
  /\ pc[t] = "request" /\ toRequest[t] = {}
  /\ FillDone(t)
  /\ UNCHANGED <<net, table, page>>

Scan(t) ==
  /\ pc[t] = "scan"
  /\ IF Unknown(t) = {} THEN FillDone(t) ELSE Goto(t, "perform")
  /\ UNCHANGED <<net, table, page>>

\* Mutant: the loop ends without marking the links it gives up.
GiveUp_unmarked(t) ==
  /\ IF running[t] = 0 THEN FillDone(t) ELSE Goto(t, "scan")
  /\ UNCHANGED type

\* When nothing is running any more, the links still unknown are given up.
GiveUp(t) ==
  IF running[t] = 0
    THEN /\ type' = [l \in Links |-> IF l \in Unknown(t) THEN "invalid"
                                                          ELSE type[l]]
         /\ FillDone(t)
    ELSE /\ Goto(t, "scan")
         /\ UNCHANGED type

\* Back in the caller's loop; a loader that has its page is filling.
AfterPerform(t) ==
  /\ pc[t] = "performed"
  /\ \/ curl_multi[t] = "freed" /\ GiveUp(t)
     \/ curl_multi[t] # "freed" /\ Goto(t, "wait page") /\ UNCHANGED type
  /\ UNCHANGED <<net, length, toRequest, saved, page>>

\* LinkTable_disk_save.  With CONFIG.invalid_refresh, path_to_LinkTable then
\* fills the table once more.
LinkTable_disk_save(t) ==
  /\ pc[t] = "save"
  /\ saved' = [saved EXCEPT ![t] =
                 [l \in LinksOf[t] |-> [type |-> type[l], length |-> length[l]]]]
  /\ \/ /\ InvalidRefresh
        /\ toRequest' = [toRequest EXCEPT ![t] = Unknown(t)]
        /\ Goto(t, "request")
     \/ Goto(t, "loaded") /\ UNCHANGED toRequest
  /\ UNCHANGED <<net, type, length, page>>

-----------------------------------------------------------------------------
(* curl_multi_perform_once and curl_process_msgs                           *)

\* Mutant: the lock does not cover the message queue.
Perform_unlocked(t) ==
  /\ pc[t] = "perform" /\ transfer_lock = None
  /\ running' = [running EXCEPT ![t] = Cardinality(StillRunning)]
  /\ curl_multi' = [h \in Handles |-> IF curl_multi[h] = "arrived" THEN "done"
                                                        ELSE curl_multi[h]]
  /\ Goto(t, "messages")
  /\ UNCHANGED <<transfer_lock, response, msg, table, page>>

\* Under transfer_lock: curl_multi_perform takes in what has arrived.
Perform(t) ==
  /\ pc[t] = "perform" /\ transfer_lock = None
  /\ transfer_lock' = t
  /\ running' = [running EXCEPT ![t] = Cardinality(StillRunning)]
  /\ curl_multi' = [h \in Handles |-> IF curl_multi[h] = "arrived" THEN "done"
                                                        ELSE curl_multi[h]]
  /\ Goto(t, "messages")
  /\ UNCHANGED <<response, msg, table, page>>

Queued == {h \in Handles : curl_multi[h] = "done"}

ReadMessage(t) ==
  /\ pc[t] = "messages" /\ Queued # {}
  /\ msg' \in Queued
  /\ Set(msg', "read")
  /\ Goto(t, "message")
  /\ UNCHANGED <<transfer_lock, response, running, table, page>>

\* Mutant: the unlock is forgotten.
NoMessage_keepsLock(t) ==
  /\ pc[t] = "messages" /\ Queued = {}
  /\ Goto(t, "performed")
  /\ UNCHANGED <<net, table, page>>

NoMessage(t) ==
  /\ pc[t] = "messages" /\ Queued = {}
  /\ transfer_lock' = None
  /\ Goto(t, "performed")
  /\ UNCHANGED <<curl_multi, response, running, msg, table, page>>

\* Mutant: the flag is cleared only on success.
ClearTransferring_unlessFailed(h) ==
  transferring' = [t \in Loaders |->
                     transferring[t] /\ (t # h \/ response[h] = "fail")]

\* The first write of curl_process_msgs.
ClearTransferring(h) ==
  transferring' = [t \in Loaders |-> transferring[t] /\ t # h]

\* What a 200 makes of a link that is not known yet.
FileType(answer) == CASE answer = "sized" -> "file"
                      [] answer = "empty" -> IF ZeroLenIsDir THEN "dir" ELSE "file"
                      [] answer = "unsized" -> "invalid"

\* The type a link's own answer gives it: Link_set_file_stat, and
\* LINK_INVALID when there is no answer.
StatType(l) ==
  CASE response[l] = "fail" -> "invalid"
    [] response[l] = "gone" /\ ~InvalidRefresh -> "invalid"
    [] response[l] \in Good /\ type[l] = "newdir" -> "dir"
    [] response[l] \in Good /\ type[l] = "newfile" -> FileType(response[l])
    [] OTHER -> type[l]

StartMessage(t) ==
  /\ pc[t] = "message"
  /\ ClearTransferring(msg)
  /\ Goto(t, "stat")
  /\ UNCHANGED <<net, table, temps>>

\* Reads the handle's URL and ts->type.
SetType(t) ==
  /\ pc[t] = "stat"
  /\ type' = [l \in Links |-> IF l = msg THEN StatType(l) ELSE type[l]]
  /\ Goto(t, "length")
  /\ UNCHANGED <<net, length, toRequest, saved, page>>

\* this_link->content_length = cl, after this_link->type = LINK_FILE.
SetLength(t) ==
  /\ pc[t] = "length"
  /\ length' = [l \in Links |-> IF l = msg /\ type[l] = "file" /\ response[l] = "sized"
                                  THEN 1 ELSE length[l]]
  /\ Goto(t, "remove")
  /\ UNCHANGED <<net, type, toRequest, saved, page>>

\* curl_multi_remove_handle; a FILESTAT handle is freed here.
RemoveHandle(t) ==
  /\ pc[t] = "remove"
  /\ Set(msg, IF msg \in Links \/ curl_multi[msg] = "freed" THEN "freed" ELSE "out")
  /\ msg' = None
  /\ Goto(t, "messages")
  /\ UNCHANGED <<transfer_lock, response, running, table, page>>

-----------------------------------------------------------------------------
Load(t) ==
  \/ AddPage(t) \/ WaitPage(t) \/ RetryPage(t) \/ EndPage(t)
  \/ Link_req_file_stat(t) \/ NothingToRequest(t) \/ Scan(t)
  \/ AfterPerform(t) \/ LinkTable_disk_save(t)
  \/ Perform(t) \/ ReadMessage(t) \/ NoMessage(t)
  \/ StartMessage(t) \/ SetType(t) \/ SetLength(t) \/ RemoveHandle(t)

Ended == \A t \in Loaders : pc[t] \in {"loaded", "failed"}

Next ==
  \/ \E t \in Loaders : Load(t)
  \/ \E h \in Handles : Arrive(h)
  \/ Ended /\ UNCHANGED vars

Spec == Init /\ [][Next]_vars

\* A thread that can run does; every transfer comes to an end.
FairSpec == /\ Spec
            /\ \A t \in Loaders : WF_vars(Load(t))
            /\ \A h \in Handles : WF_vars(Arrive(h))

-----------------------------------------------------------------------------
Locked == {"messages", "message", "stat", "length", "remove"}
Pcs == Locked \cup {"add page", "wait page", "page", "request", "scan",
                    "perform", "performed", "save", "loaded", "failed"}
Types == Uninitialised \cup {"file", "dir", "invalid"}

\* Ranges; transfer_lock is held, and a message is in hand, exactly where
\* curl_multi_perform_once says.
TypeOK ==
  /\ pc \in [Loaders -> Pcs]
  /\ \A t \in Loaders : (transfer_lock = t) <=> (pc[t] \in Locked)
  /\ (msg # None) <=> \E t \in Loaders : pc[t] \in Locked \ {"messages"}
  /\ msg \in Handles \cup {None}
  /\ curl_multi \in [Handles -> {"none", "running", "arrived", "done", "read",
                                "out", "freed"}]
  /\ response \in [Handles -> Answers \cup {None}]
  /\ transferring \in [Loaders -> BOOLEAN]
  /\ temps \in [Loaders -> 0..MaxTemp]
  /\ type \in [Links -> Types] /\ length \in [Links -> 0..1]
  /\ \A t \in Loaders :
       /\ toRequest[t] \subseteq LinksOf[t]
       /\ running[t] \in 0..Cardinality(Handles)
       /\ saved[t] # None =>
            saved[t] \in [LinksOf[t] -> [type : Types, length : 0..1]]

\* A thread that goes on with its page has the page: the handle is not in the
\* multi handle with its transfer still under way.
PageIsIn ==
  \A t \in Loaders :
    pc[t] = "page" => curl_multi[t] \in {"read", "out"} /\ response[t] # None

\* The listing that is saved and published has no link whose type is not
\* known, whoever processed its messages and whatever the answers were.
FillComplete ==
  \A t \in Loaders : pc[t] \in {"save", "loaded"} => Unknown(t) = {}

\* A link is given up only for its own answer: not because another thread
\* took its message, and not while its transfer is under way.
GoodAnswersKept ==
  \A l \in Links : type[l] = "invalid" =>
                      response[l] \in {"temp", "gone", "fail", "unsized"}

\* The size in the saved listing is the size the server gave.
SavedAsAnswered ==
  \A t \in Loaders : saved[t] # None =>
    \A l \in LinksOf[t] : saved[t][l].type = "file" /\ response[l] = "sized"
                             => saved[t][l].length = 1

\* Every load of a listing ends, although the threads process each other's
\* messages.
LoadEnds == \A t \in Loaders : <>(pc[t] \in {"loaded", "failed"})
=============================================================================
