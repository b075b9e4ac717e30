# A specification of httpdirfs

httpdirfs mounts an HTTP directory listing, a single file or a Sonic music
server as a read-only file system. This directory holds TLA+ modules that model
the parts of it where threads, locks, downloads and files on disk meet, TLC
configurations that check them on small instances, and TLAPS proofs, for every
size of them, about all that keep state and about the pure algorithms: how a read
is cut and served, what links a page has, and which tables a Subsonic server's
answers give. Source paths are relative to the repository; `cache.c:1463` is a line
of `src/cache.c`.

## The system

| Component | State | Operations | What makes it correct |
|---|---|---|---|
| Segment cache of one file (`cache.c`) | the `Cache` object: bitmap `seg`, list `active_dls` of reference-counted `ActiveDownload`s with a condition variable each, `w_lock`, `dl_lock`, `seek_lock`, semaphore `bgt_sem`, `waiters`, `shutting_down` | `Cache_open`, `Cache_close`, `Cache_read`, `Cache_read_segment`, `Cache_bgdl`, `ActiveDownload_*` | one download per segment at a time; no node lost, freed early or leaked; a set bit means a whole segment; a read returns the file's bytes, an error, or what a transfer under way had brought; every read and every close ends |
| Segment transfer (`link.c`, `memcache.c`) | a `TransferStruct` per thread, published in the `ActiveDownload` | `Link_download` and its retries, `write_memory_callback`, `Link_download_finish_transfer` | a waiter never copies from a buffer that was freed; a retry is followed |
| Cache files on disk (`cache.c`) | a metadata and a data file per cached file | `Meta_*`, `Data_*`, `Cache_exist`, `Cache_create`, `Cache_delete`, two attempts in `Cache_open` | what a bit on disk vouches for is there and not stale, whenever the process was killed |
| Tree of listings (`link.c`) | `LinkTable`s linked by `next_table`, `parent_tbl`, `refcount`, `orphaned`; `link_lock` | `path_to_Link`, `path_to_LinkTable`, `LinkTable_ref`/`unref`, load and attach | nothing in use is freed, everything released is; one table per directory |
| FUSE operations (`fuse_local.c`) | `fi->fh` of open files and directories | `open`, `release`, `opendir`, `releasedir`, `getattr`, `readdir`, `read` | references are taken and given back in pairs on every path; a read gives the bytes asked for |
| Network (`network.c`) | one curl multi handle and `transfer_lock` for the process | `transfer_blocking`, `transfer_nonblocking`, `curl_multi_perform_once`, `curl_process_msgs` | a thread goes on exactly when its own transfer is done, whoever processed the message |
| Filling of listings (`link.c`) | type and length of each link | `LinkTable_uninitialised_fill`, `Link_req_file_stat`, `Link_set_file_stat`, `Link_download_full` | the fill ends; no link is left unknown, or given up for another's answer |
| Listings on disk (`link.c`) | a saved `LinkTable` per directory, rewritten in place | `LinkTable_disk_save`, `_open`, `_delete`, the age check in `LinkTable_new` | a listing read back is one whole version of the page, if no save met the reading, and not too old |
| Set of link names (`link.c`) | `LinkHashSet`, open addressing | insert, grow | a name is in it once |
| HTML and URL helpers (`link.c`) | – | `HTML_to_LinkTable`, `external_url_to_filename`, `make_link_relative`, `url_to_cache_path` | each name is listed once; an external link stays one component of a path |
| Sonic support (`sonic.c`) | a table that grows while expat reports elements | `XML_parser_general`, `XML_parser_id3_root`, `sanitise_LinkTable` | the tables are what the answers say, in whatever order they say it |
| Wrappers (`util.c`) | a semaphore of a count, a mutex and a condition variable (`__APPLE__`); the table of allocations (`DEBUG`) | `sem_*_wrapper`, `CALLOC`, `REALLOC`, `FREE`, `mem_cleanup` | the semaphore is one; the table is what the program holds |
| Configuration, start-up, logging | `CONFIG` | read once by one thread | – |

How they meet: a FUSE thread looks a path up in the tree (`link_lock`), which
may load a listing through the network (`transfer_lock`) with `link_lock` let
go. `open` makes the `Link`'s `Cache` (`cf_lock`), which keeps a reference on
the `Link`'s table. `read` goes to `Cache_read`, which serves a segment from
the data file, waits for a download another thread runs, or starts one: in the
background if a slot of `bgt_sem` is free, else itself; then it may prefetch
the next segment. All transfers share the multi handle, and whichever thread
polls it processes the messages of all.

What is hard: threads that change shared state between an unlock and a relock
(`w_lock` during a download, `link_lock` during a load), objects with several
owners that let go in any order, condition variables and semaphores, answers
processed by a thread that did not ask, temporary failures retried for ever,
writes and other calls on files that fail, and kills at any time between writes to two files.
`PROJECT.json` lists each such hazard at its line with the properties that
cover it.

## Modules

| Module | Models | Checked or proved in |
|---|---|---|
| `SegmentCache` | one file's `Cache`: readers, background threads, transfers, open and close | `MCSegmentCache`, `SegmentCacheLocks`, `SegmentCacheProofs` |
| `SegmentStore` | the promise to readers, without threads and locks | |
| `SegmentRefinement` | `SegmentCache` implements `SegmentStore` | `MCSegmentCache`, `SegmentCacheProofs` |
| `ReadSplit` | one read, from `fs_read` down to the ranges asked of the server | `MCAlgorithms`, `AlgorithmProofs` |
| `LinkTree` | the tree of listings and the FUSE calls that use it | `MCLinkTree`, `LinkTreeProofs` |
| `MultiHandle` | the shared multi handle and the loading of listings through it | `MCMultiHandle`, `MultiHandleProofs` |
| `CacheDisk` | the two files of a cache, kills and repair | `MCCacheDisk`, `CacheDiskProofs` |
| `ListingDisk` | the saved listing of a directory, several threads, kills | `MCListingDisk`, `ListingDiskProofs` |
| `LinkNames` | from a page's hrefs to its links, names and cache paths | `MCAlgorithms`, `AlgorithmProofs` |
| `SonicParse` | from a Subsonic server's XML to tables | `MCAlgorithms`, `AlgorithmProofs` |
| `Semaphore` | what POSIX promises of a semaphore | |
| `PortableSemaphore` | `util.c`'s semaphore, as `bgt_sem` uses it, implements `Semaphore` | `MCUtil`, `UtilProofs` |
| `MemTracker` | the debug build's table of allocations | `MCUtil`, `UtilProofs` |

Operators named like C functions translate those functions. An action is one
stretch of code that no other thread can see half done; a `pc` label names the
place where a thread stands between two stretches. `Mutant:` definitions are
changed forms of the definition below them, with a bug the code does not have;
no specification uses them. They are there to show that each property can fail.

### SegmentCache

A reader is a FUSE thread with one handle on the file; a worker is a background
thread with its slot of `bgt_sem`. `Cache_read_segment` becomes the actions
`ReadCached`, `MissCached`, `JoinDownload`, the wait loop (`EarlyReturn`,
`SleepAgain`, `DownloadEnded`), the search for a slot (`TrySlot`, `AddBg`,
`Launch`), the download in the foreground (`SyncRetry`, `SyncStart`, `Store`,
`SyncFailed`, `SyncUntrack`) and the prefetch (`PeekNext`, `TryNextSlot`,
`AddNext`, `LaunchNext`). `Cache_bgdl` is `Store`, `BgUntrack`, `BgPost`; the
transfer is `Attempt`, `ReceiveChunk`, `TransferOk`, `TransferGone`,
`TransferRetry`; `Cache_close` is `Cache_close`, `CollectSlot`,
`SaveAndShutDown`, `FreeCache`.

`w_lock` is a variable, since it is held across stretches. A `dl_lock` section
is one action, since nothing in one blocks; `seek_lock` is only taken under
`w_lock` and left out. FUSE releases a handle
only when no read on it is under way. The branches of `Cache_read_segment` that
return `-EIO` for a state that `w_lock` excludes are dead code and absent
(`AddBgFindsNoRival` is the case for one). `Cache_open` returning NULL ends
the process, and so is not a state of this module.

A server may reply with the range (`"ok"`), a part of it (`"short"`), the whole
file with status 200 (`"whole"`, of a server that ignores ranges), a temporary or a
permanent error (`"temp"`, `"gone"`), or status 416 (`"unsat"`), which counts as
success (`link.c:1817`). The body of the last three is a page of `ErrorPage` chunks.
`write_memory_callback` collects whatever comes, however long, and
`Link_download` looks at status and length afterwards. Bytes are `"file"` (the right
ones), `"junk"` (wrong ones), or, in a reader's answer, `"unchecked"`: copied out of a
transfer under way whose bytes are not the range's. Two assumptions about the
server are named where they are needed. `NoLookalike`: the page of a 416 is not
exactly as long as the range, since that is the one reply `Link_download` takes for
the range. `FaithfulServer`: it honours ranges and sends no page with an error.

Replies that make `Link_download_cleanup` end the process (no range header) are
`ReadSplit`'s; here every reply passes that check. The last close always writes the
bitmap whole, and the process is never killed; the order of writes to the two files,
and kills between them, are `CacheDisk`'s subject.

### LinkTree

`path_to_Link_recursive` walks the tree under `link_lock`, pins the table it
stands on, lets the lock go to load a listing, and attaches the listing, or
drops it if another thread was first. `Stat`, `Open`, `Opendir`, `Release`,
`Releasedir` are the FUSE calls. Tables are heap cells (`TblIds`) so that a use
after a free is visible. `CacheOpen` and `CacheClose` take and drop the cache's
reference; `cf_lock` makes them atomic here. Files are reduced to one per
directory. If `Cache_open`'s own lookup fails, the process exits in the code,
and the thread's calls end in the model (`pc = "exit"`). `Id3` chooses the
tree that `XML_parser_id3_root` builds as the initial state.

### MultiHandle

A loader is a thread in `LinkTable_new`: it downloads an index page
(`AddPage`, `WaitPage`, `RetryPage`, `EndPage`), requests the header of each
link (`Link_req_file_stat`), and polls until nothing is unknown or nothing is
running (`Scan`, `Perform`, `AfterPerform`, `GiveUp`), then saves the listing.
`curl_process_msgs` is taken apart into its writes (`StartMessage`, `SetType`,
`SetLength`, `RemoveHandle`), because the threads it writes for read without
`transfer_lock`. `Arrive` is the network. What a page contains is fixed by
constants, a length is 0 or 1, and the order of the links in the array is not
modelled.

### CacheDisk

One thread of control goes through `Cache_open`, the stores of an open cache
and `Cache_close`, and may be killed between any two writes that reach the
kernel; the server's file may change at any time, and the listing follows while
the file is closed. A *version* has a modification time of its own and a
length, which `Cache_open` both compares. `Odd`
names the segments whose length is not a multiple of the stdio buffer: their
end stays in the buffer of `cf->dfp` until the next `fseeko` or the final
`fclose`. Any call on the files may fail: where the code logs it and goes on (a
`stat`, `fopen`, `fread` or `unlink`, `Meta_write`, the `ftruncate`) the action has a
disjunct for it; where it ends the process that is `Kill`. So is a `Meta_open` that
fails in `Cache_create`, after which the code goes on with a `cf` it has freed and
gives `fclose` a null `FILE` (`cache.c:992-1001`). `faults` and `leftover` are history: in
which attempts of an open a call failed, and that a data file could not be unlinked. Loss of power, where the kernel's own buffers are lost, is not
modelled, nor is a file that changes while time and length stay the same.

### ListingDisk

A thread in `LinkTable_new` opens the saved listing (`DiskOpen`, `ReadHeader`,
`Inspect`, `ReadEntry`), deletes one that is no good (`LinkTable_disk_delete`),
looks at its age (`CheckAge`), downloads the page (`Alloc`, `Fetch`, `FetchFails`) and
saves it (`SaveOpen`, `SaveFails`, `Flush`, `SaveClose`). Nothing in the code keeps
two such threads apart: `link_lock` is let go while they load. The file is cut to
nothing and rewritten in place; what has the file open keeps its inode. A block is
the header or one link; stdio hands blocks over in order, and a block that came
through in part is not there, since `LinkTable_disk_open` counts whole entries. A
disk that is full takes nothing more until the process is killed. A thread that
reads a file while ONE save cuts it and writes it again goes on with what the file
then has, or with what its own buffer still holds of the next link, all of it or a
part (`ReadBuffered`); `cut` marks it. `mixed`, `sawMixed` and `replaced` are history:
they say which files two saves met in, which of these a thread has read, and since
when a version is out of date.

### ReadSplit, LinkNames, SonicParse

These are functions. In `ReadSplit` a byte is its position in the file, and those of
an error page are none. A missing segment is fetched by the reader (`Fetch`) or by
another thread, as is usual (`Wait`): the reader then copies from one of that
thread's answers before its status and length are known, or waits until the
segment is stored, or asks itself when the other has failed. When which of these
happens is `SegmentCache`'s subject; here each is an input. `path_download` is its
call of `Link_download`. A server may answer with the range, the whole file, a byte
less, a temporary or a final error or a 416, the last three with a page of `ErrorPage`
bytes, with a range header or without. In `LinkNames` a text is a sequence of
characters, an escape such as `%61` and a scheme are one character each, and of a
hash the low 16 bits are kept (`HashSpan`), more than any table here uses. In
`SonicParse` an answer is the sequence of expat's events.

### Semaphore, PortableSemaphore, MemTracker

`sys_sem_t` is used only where `__APPLE__` is defined, the table of allocations
only where `DEBUG` is. A wrapper of the semaphore is three to five actions, since
other threads run between its lock, its wait and its unlock; spurious wakeups are
an action. A `User` is a reader together with the background thread it hands its
slot to. The rules of `cache.c`
(a slot per download, the closer takes all) are the guards of `SEM_TRYWAIT`,
`SEM_POST`, `SEM_WAIT`. `MemTracker` takes each wrapper apart where it lets
`mem_mutex` go, with an allocator that gives an address out again at once. Out of
memory ends the process in the code and is not modelled.

## Runs

Runs that pass:

* **segment_cache** – two readers, two background slots, two segments, every reply
  of the server, short writes and reads, opens and closes.
  `SingleDownload` (one download per segment, listed exactly while a thread is
  bound to untrack it), `RefCounts`, `NoDanglingTransfer`, `SlotsConserved`,
  `BitmapSound`, `ReadsFileOrError`, `QuietTeardown`, `AddBgFindsNoRival`,
  `NoRefetch`, `BitsKept`; and `KeepsPromise`: seen through the mapping, every
  step of the threads is a step, or a stutter, of `SegmentStore`: no answer out of
  thin air, no second fetch, no segment lost. Two of each is enough for every
  race the code mentions: two readers on one segment, a reader against a
  prefetch, a prefetch against a background download, a closer against all of
  them; two segments give a next segment to prefetch and one that has none. Four
  heap cells are all the nodes that can be alive at once: one listed per
  segment, and one that each reader still holds. A segment is one chunk and an
  error page, like the whole file, two: a body is then too short, as long as the
  range while more is to come, and too long (two chunks to a segment take longer
  than is practical). `BitmapSound` and `ReadsFileOrError` hold with all of these
  replies: what `Link_download` turns down never gets into the data file, nor what a
  failed write left there into an answer. What a reader copies before that is the
  subject of error_bodies, and `GiveUnchecked` of `SegmentStore`.
* **segment_liveness** – `ReadReturns` and `CloseReturns` with one slot and one
  chunk, so that readers compete for the slot, and without disk faults: a reader
  whose background downloads can never be stored starts another each time.
* **link_tree** – two threads in a directory of a directory, with loads that
  race and fail. `NoUseAfterFree`, `RefsCounted`, `OneTablePerDirectory`,
  `ReleasedIsEvicted`. Two levels give a table that is both a
  child and a parent. Three heap cells are enough: with a fourth TLC finds the
  same number of states.
* **multi_handle** – a page with a file and a page with a directory, loaded
  by two threads, every answer, one temporary failure of each page (`MaxTemp`).
  `PageIsIn`, `FillComplete`, `GoodAnswersKept`, `LoadEnds`. Four
  handles are enough for a thread to meet messages of another thread's page
  and of another thread's link in any order.
* **cache_disk** – two segments of whole blocks and an odd one, three versions
  (`MaxVersion`), kills anywhere, calls that fail anywhere. `BitsBacked`,
  `NeverOlder` (save the end of an odd segment in a data file that could not be
  unlinked), `OpensInTwo` (the second attempt fails only if a call fails in it),
  `UsableKept` (a good cache is deleted only in an attempt in which a look at its
  files failed). Three versions, two of the same length and a shorter one, let the
  server change before and after a listing, and leave a data file that is
  longer than it need be.
* **algorithms** – `ReadIsSlice`, `RequestsFit`, `FirstWins`,
  `ExternalNamesClean`, `SonicListings`: each input is a state, and each property
  compares what the code makes of it with a definition of what it should be.
  Files of up to five bytes in segments of two (`MaxSize`, `Blk`) have up to three
  segments, a short last one, and reads that begin and end anywhere; the replies
  cover each way out of `Link_download`'s loop, and each answer that comes to
  another thread may be copied early. `ReadIsSlice` is about inputs that are
  `Honest`: no error page or whole file is copied early (run error_bodies shows what
  then happens) and no 416 looks like the range. Pages of three hrefs
  (`MaxHrefs`) out of seventeen shapes make a set that starts with one bucket
  (`FirstCapacity`) grow and rehash, with names that meet, differ by a slash or by
  an escape. The elements have up to four attributes in every order, the roots
  three parts of up to two artists.
* **listings** – two threads, a page of two links and then of one, a clock of
  three times with listings that are good for one tick, one kill, a disk that may
  fill up. `ServedIsWhole`, `ServedIsFresh`. What is served is one version, whole;
  from a file that one save cut while it was read it is as many links as the header
  said, each in its place, but maybe of two versions. Two entries tell a file cut in the
  middle from one that is whole, and a shorter second version leaves a header
  that fits too few or too many of the other's links; a clock of three lets a
  listing be fresh, just good and too old; after one kill a new process
  finds whatever an old one left.
* **util** – `TrackedExactly`, `SemaphoreKept`: three threads that take and
  give back two slots and one that closes; three threads and four addresses in two
  chains. Each is explored by itself (`part`). Deadlock is not checked in this run,
  because after `mem_cleanup` the program is over.

Runs that find what the code does against its own words (`findings` quotes
them):

* **error_bodies** – `CopiesAreFile` fails: an error page, or the whole file from a
  server that ignores ranges, is served to a waiting reader as bytes of the range,
  because the waiter copies before status and length are looked at (`cache.c:1453`).
* **link_tree_id3** – the ID3 tree's tables are freed by `releasedir` while the
  root's link still points to them (`sonic.c:469`).
* **saved_sizes** – a link's type is visible before its length, and the saved
  listing has length 0 (`link.c:1016`).
* **cache_disk_tail** – the bitmap reaches the disk before the end of an odd
  segment does (`cache.c:1213`).

What the models show of the code without a run that is about it:

* A header request that failed temporarily is logged as to be retried later
  (`link.c:1039`), but `LinkTable_uninitialised_fill` makes its requests once, so
  the link ends as `LINK_INVALID`.
* `--invalid-refresh` (`USAGE.md:349`) fills a table again right after it was
  loaded (`link.c:1550`), when `FillComplete` says that no link is left unknown: it
  requests nothing. A listing that is attached to the tree is never refreshed; its
  age is looked at only when it is loaded from the disk.
* `transferring` is cleared (`network.c:150`) before `curl_process_msgs` has
  done with the handle; its owner may go on, and clean the handle up, while
  another thread still takes it out of the multi handle.
* The range check comes before the status (`link.c:1800`): an error reply
  without `Accept-Ranges` ends the process, also one of those that
  `--retry-wait` (`USAGE.md:322`) is about. A connection that fails before a header
  comes leaves `header->data` NULL.
* Two threads that find the same listing too old save it at the same time to the
  same file (`link.c:1352`), which then has parts of both, or holes.
* One save is enough to mix two versions: a thread that has read the header of a saved
  listing when another cuts the file and writes it again takes the new file's links
  under the old header's count (`link.c:1437-1464`), and may take one link's name
  from the old file and its length from the new.
* A 416 whose page is as long as the range is stored as the range (`link.c:1817`,
  `NoLookalike`).
* One `fopen` or `fread` of `Cache_open` that fails, say because the process has no
  descriptor left, deletes both files of a cache that was good (`cache.c:1118`, `1137`,
  `1168`); the second attempt then makes an empty one, or fails, which ends the
  process.
* `Cache_create` goes on with `cf` after `Meta_open` has failed and `Cache_free` has
  freed it (`cache.c:992-997`).
* Duplicates are dropped by the name before it is unescaped (`link.c:961`), so
  `a%20b` and `a b` of one page are both listed, as `a b`.

### Fairness

`SegmentCache!FairSpec`: weak fairness for every thread's own steps – the
scheduler runs a thread that can run. Strong fairness for taking `w_lock`,
which is held for short stretches and never during a transfer, so a thread that
finds it free again and again gets it. Strong fairness for the answer `"ok"`:
the code retries a temporary failure without limit, so a read returns only if
the server recovers. Opening, reading and closing are the user's and not fair.

`MultiHandle!FairSpec`: weak fairness for every loader, and for `Arrive`: every
transfer ends. The code sets a timeout for connecting and none for a transfer,
so this is an assumption about the server and TCP, not about the code. So is
`MaxTemp`: `Link_download_full` asks for a page again after every temporary
failure, and ends only if the failures do.

`PortableSemaphore!SemFair`: weak fairness for a thread inside a wrapper. Nothing
is assumed of who gets a contended mutex, nor that a background download ever
ends. What `SemaphoreKept` promises of progress is accordingly weak: the closer
gets a slot if from some time on one is free whenever it looks.

## Proofs

A proof holds for all values of the constants that satisfy the `ASSUME`s of the
modules: sets of threads are finite, and disjoint where the code's are; a file has
at least one segment, a segment one chunk, a cache one slot (`Cache_alloc` sees to
that), a server one version; the directories are closed under parents. The theorems hold
for any number of threads, slots, segments, versions, directories, heap cells and
addresses, and for any value of the bounds that the runs set (`MaxTemp`, `MaxTime`,
`MaxKills`, `MaxVersion`).

Below, each module's inductive invariant comes first, then the properties of the
runs that follow from it. Hardly any of them is inductive by itself.

**The segment cache: locks and counts** (`SegmentCacheLocks`). `TypeOK` is not
inductive: `AddNext` and `LaunchNext` work on the segment after `dl_offset`, which
must be one of the file (`NextInRange`). Nor is what `w_lock` protects visible in
one step. `LockInv` is `TypeOK`, `NextInRange`, and: who holds `w_lock` is where
the program counters say (`WLockHeld`); a reader that looks for, or starts, a
download under it does so for a segment that the bitmap does not show
(`MissHolds`); the bitmap on disk never shows more than the one in memory
(`MetaBehind`), so that opening the file sets no bit under a reader's feet. From
`LockInvariant` follow

* `TypeCorrect`: `[]TypeOK`;
* `NeverRefetched`: `NoRefetch`. Only four actions can make a segment listed
  (`NextShrinks` shows that all others only shrink the list), and each of them
  runs under `w_lock` on a segment just found missing;
* `NoRivalFound`: `[]AddBgFindsNoRival`, with the further invariant
  `NoRivalHolds`, that nobody else lists a segment between the first look for
  it and the second.

`CountersCount` says what the counters count: `cache_opened` the open handles,
`waiters` the registered readers and downloads, `bgt_sem` the slots that nobody
has, each a cardinality of a set of threads. One lemma (`CountOne`) says what a
step of one thread does to such a cardinality. `SlotsAlwaysConserved` follows.

**The segment cache: downloads** (`SegmentCacheProofs`). `DownloadsTracked`:
`refcount` is one for the list, one for each reader that waits and one for the
thread that downloads; each listed node is one thread's, which is at a place in
the code where it is bound to untrack it; a published transfer is its owner's
and live. From it `OneDownload`, `ReferencesCounted` and `NoDangling`, and, with the
counts, `TeardownIsQuiet`: when the last closer has every slot, nobody is left who
could have a node.

**The segment cache as a store** (`SegmentCacheProofs`). `FilesTold`: a segment
that somebody owns is missing until its owner has stored it, the bitmap on disk is
the one in memory when the last close has saved it, and a set bit has the whole
segment behind it (`DataInv`). From it `BitmapTellsTruth` and `NoBitLost`. What a
reader is told depends on the bodies of the transfers (`AnswerInv`: how much of
which bytes a body has, and that a reader goes on to prefetch with its answer in
place). From the two `ReadsAreRight` and `CacheKeepsPromise`, action by action: each
is, seen through the mapping, one of the store's or a stutter. They hold for replies
of any length and assume `NoLookalike`, as `BitmapTellsTruth` does. `CopiesAreRight`
says when no reader is given unchecked bytes either: when the server is faithful
(`FaithfulServer`). Run `error_bodies` shows that it is not so otherwise.

**The cache on disk** (`CacheDiskProofs`), for any segments, any subset of odd
ones, any number of versions and any lengths. `DiskInvariant` follows the files
through `Cache_open`: what each step finds (`Staged` – for instance, that a second
attempt starts with both files gone unless an unlink failed, so that it can only
fail if a call in it fails); that whatever a whole metadata file is about was fetched under
its version or later (`Fresh`); that an open cache could be opened again and
has no bit on disk that it lacks in memory (`Opened`); and that bits of segments
that are not odd have bytes (`Backed`). `DiskTypes`, `WholeBlocksBacked`,
`NothingStale`, `SecondAttemptOpens` and `NothingUsableLost` are the properties of
the run.

**The tree of listings** (`LinkTreeProofs`), for directories at any depth, outside
ID3 mode (`~Id3`; run `link_tree_id3` shows why). `TreeInvariant` has six parts:
`Ranges`; the shape of the tree (`Shaped`: a table hangs on the link of its own
directory, its parent is alive, and no directory has two); where each call
stands and what it has pinned (`Staged`); the counts as cardinalities
(`RefsCounted`, `OpenedCounted`); and `ReleasedIsEvicted`. They need each other: a
table may be evicted when its last reference goes only because no child and no
other call counts on it, which the counts say; that the counts are right after a
table is attached needs that no other hangs on the same link, which the shape
says. `TreeTypes`, `NothingFreedInUse`, `CountsAreRight`, `OneTableEach`,
`EvictedWhenUnused` follow.

**The multi handle** (`MultiHandleProofs`), for any loaders, pages and links.
`LoadInvariant`: where a loader's page handle can be at each of its labels
(`PageAt`); that the one message in hand, under `transfer_lock`, is that of a
handle that was answered (`MessageInHand`); that each link is requested once
(`RequestedOnce`); that a type is its answer's from the moment its message was
looked at (`TypesTold`); and, the heart of it, what a thread may conclude from a
count of running transfers that is zero (`NothingRuns`): that the messages of all its
links have been processed, by whichever thread. `LoadTypes`, `PagesAreIn`, `ListingsComplete` and `AnswersKept`
follow.

**The saved listings** (`ListingDiskProofs`). `ListingInvariant`: a file that no
two saves met in is a beginning of one version's blocks (`Unmixed`), as far as its
one save has come (`OneSave`); what a load has read is a beginning of the links of
one version, or, when its file was cut under it, links in their places
(`Reads`); and what is dated before a version was replaced is of that version or an
earlier one (`Dated`). `ListingTypes`,
`ServedWhole` and `ServedFresh` follow.

**The wrappers** (`UtilProofs`). `UtilInvariant`: who has the mutex is where the
program counters say; the count, the closer's slots and the users' slots add up;
and a thread that has given a slot back keeps the count above zero until it has
let the mutex go. The last is why `SEM_DESTROY` is safe: the closer cannot have
every slot while somebody is still in `SEM_POST`. For the table: a block is the
program's, in the hand of one thread inside a wrapper, or free, and only the
first kind has a node, once, unless a library allocated it. `UtilTypes`,
`AlwaysTracked`, and `SemaphorePromised`: the safety part of `SemaphoreKept`, step
by step.

**The algorithms** (`AlgorithmProofs`), for inputs of any size. What a loop or a
fold gives is shown by induction in the form of a least counterexample: `<` is
well-founded on the natural numbers, so a set of them that is not empty has a least
one (`Least`), and what holds below it holds at it. A recursive function is what its
definition says only if there is one that does, which `Recursion` shows.

*Reads*, for any block size, file, offset and length, any segments cached or
missing, fetched by the reader or by another thread, and any sequence of replies
that is `Honest`. One `Link_download` gives exactly the range
asked for or nothing; one `Cache_read_segment` gives bytes of the file from its
position on, within its segment; `Cache_read`'s loop goes on only after a whole
piece, so that the pieces end where the next begins, and a run of runs is a run
(`FlattenBytes`). `ReadGivesSlice` and `ReadsAreSlices` (`ReadIsSlice`) follow; the same
loop, seen from the server's side, gives `RequestsGiven` and `RequestsAlwaysFit`
(`RequestsFit`).

*The set of names* (`AddTakesNew`). Every name is found from the bucket it hashes to
without meeting a free one on the way (`BucketsOK`), so a probe that ends at a free
bucket has passed every name of that hash; names that differ by a slash at most have
the same hash, since `link_hash_str` strips it (`Stem`). `size` is at least the number
of full buckets and `LinkHashSet_add` keeps it below `capacity`, so every probe ends.
`LinkHashSet_resize` keeps the names (`Rehung` is its loop's invariant). Nothing is
assumed of the hash but that it depends on the name without its slash.

*Pages*, for any sequence of hrefs. After each href the set holds the names of the
valid links so far, and the list their first links in order (`Listing`):
`PageFirstWins` and `PagesFirstWin` (`FirstWins`). An external link's name has no slash
and is not empty, "." or "..", whatever `external_url_to_filename` unescapes; the
path it is cached under is flattened; and a relative link cannot leave the page's origin.
`PageNamesClean` and `PagesNamesClean` (`ExternalNamesClean`) follow.

They assume that a page was got by HTTP from some host (`PageAssumption`), that an
escape stands for one character and is none of the schemes (`NamesAssumption`), and a
first capacity of at most 4096 (the code's are 16 and 4096). In the model a set may
grow without end; the code ends the process at 2^30 buckets (`link.c:548`).

*Answers of a Subsonic server*, of any length. Over an element's attributes the
invariant is `ReadSoFar`: which of its fields are set by then and from which
attribute, which is why a path wins wherever it comes and a title or a name only
when it is the first. `TablesTellElements` carries that over the events: what is
collected so far (`Collected`) is one link for each element that has an id and a
name, in their order, and sanitising changes no link's place. For the root of ID3
mode the same is done twice, since artists are collected in the index that is open
(`ArtistsParsed`) and indexes in the root (`BlocksParsed`); between indexes the root
has nothing open (`Closed`), whatever came before. `RootTellsArtists` and
`SonicTablesTell` (`SonicListings`) follow. They assume that what is absent differs
from every text, type and answer (`NoneAssumption`, `AnswersAssumption`), and that no
element names an attribute twice, which XML forbids.

Only model-checked: liveness, which is out of the prover's reach. That is
`ReadReturns`, `CloseReturns`, `LoadEnds`, and what `SemaphoreKept` promises of
progress.

## Not modelled

* `CacheSystem_init`, `CacheDir_create`, `CacheSystem_clear`: creation and
  removal of directories at start-up, by one thread.
* `main.c` and `config.c`: one thread reads options into `CONFIG` before anything
  is mounted; the options that matter are constants of the modules. Values out of
  range are not looked at.
* `exit` while other threads run. `mem_cleanup` is an `atexit` handler, so a fatal
  message or a failed range check in one thread frees things under the others;
  the models end the process, or the thread's calls, in one step.
* Of `util.c`: the wrappers of pthreads, which end the process on an error, and
  the strings of the Subsonic login (salt, MD5, hex). `log.c`: only that a fatal
  message ends the process.
* The documents themselves: gumbo and expat hand over elements, libcurl headers
  and bodies. libcurl, its share interface, OpenSSL locks and connection limits are
  external, modelled from how `network.c` uses them.
* The teardown of the tree at exit.

## Plan

Done, in this order: `SegmentCache` (what reads depend on most), its abstract
specification and the refinement, `LinkTree`, `MultiHandle`, `CacheDisk`; then
`ReadSplit`, `LinkNames`, `SonicParse`, `ListingDisk`, and the two parts of
`util.c`; and a proof of every safety property of the passing runs. What is left are
the hazards that no property covers because the code lets them happen, each told
of above: the header request that is never retried, the handle cleaned up while its
message is processed, the exit on an error reply without a range header, the 416
that looks like the range, two listings saved to one file by two threads, the good
cache deleted after one call that failed, the freed `cf`, and `exit` under running
threads.
