------------------------------- MODULE ReadSplit ------------------------------
(***************************************************************************)
(* One read(2) on the mount, from fs_open's choice of a handle down to the *)
(* ranges asked of the server: fs_open and fs_read of fuse_local.c,        *)
(* Cache_read and the arithmetic of Cache_read_segment in cache.c,         *)
(* Link_download and path_download in link.c.                              *)
(*                                                                         *)
(* A byte is its position in the file, so that a byte in a wrong place     *)
(* shows; the bytes of an error page are none.                             *)
(*                                                                         *)
(* A missing segment is fetched by the reader itself or, as is usual, by   *)
(* another thread, whose transfer the reader waits for and may copy from   *)
(* before it is over.  How the threads get there is SegmentCache's         *)
(* subject; here a segment comes with who fetches it, what the server      *)
(* answers and which answer is copied early.                               *)
(***************************************************************************)
EXTENDS Integers, Sequences, SequencesExt

CONSTANTS Blk,           \* cf->blksz
          NoRangeCheck,  \* CONFIG.no_range_check
          ErrorPage      \* the length of the page that comes with an error

ASSUME SplitAssumption ==
  Blk \in Nat \ {0} /\ NoRangeCheck \in BOOLEAN /\ ErrorPage \in Nat

Lesser(a, b) == IF a < b THEN a ELSE b

\* n bytes of the file from position `first' on.
Bytes(first, n) == [i \in 1..n |-> first + i - 1]

\* A call's result: bytes, or an error and none.  "retrying": not over yet.
Got(bytes) == [res |-> "ok", bytes |-> bytes]
Failed(error) == [res |-> error, bytes |-> <<>>]

-----------------------------------------------------------------------------
(* Link_download: one range request, repeated until an answer counts. *)

\* What the server may send: the range; the whole file, as a server does that
\* ignores ranges; less than the range, when the connection breaks; the page of
\* an error, which may be temporary, final, or the 416 of a range that cannot be
\* satisfied.  `ranged': its header mentions ranges of bytes.
Reply == [body : {"range", "whole", "short", "temp", "gone", "unsat"},
          ranged : BOOLEAN]

ErrorBytes == [i \in 1..ErrorPage |-> -i]

\* How many bytes Link_download asks for; 0: it asks nothing and returns 0.
ReqSize(size, req, offset) ==
  IF req <= 0 \/ size = 0 \/ offset < 0 \/ offset >= size THEN 0
  ELSE Lesser(req, size - offset)

Body(size, req, offset, reply) ==
  CASE reply.body = "range" -> Bytes(offset, Lesser(req, size - offset))
    [] reply.body = "whole" -> Bytes(0, size)
    [] reply.body = "short" -> Bytes(offset, Lesser(req, size - offset) - 1)
    [] OTHER -> ErrorBytes

\* Mutant: the length is not compared with the one asked for.
Attempt_anyLength(size, req, offset, reply) ==
  LET body == Body(size, req, offset, reply)
  IN  IF ~NoRangeCheck /\ ~reply.ranged THEN Failed("exit")
      ELSE IF reply.body = "gone" THEN Failed("ENOENT")
      ELSE IF reply.body = "temp" THEN Failed("retrying")
      ELSE Got(SubSeq(body, 1, Lesser(req, Len(body))))

\* One round of Link_download's loop: the header is looked at before the
\* status; 416 counts as success; and a length other than the one asked for is
\* no answer.
Attempt(size, req, offset, reply) ==
  LET body == Body(size, req, offset, reply)
  IN  IF ~NoRangeCheck /\ ~reply.ranged THEN Failed("exit")
      ELSE IF reply.body = "gone" THEN Failed("ENOENT")
      ELSE IF reply.body = "temp" \/ Len(body) # req THEN Failed("retrying")
      ELSE Got(body)

\* replies: what the server sends, in order; the last one is sent for ever.
Link_download(size, req, offset, replies) ==
  LET n == ReqSize(size, req, offset)
      rounds == [i \in DOMAIN replies |-> Attempt(size, n, offset, replies[i])]
      ends == {i \in DOMAIN replies : rounds[i].res # "retrying"}
  IN  IF n = 0 THEN Got(<<>>)
      ELSE IF ends = {} THEN Failed("retrying")
      ELSE rounds[CHOOSE i \in ends : \A j \in ends : i <= j]

-----------------------------------------------------------------------------
(* Cache_read: a read becomes one read of each segment it touches. *)

SegStart(pos) == (pos \div Blk) * Blk

\* ceil(content_length / blksz), the length of cf->seg.
Segbc(size) == (size + Blk - 1) \div Blk

\* A segment is cached, [stored |-> "whole"], and the disk then gives its bytes,
\* fewer ("torn") or an error ("broken"); or missing, [replies |-> r], and r is
\* what the server sends to the reader; or missing and fetched by another thread,
\* [replies |-> r, early |-> i, again |-> a]: the i-th answer is the one the
\* reader copies before its transfer is over, 0 for none, and a is what the
\* server sends to the reader when that thread has failed.
Seg_exist(segment) == "stored" \in DOMAIN segment
FetchedByOther(segment) == "early" \in DOMAIN segment

Data_read(size, len, pos, stored) ==
  LET n == IF pos >= size THEN 0 ELSE Lesser(len, size - pos)
  IN  CASE stored = "whole"  -> Got(Bytes(pos, n))
        [] stored = "torn"   -> Got(Bytes(pos, n - 1))
        [] stored = "broken" -> Failed("EIO")

\* The len bytes from pos, copied out of what came for the segment that holds it.
Copied(size, len, pos, recv) ==
  LET start == SegStart(pos)
      n == Len(recv.bytes)
  IN  IF recv.res # "ok" THEN recv
      ELSE IF n # Blk /\ start # SegStart(size) THEN Failed("EIO")
      ELSE IF n < pos - start + len THEN Failed("EIO")
      ELSE IF pos - start + len > Blk THEN Got(<<>>)
      ELSE Got(SubSeq(recv.bytes, pos - start + 1, pos - start + len))

Fetch(size, len, pos, replies) ==
  Copied(size, len, pos, Link_download(size, Blk, SegStart(pos), replies))

\* The body a reader may copy from: its transfer takes place, and it has come as
\* far as the last byte wanted.  Neither its status nor its length is known yet.
Copyable(size, len, pos, replies, i) ==
  LET start == SegStart(pos)
      n == ReqSize(size, Blk, start)
  IN  /\ i \in DOMAIN replies
      /\ \A j \in 1 .. i - 1 : Attempt(size, n, start, replies[j]).res = "retrying"
      /\ Len(Body(size, n, start, replies[i])) >= pos - start + len

\* The reader waits for the thread that fetches.  When that has stored the
\* segment its bytes are read back; when it has failed the reader asks itself.
Wait(size, len, pos, segment) ==
  LET start == SegStart(pos)
      n == ReqSize(size, Blk, start)
      fetched == Link_download(size, Blk, start, segment.replies)
      Part(bytes) == Got(SubSeq(bytes, pos - start + 1, pos - start + len))
  IN  IF Copyable(size, len, pos, segment.replies, segment.early)
      THEN Part(Body(size, n, start, segment.replies[segment.early]))
      ELSE CASE fetched.res = "ok"     -> Part(fetched.bytes)
             [] fetched.res = "ENOENT" -> Fetch(size, len, pos, segment.again)
             [] OTHER                  -> fetched

Cache_read_segment(size, len, pos, segment) ==
  IF pos < 0 \/ pos >= size THEN Got(<<>>)
  ELSE IF Seg_exist(segment) THEN Data_read(size, len, pos, segment.stored)
  ELSE IF FetchedByOther(segment) THEN Wait(size, len, pos, segment)
  ELSE Fetch(size, len, pos, segment.replies)

\* Where the loop cuts a read of `left' bytes at `start'.
\* Mutant: a segment's length further on, wherever the read starts.
Cut_unaligned(start, left) == Lesser(start + Blk, start + left)

Cut(start, left) == Lesser(SegStart(start) + Blk, start + left)

\* The pieces the loop makes, if none falls short.
Pieces(start, left) ==
  LET end == start + left
      Loop[s \in start .. end] ==
        IF s = end THEN <<>>
        ELSE LET next == Cut(s, end - s)
             IN  <<[pos |-> s, len |-> next - s]>> \o Loop[next]
  IN  Loop[start]

\* The length Cache_read makes of the one it is given.
ReadSize(size, len, offset) ==
  IF offset < 0 \/ offset >= size THEN 0 ELSE Lesser(len, size - offset)

\* What the pieces give in order: up to an error, which is all the caller gets,
\* or up to the first piece that falls short.
Joined(pieces, read) ==
  LET stops == {i \in DOMAIN read : \/ read[i].res # "ok"
                                    \/ Len(read[i].bytes) < pieces[i].len}
      last == IF stops = {} THEN Len(read) ELSE CHOOSE i \in stops : \A j \in stops : i <= j
  IN  IF read[last].res # "ok" THEN read[last]
      ELSE Got(FlattenSeq([i \in 1..last |-> read[i].bytes]))

PiecesRead(size, pieces, segs) ==
  [i \in DOMAIN pieces |-> Cache_read_segment(size, pieces[i].len, pieces[i].pos,
                                              segs[pieces[i].pos \div Blk])]

ReadPieces(size, pieces, segs) == Joined(pieces, PiecesRead(size, pieces, segs))

\* segs: what each segment is.
Cache_read(size, len, offset, segs) ==
  IF len < 0 THEN Failed("EINVAL")
  ELSE IF ReadSize(size, len, offset) <= 0 THEN Got(<<>>)
  ELSE ReadPieces(size, Pieces(offset, ReadSize(size, len, offset)), segs)

\* The ranges Cache_read asks the server for when no piece falls short, each at
\* the piece it is for.
Requested(size, len, offset, segs) ==
  LET pieces == Pieces(offset, ReadSize(size, len, offset))
      missing == {i \in DOMAIN pieces : ~Seg_exist(segs[pieces[i].pos \div Blk])}
  IN  [i \in missing |->
         LET start == SegStart(pieces[i].pos)
         IN  [first |-> start,
              last |-> start + ReqSize(size, Blk, start) - 1]]

-----------------------------------------------------------------------------
(* fs_open and fs_read. *)

\* What the configuration says of caching; a bound of -1 is none.
Config == [cached : BOOLEAN, min : Int, max : Int]

\* fi->fh: 0, BYPASS_FH, or a Cache; without the cache system it is not used.
fs_open(size, config) ==
  IF ~config.cached THEN "bypass"
  ELSE IF size = 0 THEN "empty"
  ELSE IF \/ config.min >= 0 /\ size < config.min
          \/ config.max >= 0 /\ size > config.max THEN "bypass"
  ELSE "cache"

\* replies: what a read without the cache meets; segs: what one with it does.
fs_read(size, len, offset, config, replies, segs) ==
  CASE fs_open(size, config) = "bypass" ->
         Link_download(size, len, offset, replies)
    [] fs_open(size, config) = "empty" -> Got(<<>>)
    [] fs_open(size, config) = "cache" -> Cache_read(size, len, offset, segs)
=============================================================================
