--------------------------- MODULE AlgorithmProofs ---------------------------
(***************************************************************************)
(* The algorithms of run algorithms, for inputs of any size.               *)
(*                                                                         *)
(* Reads: a read of the mount, for any block size, file, length and        *)
(* offset, any segments cached or missing, whoever fetches them, and any   *)
(* answers of the server but pages that look like the range, and any early *)
(* copies but of pages and whole files.                                    *)
(*                                                                         *)
(* Pages: the links LinkTable_parse_html makes of any sequence of hrefs,   *)
(* whatever the hash of the set of names, which is resized on the way, and *)
(* the names they give in the mount.                                       *)
(*                                                                         *)
(* Answers of a Subsonic server: the tables sonic_LinkTable_new_index and  *)
(* _id3 make of answers of any length, whatever the order of an element's  *)
(* attributes and wherever an index opens and closes.                      *)
(*                                                                         *)
(* Induction is by least counterexample: a set of numbers that is not      *)
(* empty has a least one (Least), and what holds below it holds at it.     *)
(* A recursive function is the function its definition names only if there *)
(* is one, which Recursion shows.                                          *)
(***************************************************************************)
EXTENDS MCAlgorithms, WellFoundedInduction, SequenceTheorems, FiniteSetTheorems,
        TLAPS

-----------------------------------------------------------------------------
(* Numbers. *)

LEMMA Least ==
  ASSUME NEW T, T \subseteq Nat, T # {}
  PROVE  \E m \in T : \A k \in T : m <= k
<1>1. \E m \in T : \A k \in T : <<k, m>> \notin OpToRel(<, Nat)
  BY NatLessThanWellFounded, WFMin, Zenon
<1>2. \E m \in T : \A k \in T : ~ (k < m)
  <2>1. PICK m \in T : \A k \in T : <<k, m>> \notin OpToRel(<, Nat)
    BY <1>1, Zenon
  <2>2. \A k \in T : ~ (k < m)
    <3> SUFFICES ASSUME NEW k \in T, k < m PROVE FALSE
      OBVIOUS
    <3>1. <<k, m>> \in Nat \X Nat /\ <<k, m>>[1] < <<k, m>>[2]
      OBVIOUS
    <3> QED
      BY <2>1, <3>1, Zenon DEF OpToRel
  <2> QED
    BY <2>2, Zenon
<1> QED
  BY <1>2

\* Between multiples of the block size there is a whole block.
LEMMA Multiples ==
  ASSUME NEW i \in Int, NEW j \in Int, i < j
  PROVE  i * Blk + Blk <= j * Blk
<1>1. Blk \in Nat \ {0}
  BY SplitAssumption DEF SplitAssumption
<1>2. PICK k \in Nat : j = i + 1 + k
  <2> WITNESS j - i - 1 \in Nat
  <2> QED
    OBVIOUS
<1>3. k * Blk >= 0 /\ j * Blk = i * Blk + Blk + k * Blk
  BY <1>1, <1>2
<1> QED
  BY <1>1, <1>3

\* A position lies in its segment.
LEMMA InSegment ==
  ASSUME NEW pos \in Nat
  PROVE  /\ pos \div Blk \in Nat /\ SegStart(pos) \in Nat
         /\ SegStart(pos) = (pos \div Blk) * Blk
         /\ SegStart(pos) <= pos /\ pos < SegStart(pos) + Blk
<1>1. Blk \in Nat \ {0}
  BY SplitAssumption DEF SplitAssumption
<1>2. pos \div Blk \in Int /\ pos = Blk * (pos \div Blk) + (pos % Blk)
      /\ 0 <= pos % Blk /\ pos % Blk < Blk
  BY <1>1
<1>3. (pos \div Blk) * Blk <= pos /\ pos < (pos \div Blk) * Blk + Blk
  BY <1>1, <1>2
<1>4. pos \div Blk \in Nat
  BY <1>1, <1>2
<1>5. (pos \div Blk) * Blk \in Nat
  BY <1>1, <1>4
<1> QED
  BY <1>3, <1>4, <1>5 DEF SegStart

\* Two positions of one segment, and of two.
LEMMA OneSegment ==
  ASSUME NEW p \in Nat, NEW q \in Nat
  PROVE  /\ SegStart(p) <= q /\ q < SegStart(p) + Blk <=> q \div Blk = p \div Blk
         /\ SegStart(q) = SegStart(p) <=> q \div Blk = p \div Blk
<1> DEFINE i == p \div Blk
           j == q \div Blk
<1>1. /\ Blk \in Nat \ {0} /\ i \in Nat /\ j \in Nat
      /\ SegStart(p) = i * Blk /\ SegStart(q) = j * Blk
      /\ i * Blk <= p /\ p < i * Blk + Blk /\ j * Blk <= q /\ q < j * Blk + Blk
  BY InSegment, SplitAssumption DEF SplitAssumption
<1> HIDE DEF i, j
<1>2. CASE i < j
  <2>1. i * Blk + Blk <= j * Blk
    BY <1>1, <1>2, Multiples
  <2> DEFINE a == i * Blk
             b == j * Blk
  <2>2. a \in Int /\ b \in Int
    BY <1>1
  <2> HIDE DEF a, b
  <2>3. ~(a <= q /\ q < a + Blk) /\ b # a
    BY <1>1, <2>1, <2>2 DEF a, b
  <2> QED
    BY <1>1, <1>2, <2>3 DEF a, b, i, j
<1>3. CASE j < i
  <2>1. j * Blk + Blk <= i * Blk
    BY <1>1, <1>3, Multiples
  <2> DEFINE a == i * Blk
             b == j * Blk
  <2>2. a \in Int /\ b \in Int
    BY <1>1
  <2> HIDE DEF a, b
  <2>3. ~(a <= q /\ q < a + Blk) /\ b # a
    BY <1>1, <2>1, <2>2 DEF a, b
  <2> QED
    BY <1>1, <1>3, <2>3 DEF a, b, i, j
<1>4. CASE i = j
  BY <1>1, <1>4 DEF i, j
<1> QED
  BY <1>1, <1>2, <1>3, <1>4

-----------------------------------------------------------------------------
(* Bytes of the file. *)

LEMMA BytesAre ==
  ASSUME NEW first \in Int, NEW n \in Nat
  PROVE  /\ Bytes(first, n) \in Seq(Int) /\ Len(Bytes(first, n)) = n
         /\ \A i \in 1..n : Bytes(first, n)[i] = first + i - 1
BY DEF Bytes

LEMMA BytesLen == \A first, n \in Nat : Len(Bytes(first, n)) = n
BY BytesAre

LEMMA BytesJoin ==
  ASSUME NEW first \in Int, NEW m \in Nat, NEW n \in Nat
  PROVE  Bytes(first, m) \o Bytes(first + m, n) = Bytes(first, m + n)
<1> DEFINE a == Bytes(first, m)
           b == Bytes(first + m, n)
           c == Bytes(first, m + n)
<1>1. /\ a \in Seq(Int) /\ Len(a) = m /\ \A i \in 1..m : a[i] = first + i - 1
      /\ b \in Seq(Int) /\ Len(b) = n /\ \A i \in 1..n : b[i] = first + m + i - 1
      /\ c \in Seq(Int) /\ Len(c) = m + n
      /\ \A i \in 1 .. m + n : c[i] = first + i - 1
  BY BytesAre
<1> HIDE DEF a, b, c
<1>2. /\ a \o b \in Seq(Int) /\ Len(a \o b) = m + n
      /\ \A i \in 1 .. m + n : (a \o b)[i] = IF i <= m THEN a[i] ELSE b[i - m]
  BY <1>1, ConcatProperties
<1>3. ASSUME NEW i \in 1 .. m + n PROVE (a \o b)[i] = c[i]
  <2>1. c[i] = first + i - 1 /\ (a \o b)[i] = IF i <= m THEN a[i] ELSE b[i - m]
    BY <1>1, <1>2
  <2>2. CASE i <= m
    <3>1. a[i] = first + i - 1
      BY <1>1, <2>2
    <3> QED
      BY <2>1, <2>2, <3>1
  <2>3. CASE ~(i <= m)
    <3>1. b[i - m] = first + m + (i - m) - 1
      BY <1>1, <2>3
    <3> QED
      BY <2>1, <2>3, <3>1
  <2> QED
    BY <2>2, <2>3
<1>4. a \o b = c
  BY <1>1, <1>2, <1>3, SeqEqual
<1> QED
  BY <1>4 DEF a, b, c

LEMMA BytesCut ==
  ASSUME NEW first \in Int, NEW n \in Nat, NEW skip \in Nat, NEW m \in Nat,
         skip + m <= n
  PROVE  SubSeq(Bytes(first, n), skip + 1, skip + m) = Bytes(first + skip, m)
<1> DEFINE a == Bytes(first, n)
           b == Bytes(first + skip, m)
           c == SubSeq(a, skip + 1, skip + m)
<1>1. /\ a \in Seq(Int) /\ Len(a) = n /\ \A i \in 1..n : a[i] = first + i - 1
      /\ b \in Seq(Int) /\ Len(b) = m /\ \A i \in 1..m : b[i] = first + skip + i - 1
  BY BytesAre
<1> HIDE DEF a, b
<1>2. \A i \in skip + 1 .. skip + m : a[i] \in Int
  BY <1>1
<1>3. /\ c \in Seq(Int)
      /\ Len(c) = IF skip + 1 <= skip + m THEN skip + m - (skip + 1) + 1 ELSE 0
      /\ \A i \in 1 .. skip + m - (skip + 1) + 1 : c[i] = a[skip + 1 + i - 1]
  BY <1>2, SubSeqProperties
<1> HIDE DEF c
<1>4. Len(c) = m /\ \A i \in 1..m : c[i] = a[skip + i]
  BY <1>3
<1>5. \A i \in 1..m : c[i] = b[i]
  BY <1>1, <1>4
<1>6. c = b
  BY <1>1, <1>3, <1>4, <1>5, SeqEqual
<1> QED
  BY <1>6 DEF a, b, c

LEMMA BytesCuts ==
  \A first \in Int : \A n, skip, m \in Nat :
    skip + m <= n =>
      SubSeq(Bytes(first, n), skip + 1, skip + m) = Bytes(first + skip, m)
BY BytesCut

LEMMA BytesPrefix ==
  ASSUME NEW first \in Int, NEW n \in Nat, NEW m \in Nat, m <= n
  PROVE  IsPrefix(Bytes(first, m), Bytes(first, n)) /\ <<>> = Bytes(first, 0)
<1>1. /\ SubSeq(Bytes(first, n), 0 + 1, 0 + m) = Bytes(first + 0, m)
      /\ SubSeq(Bytes(first, m), 0 + 1, 0 + m) = Bytes(first + 0, m)
  <2>1. 0 \in Nat /\ 0 + m <= n /\ 0 + m <= m
    OBVIOUS
  <2> QED
    BY <2>1, BytesCut
<1>2. Len(Bytes(first, m)) = m /\ Len(Bytes(first, n)) = n
  BY BytesAre
<1>3. IsPrefix(Bytes(first, m), Bytes(first, n))
  BY <1>1, <1>2 DEF IsPrefix
<1>4. Bytes(first, 0) = <<>>
  BY BytesAre DEF Bytes
<1> QED
  BY <1>3, <1>4

-----------------------------------------------------------------------------
(* What the server gives. *)

\* All n bytes, or an error and none.
Gives(read, first, n) == \/ read = Got(Bytes(first, n))
                         \/ read.res # "ok" /\ read.bytes = <<>>

LEMMA ReqIs ==
  ASSUME NEW size \in Nat, NEW req \in Nat, NEW offset \in Nat
  PROVE  /\ ReqSize(size, req, offset) \in Nat
         /\ ReqSize(size, req, offset) =
              IF offset >= size THEN 0 ELSE Lesser(req, size - offset)
BY DEF ReqSize, Lesser

\* An answer that counts has the bytes asked for.
LEMMA AttemptGives ==
  ASSUME NEW size \in Nat, NEW offset \in Nat, NEW n \in Nat \ {0},
         n <= size - offset, NEW reply \in Reply,
         reply.body = "unsat" => ErrorPage # n
  PROVE  /\ Gives(Attempt(size, n, offset, reply), offset, n)
         /\ /\ NoRangeCheck \/ reply.ranged
            /\ reply.body # "gone"
            /\ Attempt(size, n, offset, reply).res # "retrying"
            => Attempt(size, n, offset, reply) = Got(Bytes(offset, n))
         /\ reply.body = "range" => Attempt(size, n, offset, reply).res # "retrying"
<1> DEFINE body == Body(size, n, offset, reply)
<1>1. reply.body \notin {"temp", "gone"} /\ Len(body) = n
        => body = Bytes(offset, n)
  <2>1. CASE reply.body = "range"
    <3>1. Lesser(n, size - offset) = n
      BY DEF Lesser
    <3> QED
      BY <2>1, <3>1 DEF Body
  <2>2. CASE reply.body = "whole"
    <3>1. body = Bytes(0, size) /\ Len(Bytes(0, size)) = size
      <4>1. Len(Bytes(0, size)) = size
        BY BytesAre
      <4> QED
        BY <2>2, <4>1 DEF Body
    <3>2. Len(body) = n => offset = 0 /\ size = n
      BY <3>1
    <3> QED
      BY <3>1, <3>2
  <2>3. CASE reply.body = "short"
    <3>1. Lesser(n, size - offset) = n /\ n - 1 \in Nat
      BY DEF Lesser
    <3>2. body = Bytes(offset, n - 1)
      BY <2>3, <3>1 DEF Body
    <3>3. Len(Bytes(offset, n - 1)) = n - 1
      <4> DEFINE m == n - 1
      <4>1. m \in Nat
        BY <3>1
      <4> HIDE DEF m
      <4>2. Len(Bytes(offset, m)) = m
        BY <4>1, BytesAre
      <4> QED
        BY <4>2 DEF m
    <3> QED
      BY <3>2, <3>3
  <2>4. CASE reply.body = "unsat"
    <3>1. body = ErrorBytes
      BY <2>4 DEF Body
    <3>2. Len(ErrorBytes) = ErrorPage
      BY SplitAssumption DEF SplitAssumption, ErrorBytes
    <3> QED
      BY <2>4, <3>1, <3>2
  <2>5. reply.body \in {"range", "whole", "short", "unsat", "temp", "gone"}
    BY DEF Reply
  <2> HIDE DEF body
  <2> QED
    BY <2>1, <2>2, <2>3, <2>4, <2>5
<1>2. reply.body = "range" => body = Bytes(offset, n) /\ Len(body) = n
  <2>1. Lesser(n, size - offset) = n
    BY DEF Lesser
  <2>2. Len(Bytes(offset, n)) = n
    BY BytesAre
  <2> QED
    BY <2>1, <2>2 DEF Body
<1>3. Attempt(size, n, offset, reply) =
        IF ~NoRangeCheck /\ ~reply.ranged THEN Failed("exit")
        ELSE IF reply.body = "gone" THEN Failed("ENOENT")
        ELSE IF reply.body = "temp" \/ Len(body) # n THEN Failed("retrying")
        ELSE Got(body)
  BY DEF Attempt
<1> HIDE DEF body
<1> QED
  BY <1>1, <1>2, <1>3 DEF Gives, Got, Failed

\* A range is given whole or not at all, and given when the server comes to
\* send it.
LEMMA Downloaded ==
  ASSUME NEW size \in Nat, NEW req \in Nat, NEW offset \in Nat,
         NEW replies \in Seq(Reply),
         NoLookalike(ReqSize(size, req, offset), replies)
  PROVE  /\ Gives(Link_download(size, req, offset, replies), offset,
                  ReqSize(size, req, offset))
         /\ Answered(replies)
              => Link_download(size, req, offset, replies)
                   = Got(Bytes(offset, ReqSize(size, req, offset)))
<1> DEFINE n == ReqSize(size, req, offset)
           rounds == [i \in DOMAIN replies |-> Attempt(size, n, offset, replies[i])]
           ends == {i \in DOMAIN replies : rounds[i].res # "retrying"}
           first == CHOOSE i \in ends : \A j \in ends : i <= j
           result == Link_download(size, req, offset, replies)
<1>1. result = IF n = 0 THEN Got(<<>>)
               ELSE IF ends = {} THEN Failed("retrying") ELSE rounds[first]
  BY DEF Link_download
<1>2. CASE n = 0
  <2>1. Bytes(offset, 0) = <<>>
    BY BytesPrefix
  <2> QED
    BY <1>1, <1>2, <2>1 DEF Gives
<1>3. CASE n # 0
  <2>1. n \in Nat \ {0} /\ n <= size - offset
    <3>1. n \in Nat /\ n = IF offset >= size THEN 0 ELSE Lesser(req, size - offset)
      BY ReqIs
    <3> HIDE DEF n
    <3> QED
      BY <1>3, <3>1 DEF Lesser
  <2>2. DOMAIN replies = 1 .. Len(replies) /\ Len(replies) \in Nat
        /\ \A i \in DOMAIN replies : replies[i] \in Reply
    BY LenProperties
  <2>k. \A i \in DOMAIN replies : replies[i].body = "unsat" => ErrorPage # n
    BY DEF NoLookalike
  <2> HIDE DEF n
  <2>3. \A i \in DOMAIN replies :
          /\ Gives(rounds[i], offset, n)
          /\ /\ NoRangeCheck \/ replies[i].ranged
             /\ replies[i].body # "gone" /\ rounds[i].res # "retrying"
             => rounds[i] = Got(Bytes(offset, n))
          /\ replies[i].body = "range" => rounds[i].res # "retrying"
    BY <2>1, <2>2, <2>k, AttemptGives
  <2> HIDE DEF rounds
  <2>4. ASSUME ends # {} PROVE first \in ends /\ \A j \in ends : first <= j
    <3>1. ends \subseteq Nat
      BY <2>2
    <3>2. \E i \in ends : \A j \in ends : i <= j
      BY <2>4, <3>1, Least
    <3> QED
      BY <3>2
  <2>5. Gives(result, offset, n)
    <3>1. CASE ends = {}
      BY <1>1, <1>3, <3>1 DEF Gives, Failed
    <3>2. CASE ends # {}
      <4>1. first \in DOMAIN replies /\ result = rounds[first]
        BY <1>1, <1>3, <2>4, <3>2
      <4> HIDE DEF first, result
      <4> QED
        BY <2>3, <4>1
    <3> QED
      BY <3>1, <3>2
  <2>6. ASSUME Answered(replies) PROVE result = Got(Bytes(offset, n))
    <3>1. PICK i \in DOMAIN replies :
            /\ replies[i].body = "range"
            /\ \A j \in 1..i : NoRangeCheck \/ replies[j].ranged
            /\ \A j \in 1 .. i - 1 : replies[j].body # "gone"
      BY <2>6 DEF Answered
    <3>2. i \in ends
      BY <2>3, <3>1
    <3>3. /\ first \in DOMAIN replies /\ rounds[first].res # "retrying"
          /\ first <= i /\ result = rounds[first]
      BY <1>1, <1>3, <2>4, <3>2
    <3> HIDE DEF first, result, ends
    <3>4. first \in 1..i /\ (first = i \/ first \in 1 .. i - 1) /\ i \in Nat
      BY <2>2, <3>3
    <3>5. (NoRangeCheck \/ replies[first].ranged) /\ replies[first].body # "gone"
      BY <3>1, <3>4
    <3> QED
      BY <2>3, <3>3, <3>5
  <2> HIDE DEF result
  <2> QED
    BY <2>5, <2>6 DEF n, result
<1> QED
  BY <1>2, <1>3

-----------------------------------------------------------------------------
(* One segment. *)

\* Some of the len bytes, from the first on, or an error and none.
GivesSome(read, first, len) == \/ \E m \in 0..len : read = Got(Bytes(first, m))
                               \/ read.res # "ok" /\ read.bytes = <<>>

Segment ==
  [stored : {"whole", "torn", "broken"}] \cup [replies : Seq(Reply)]
    \cup [replies : Seq(Reply), early : Nat, again : Seq(Reply)]

HonestSegment(size, start, segment) ==
  /\ ~Seg_exist(segment) => NoLookalike(ReqSize(size, Blk, start), segment.replies)
  /\ FetchedByOther(segment) =>
       /\ FileCopied(start, segment)
       /\ NoLookalike(ReqSize(size, Blk, start), segment.again)

SoundSegment(segment) == IF Seg_exist(segment) THEN segment.stored = "whole"
                         ELSE Answered(segment.replies)

LEMMA FailsEmpty ==
  ASSUME NEW read, NEW first, NEW len, GivesSome(read, first, len), read.res # "ok"
  PROVE  read.bytes = <<>>
<1>1. \A m : Got(Bytes(first, m)).res = "ok"
  BY DEF Got
<1> QED
  BY <1>1 DEF GivesSome

\* What is fetched for a segment has the bytes a read of it wants.
LEMMA FetchGives ==
  ASSUME NEW size \in Nat, NEW pos \in Nat, NEW len \in Nat \ {0},
         pos + len <= size, pos + len <= SegStart(pos) + Blk,
         NEW replies \in Seq(Reply),
         NoLookalike(ReqSize(size, Blk, SegStart(pos)), replies)
  PROVE  /\ Gives(Fetch(size, len, pos, replies), pos, len)
         /\ Answered(replies) => Fetch(size, len, pos, replies) = Got(Bytes(pos, len))
<1> DEFINE start == SegStart(pos)
           n == ReqSize(size, Blk, start)
           recv == Link_download(size, Blk, start, replies)
<1>1. start \in Nat /\ start <= pos /\ Blk \in Nat \ {0}
  BY InSegment, SplitAssumption DEF SplitAssumption
<1>2. n \in Nat /\ n = IF Blk <= size - start THEN Blk ELSE size - start
  <2> HIDE DEF start
  <2>1. n = IF start >= size THEN 0 ELSE Lesser(Blk, size - start)
    BY <1>1, ReqIs
  <2> HIDE DEF n
  <2> QED
    BY <1>1, <2>1 DEF Lesser
<1>3. /\ Gives(recv, start, n)
      /\ Answered(replies) => recv = Got(Bytes(start, n))
  <2>1. NoLookalike(ReqSize(size, Blk, start), replies)
    OBVIOUS
  <2> HIDE DEF start
  <2> QED
    BY <1>1, <2>1, Downloaded
<1>4. n # Blk => SegStart(size) = start
  <2>1. n # Blk => start <= size /\ size < start + Blk
    <3> HIDE DEF start, n
    <3> QED
      BY <1>1, <1>2
  <2> QED
    BY <2>1, OneSegment
<1>5. /\ pos - start \in Nat /\ pos - start + len <= n /\ pos - start + len <= Blk
      /\ start + (pos - start) = pos
  <2> HIDE DEF n
  <2>1. pos + len <= start + Blk
    OBVIOUS
  <2> HIDE DEF start
  <2> QED
    BY <1>1, <1>2, <2>1
<1>6. ASSUME recv = Got(Bytes(start, n))
      PROVE  Copied(size, len, pos, recv) = Got(Bytes(pos, len))
  <2> HIDE DEF start, n
  <2> n \in Nat /\ start \in Int
    BY <1>1, <1>2
  <2>1. Len(Bytes(start, n)) = n
    BY BytesAre
  <2>2. SubSeq(Bytes(start, n), pos - start + 1, pos - start + len) = Bytes(pos, len)
    <3> DEFINE skip == pos - start
    <3>1. skip \in Nat /\ len \in Nat /\ skip + len <= n
      BY <1>5
    <3>3. start + skip = pos
      BY <1>5
    <3> HIDE DEF skip
    <3>2. SubSeq(Bytes(start, n), skip + 1, skip + len) = Bytes(start + skip, len)
      <4>1. start \in Int /\ n \in Nat
        OBVIOUS
      <4>2. \A k, i, m \in Nat :
              i + m <= k => SubSeq(Bytes(start, k), i + 1, i + m) = Bytes(start + i, m)
        BY <4>1, BytesCuts, Zenon
      <4> QED
        BY <3>1, <4>1, <4>2, Zenon
    <3> QED
      BY <3>2, <3>3 DEF skip
  <2>3. recv.res = "ok" /\ recv.bytes = Bytes(start, n) /\ Len(recv.bytes) = n
    BY <1>6, <2>1 DEF Got
  <2> HIDE DEF recv
  <2>4. /\ ~(n # Blk /\ start # SegStart(size)) /\ ~(n < pos - start + len)
        /\ ~(pos - start + len > Blk)
    BY <1>1, <1>2, <1>4, <1>5
  <2> QED
    BY <2>2, <2>3, <2>4 DEF Copied, start
<1>7. ASSUME recv.res # "ok" PROVE Copied(size, len, pos, recv) = recv
  BY <1>7 DEF Copied
<1>8. Fetch(size, len, pos, replies) = Copied(size, len, pos, recv)
  BY DEF Fetch
<1> HIDE DEF recv, n, start
<1> QED
  BY <1>3, <1>6, <1>7, <1>8 DEF Gives

\* The part of a body, which begins at `start', that a read wants is the file's.
PartIsSlice(body, start, pos, len) ==
  SubSeq(body, pos - start + 1, pos - start + len) = Bytes(pos, len)

\* It is when the body is the file from the segment's start on.
LEMMA PartOfBytes ==
  ASSUME NEW start \in Nat, NEW pos \in Nat, start <= pos,
         NEW len \in Nat, NEW m \in Nat, pos - start + len <= m
  PROVE  PartIsSlice(Bytes(start, m), start, pos, len)
<1> DEFINE skip == pos - start
<1>1. skip \in Nat /\ skip + len <= m /\ start + skip = pos
  OBVIOUS
<1> HIDE DEF skip
<1>2. SubSeq(Bytes(start, m), skip + 1, skip + len) = Bytes(start + skip, len)
  <2>1. start \in Int /\ m \in Nat
    OBVIOUS
  <2>2. \A k, i, l \in Nat :
          i + l <= k => SubSeq(Bytes(start, k), i + 1, i + l) = Bytes(start + i, l)
    BY <2>1, BytesCuts, Zenon
  <2> QED
    BY <1>1, <2>1, <2>2, Zenon
<1> QED
  BY <1>1, <1>2 DEF skip, PartIsSlice

\* What is copied early are the file's bytes, when the body is the range, its
\* beginning, or the whole file and the segment its first.
LEMMA EarlyGives ==
  ASSUME NEW size \in Nat, NEW pos \in Nat, NEW start \in Nat, start <= pos,
         NEW len \in Nat \ {0}, NEW n \in Nat \ {0}, n <= size - start,
         NEW reply \in Reply,
         \/ reply.body \in {"range", "short"}
         \/ (reply.body = "whole" /\ start = 0),
         Len(Body(size, n, start, reply)) >= pos - start + len
  PROVE  PartIsSlice(Body(size, n, start, reply), start, pos, len)
<1>1. \E m \in Nat : Body(size, n, start, reply) = Bytes(start, m)
  <2>1. Lesser(n, size - start) = n /\ n - 1 \in Nat
    BY DEF Lesser
  <2>2. CASE reply.body = "range"
    BY <2>1, <2>2 DEF Body
  <2>3. CASE reply.body = "short"
    BY <2>1, <2>3 DEF Body
  <2>4. CASE reply.body = "whole" /\ start = 0
    BY <2>4 DEF Body
  <2> QED
    BY <2>2, <2>3, <2>4
<1>2. PICK m \in Nat : Body(size, n, start, reply) = Bytes(start, m)
  BY <1>1
<1>3. Len(Bytes(start, m)) = m
  BY BytesAre
<1>4. pos - start + len <= m
  BY <1>2, <1>3
<1>5. len \in Nat
  OBVIOUS
<1>6. PartIsSlice(Bytes(start, m), start, pos, len)
  BY <1>4, <1>5, PartOfBytes
<1> QED
  BY <1>2, <1>6

\* A reader that waits for another thread's transfer gets the same.
LEMMA WaitGives ==
  ASSUME NEW size \in Nat, NEW pos \in Nat, NEW len \in Nat \ {0},
         pos + len <= size, pos + len <= SegStart(pos) + Blk,
         NEW segment \in [replies : Seq(Reply), early : Nat, again : Seq(Reply)],
         HonestSegment(size, SegStart(pos), segment)
  PROVE  /\ Gives(Wait(size, len, pos, segment), pos, len)
         /\ Answered(segment.replies)
              => Wait(size, len, pos, segment) = Got(Bytes(pos, len))
<1> DEFINE start == SegStart(pos)
           n == ReqSize(size, Blk, start)
           fetched == Link_download(size, Blk, start, segment.replies)
           Part(bytes) == Got(SubSeq(bytes, pos - start + 1, pos - start + len))
           read == Wait(size, len, pos, segment)
           early == segment.early
           body == Body(size, n, start, segment.replies[early])
           copied == Copyable(size, len, pos, segment.replies, early)
<1>1. start \in Nat /\ start <= pos /\ Blk \in Nat \ {0}
  BY InSegment, SplitAssumption DEF SplitAssumption
<1>2. n \in Nat /\ n = IF Blk <= size - start THEN Blk ELSE size - start
  <2> HIDE DEF start
  <2>1. n = IF start >= size THEN 0 ELSE Lesser(Blk, size - start)
    BY <1>1, ReqIs
  <2> HIDE DEF n
  <2> QED
    BY <1>1, <2>1 DEF Lesser
<1>3. pos - start + len <= n /\ n \in Nat \ {0} /\ n <= size - start
  <2> HIDE DEF n
  <2>1. pos + len <= start + Blk
    OBVIOUS
  <2> HIDE DEF start
  <2> QED
    BY <1>1, <1>2, <2>1
<1>4. segment.replies \in Seq(Reply) /\ segment.again \in Seq(Reply)
      /\ early \in Nat
  OBVIOUS
<1>5. /\ NoLookalike(n, segment.replies) /\ NoLookalike(n, segment.again)
      /\ FileCopied(start, segment)
  BY DEF HonestSegment, Seg_exist, FetchedByOther
<1>6. read = IF copied THEN Part(body)
             ELSE CASE fetched.res = "ok"     -> Part(fetched.bytes)
                    [] fetched.res = "ENOENT" -> Fetch(size, len, pos, segment.again)
                    [] OTHER                  -> fetched
  BY DEF Wait
<1>7. /\ Gives(fetched, start, n)
      /\ Answered(segment.replies) => fetched = Got(Bytes(start, n))
  <2> HIDE DEF start
  <2> QED
    BY <1>1, <1>4, <1>5, Downloaded
<1>8. /\ Gives(Fetch(size, len, pos, segment.again), pos, len)
  BY <1>4, <1>5, FetchGives
<1>9. ASSUME copied PROVE Part(body) = Got(Bytes(pos, len))
  <2>1. early \in DOMAIN segment.replies /\ Len(body) >= pos - start + len
    BY <1>9 DEF Copyable
  <2>2. segment.replies[early] \in Reply
    BY <1>4, <2>1, LenProperties
  <2>3. \/ segment.replies[early].body \in {"range", "short"}
        \/ (segment.replies[early].body = "whole" /\ start = 0)
    BY <1>5, <2>1 DEF FileCopied
  <2>4. SubSeq(body, pos - start + 1, pos - start + len) = Bytes(pos, len)
    <3> DEFINE reply == segment.replies[early]
    <3>1. Len(Body(size, n, start, reply)) >= pos - start + len
      BY <2>1
    <3>2. reply \in Reply
      BY <2>2
    <3>3. \/ reply.body \in {"range", "short"}
          \/ (reply.body = "whole" /\ start = 0)
      BY <2>3
    <3>4. body = Body(size, n, start, reply)
      OBVIOUS
    <3> HIDE DEF start, n, early, reply, body
    <3>5. n \in Nat \ {0} /\ n <= size - start /\ start \in Nat /\ start <= pos
      BY <1>1, <1>3
    <3>6. PartIsSlice(Body(size, n, start, reply), start, pos, len)
      BY <3>1, <3>2, <3>3, <3>5, EarlyGives
    <3> QED
      BY <3>4, <3>6 DEF PartIsSlice
  <2> HIDE DEF start, body
  <2> QED
    BY <2>4
<1>10. ASSUME fetched = Got(Bytes(start, n))
       PROVE  fetched.res = "ok" /\ Part(fetched.bytes) = Got(Bytes(pos, len))
  <2> HIDE DEF start, n
  <2>1. fetched.res = "ok" /\ fetched.bytes = Bytes(start, n)
    BY <1>10 DEF Got
  <2>2. n \in Nat /\ len \in Nat /\ pos \in Nat /\ start \in Nat
    BY <1>1, <1>2
  <2>3. start <= pos /\ pos - start + len <= n
    BY <1>1, <1>3
  <2>4. SubSeq(Bytes(start, n), pos - start + 1, pos - start + len) = Bytes(pos, len)
    <3>1. PartIsSlice(Bytes(start, n), start, pos, len)
      BY <2>2, <2>3, PartOfBytes
    <3> QED
      BY <3>1 DEF PartIsSlice
  <2> HIDE DEF fetched
  <2> QED
    BY <2>1, <2>4
<1> HIDE DEF start, n, early, fetched, body, copied, read, Part
<1>11. CASE copied
  <2>1. read = Got(Bytes(pos, len))
    BY <1>6, <1>9, <1>11
  <2> QED
    BY <2>1 DEF Gives, read
<1>12. CASE ~copied /\ fetched = Got(Bytes(start, n))
  <2>1. read = Got(Bytes(pos, len))
    BY <1>6, <1>10, <1>12
  <2> QED
    BY <2>1 DEF Gives, read
<1>13. CASE ~copied /\ fetched # Got(Bytes(start, n))
  <2>1. fetched.res # "ok" /\ fetched.bytes = <<>> /\ ~Answered(segment.replies)
    BY <1>7, <1>13 DEF Gives
  <2>2. CASE fetched.res = "ENOENT"
    <3>1. read = Fetch(size, len, pos, segment.again)
      BY <1>6, <1>13, <2>2
    <3> QED
      BY <1>8, <2>1, <3>1 DEF read
  <2>3. CASE fetched.res # "ENOENT"
    <3>1. read = fetched
      BY <1>6, <1>13, <2>1, <2>3
    <3> QED
      BY <2>1, <3>1 DEF Gives, read
  <2> QED
    BY <2>2, <2>3
<1> QED
  BY <1>11, <1>12, <1>13

\* A piece of a read gets bytes of the file from its position on, and all of
\* them from a segment that can be had.
LEMMA SegmentGives ==
  ASSUME NEW size \in Nat, NEW pos \in Nat, NEW len \in Nat \ {0},
         pos + len <= size, pos + len <= SegStart(pos) + Blk,
         NEW segment \in Segment, HonestSegment(size, SegStart(pos), segment)
  PROVE  /\ GivesSome(Cache_read_segment(size, len, pos, segment), pos, len)
         /\ SoundSegment(segment)
              => Cache_read_segment(size, len, pos, segment) = Got(Bytes(pos, len))
<1> DEFINE read == Cache_read_segment(size, len, pos, segment)
<1>1. CASE Seg_exist(segment)
  <2>1. segment.stored \in {"whole", "torn", "broken"}
    BY <1>1 DEF Segment, Seg_exist
  <2>2. read = Data_read(size, len, pos, segment.stored)
    BY <1>1 DEF Cache_read_segment
  <2>3. (IF pos >= size THEN 0 ELSE Lesser(len, size - pos)) = len
    BY DEF Lesser
  <2>4. read = CASE segment.stored = "whole"  -> Got(Bytes(pos, len))
                 [] segment.stored = "torn"   -> Got(Bytes(pos, len - 1))
                 [] segment.stored = "broken" -> Failed("EIO")
    BY <2>2, <2>3 DEF Data_read
  <2> HIDE DEF read
  <2>5. len \in 0..len /\ len - 1 \in 0..len
    OBVIOUS
  <2>6. CASE segment.stored = "whole"
    BY <2>4, <2>5, <2>6 DEF GivesSome, read
  <2>7. CASE segment.stored = "torn"
    <3>1. read = Got(Bytes(pos, len - 1))
      BY <2>4, <2>7
    <3> QED
      BY <1>1, <2>5, <2>7, <3>1 DEF GivesSome, SoundSegment, read
  <2>8. CASE segment.stored = "broken"
    <3>1. read.res # "ok" /\ read.bytes = <<>>
      BY <2>4, <2>8 DEF Failed
    <3> QED
      BY <1>1, <2>8, <3>1 DEF GivesSome, SoundSegment, read
  <2> QED
    BY <2>1, <2>6, <2>7, <2>8
<1>w. CASE FetchedByOther(segment)
  <2>1. segment \in [replies : Seq(Reply), early : Nat, again : Seq(Reply)]
        /\ ~Seg_exist(segment)
    BY <1>w DEF Segment, FetchedByOther, Seg_exist
  <2>2. read = Wait(size, len, pos, segment)
    BY <1>w, <2>1 DEF Cache_read_segment
  <2>3. /\ Gives(read, pos, len)
        /\ Answered(segment.replies) => read = Got(Bytes(pos, len))
    BY <2>1, <2>2, WaitGives
  <2>4. len \in 0..len
    OBVIOUS
  <2> HIDE DEF read
  <2> QED
    BY <2>1, <2>3, <2>4 DEF Gives, GivesSome, SoundSegment, read
<1>2. CASE ~Seg_exist(segment) /\ ~FetchedByOther(segment)
  <2>1. segment.replies \in Seq(Reply)
    BY <1>2 DEF Segment, Seg_exist
  <2>2. read = Fetch(size, len, pos, segment.replies)
    BY <1>2 DEF Cache_read_segment
  <2>k. NoLookalike(ReqSize(size, Blk, SegStart(pos)), segment.replies)
    BY <1>2 DEF HonestSegment
  <2>3. /\ Gives(read, pos, len)
        /\ Answered(segment.replies) => read = Got(Bytes(pos, len))
    BY <2>1, <2>2, <2>k, FetchGives
  <2>4. len \in 0..len
    OBVIOUS
  <2> HIDE DEF read
  <2> QED
    BY <1>2, <2>3, <2>4 DEF Gives, GivesSome, SoundSegment, read
<1> QED
  BY <1>1, <1>w, <1>2

-----------------------------------------------------------------------------
(* How a read is cut. *)

\* A cut goes on, stays in the segment and in the read, and ends at the end of
\* one of them.
LEMMA CutIs ==
  ASSUME NEW s \in Nat, NEW end \in Nat, s < end
  PROVE  /\ Cut(s, end - s) \in Nat /\ s < Cut(s, end - s) /\ Cut(s, end - s) <= end
         /\ Cut(s, end - s) <= SegStart(s) + Blk
         /\ Cut(s, end - s) = end \/ Cut(s, end - s) = SegStart(s) + Blk
<1> DEFINE next == SegStart(s) + Blk
<1>1. next \in Nat /\ s < next
  <2>1. SegStart(s) \in Nat /\ s < SegStart(s) + Blk
    BY InSegment
  <2> QED
    BY <2>1, SplitAssumption DEF SplitAssumption
<1>2. Cut(s, end - s) = Lesser(next, s + (end - s))
  BY DEF Cut
<1> HIDE DEF next
<1>3. Cut(s, end - s) = IF next < end THEN next ELSE end
  BY <1>1, <1>2 DEF Lesser
<1> QED
  BY <1>1, <1>3 DEF next

\* What the loop of Cache_read makes from s on, f being what it makes later.
Rest(f, s, end) == <<[pos |-> s, len |-> Cut(s, end - s) - s]>> \o f[Cut(s, end - s)]
Loops(f, first, end) ==
  f = [s \in first .. end |-> IF s = end THEN <<>> ELSE Rest(f, s, end)]

\* The loop ends.
LEMMA LoopEnds ==
  ASSUME NEW first \in Nat, NEW end \in Nat, first <= end
  PROVE  \E f : Loops(f, first, end)
<1> DEFINE T == {k \in Nat : k <= end - first /\ ~ \E f : Loops(f, end - k, end)}
<1>1. SUFFICES ASSUME T # {} PROVE FALSE
  <2>1. end - first \in Nat /\ end - (end - first) = first
    OBVIOUS
  <2>2. end - first \notin T
    BY <1>1
  <2> QED
    BY <2>1, <2>2
<1>2. PICK k \in T : \A j \in T : k <= j
  BY <1>1, Least
<1>3. k \in Nat /\ k <= end - first /\ ~ \E f : Loops(f, end - k, end)
  BY <1>2
<1>4. k # 0
  <2> SUFFICES ASSUME k = 0 PROVE FALSE
    OBVIOUS
  <2>1. Loops([s \in end .. end |-> <<>>], end, end)
    BY DEF Loops
  <2> QED
    BY <1>3, <2>1
<1>5. PICK f : Loops(f, end - k + 1, end)
  <2>1. k - 1 \in Nat /\ k - 1 < k /\ k - 1 <= end - first /\ end - (k - 1) = end - k + 1
    BY <1>3, <1>4
  <2>2. k - 1 \notin T
    BY <1>2, <2>1
  <2> QED
    BY <2>1, <2>2
<1> DEFINE low == end - k
           g == [s \in low .. end |-> IF s = low THEN Rest(f, low, end) ELSE f[s]]
<1>6. low \in Nat /\ low < end /\ low + 1 = end - k + 1
  BY <1>3, <1>4
<1> HIDE DEF low
<1>7. ASSUME NEW s \in low .. end
      PROVE  g[s] = IF s = end THEN <<>> ELSE Rest(g, s, end)
  <2>1. CASE s = end
    <3>1. end \in low + 1 .. end
      BY <1>6
    <3> QED
      BY <1>5, <1>6, <2>1, <3>1 DEF Loops
  <2>2. CASE s # end
    <3> DEFINE next == Cut(s, end - s)
    <3>1. next \in low .. end /\ next # low
      <4>1. s \in Nat /\ s < end
        BY <1>6, <2>2
      <4>2. next \in Nat /\ s < next /\ next <= end
        BY <4>1, CutIs
      <4> HIDE DEF next
      <4> QED
        BY <1>6, <4>1, <4>2
    <3>2. g[next] = f[next]
      BY <3>1
    <3>3. Rest(g, s, end) = Rest(f, s, end)
      BY <3>2 DEF Rest
    <3>4. CASE s = low
      BY <2>2, <3>3, <3>4
    <3>5. CASE s # low
      <4>1. s \in low + 1 .. end
        BY <1>6, <3>5
      <4>2. f[s] = Rest(f, s, end)
        BY <1>5, <1>6, <2>2, <4>1 DEF Loops
      <4> QED
        BY <2>2, <3>3, <3>5, <4>2
    <3> QED
      BY <3>4, <3>5
  <2> QED
    BY <2>1, <2>2
<1>8. Loops(g, low, end)
  BY <1>7 DEF Loops
<1> QED
  BY <1>3, <1>8 DEF low

\* The pieces of a read follow each other from its start to its end, and each
\* but the last ends where its segment does.
Piece == [pos : Nat, len : Nat \ {0}]
PieceEnd(piece) == piece.pos + piece.len
IsCut(pieces, first, end) ==
  /\ pieces \in Seq(Piece) /\ pieces # <<>> /\ pieces[1].pos = first
  /\ \A i \in 1 .. Len(pieces) :
       /\ first <= pieces[i].pos /\ PieceEnd(pieces[i]) <= end
       /\ PieceEnd(pieces[i]) <= SegStart(pieces[i].pos) + Blk
  /\ \A i \in 1 .. Len(pieces) - 1 :
       /\ pieces[i + 1].pos = PieceEnd(pieces[i])
       /\ \A j \in i + 1 .. Len(pieces) :
            SegStart(pieces[i].pos) + Blk <= pieces[j].pos
  /\ PieceEnd(pieces[Len(pieces)]) = end

\* A piece is put before what the loop makes next.
LEMMA CutExtends ==
  ASSUME NEW s \in Nat, NEW end \in Nat, s < end, NEW rest,
         \/ Cut(s, end - s) = end /\ rest = <<>>
         \/ Cut(s, end - s) # end /\ IsCut(rest, Cut(s, end - s), end)
  PROVE  IsCut(<<[pos |-> s, len |-> Cut(s, end - s) - s]>> \o rest, s, end)
<1> DEFINE next == Cut(s, end - s)
           piece == [pos |-> s, len |-> next - s]
           one == <<piece>>
           all == one \o rest
<1>1. /\ next \in Nat /\ s < next /\ next <= end /\ next <= SegStart(s) + Blk
      /\ next = end \/ next = SegStart(s) + Blk
  BY CutIs
<1> HIDE DEF next
<1>2. piece \in Piece /\ PieceEnd(piece) = next /\ piece.pos = s
  BY <1>1 DEF Piece, PieceEnd
<1> HIDE DEF piece
<1>3. one \in Seq(Piece) /\ Len(one) = 1 /\ one[1] = piece
  BY <1>2
<1>4. rest \in Seq(Piece) /\ Len(rest) \in Nat
  <2>1. rest = <<>> => rest \in Seq(Piece)
    OBVIOUS
  <2>2. rest \in Seq(Piece)
    BY <2>1 DEF IsCut
  <2> QED
    BY <2>2, LenProperties
<1> HIDE DEF one
<1>5. /\ all \in Seq(Piece) /\ Len(all) = 1 + Len(rest)
      /\ \A i \in 1 .. 1 + Len(rest) : all[i] = IF i <= 1 THEN one[i] ELSE rest[i - 1]
  <2>1. /\ all \in Seq(Piece) /\ Len(all) = Len(one) + Len(rest)
        /\ \A i \in 1 .. Len(one) + Len(rest) :
             all[i] = IF i <= Len(one) THEN one[i] ELSE rest[i - Len(one)]
    BY <1>3, <1>4, ConcatProperties
  <2> HIDE DEF all
  <2> QED
    BY <1>3, <2>1
<1> HIDE DEF all
<1>6. all[1] = piece /\ \A i \in 1 .. Len(rest) : all[i + 1] = rest[i]
  BY <1>3, <1>4, <1>5
<1>7. CASE next = end /\ rest = <<>>
  <2>1. Len(all) = 1
    BY <1>5, <1>7
  <2> QED
    BY <1>1, <1>2, <1>5, <1>6, <1>7, <2>1 DEF IsCut, all, one, piece, next
<1>8. CASE next # end /\ IsCut(rest, next, end)
  <2> DEFINE n == Len(rest)
  <2>1. n \in Nat \ {0} /\ rest[1].pos = next
    BY <1>8 DEF IsCut
  <2>2. Len(all) = n + 1
    BY <1>4, <1>5
  <2>3. ASSUME NEW i \in 1 .. n + 1
        PROVE  /\ s <= all[i].pos /\ PieceEnd(all[i]) <= end
               /\ PieceEnd(all[i]) <= SegStart(all[i].pos) + Blk
    <3>1. CASE i = 1
      BY <1>1, <1>2, <1>6, <3>1
    <3>2. CASE i # 1
      <4>1. i - 1 \in 1..n /\ all[i] = rest[i - 1]
        BY <1>5, <2>1, <3>2
      <4>2. /\ next <= rest[i - 1].pos /\ PieceEnd(rest[i - 1]) <= end
            /\ PieceEnd(rest[i - 1]) <= SegStart(rest[i - 1].pos) + Blk
        BY <1>8, <4>1 DEF IsCut
      <4>3. rest[i - 1].pos \in Nat
        <5>1. rest[i - 1] \in Piece
          BY <1>4, <4>1
        <5> QED
          BY <5>1 DEF Piece
      <4> QED
        BY <1>1, <4>1, <4>2, <4>3
    <3> QED
      BY <3>1, <3>2
  <2>4. ASSUME NEW i \in 1..n
        PROVE  /\ all[i + 1].pos = PieceEnd(all[i])
               /\ \A j \in i + 1 .. n + 1 : SegStart(all[i].pos) + Blk <= all[j].pos
    <3>1. CASE i = 1
      <4>1. all[2].pos = next /\ SegStart(s) + Blk = next /\ PieceEnd(all[1]) = next
        BY <1>1, <1>2, <1>6, <1>8, <2>1
      <4>2. \A j \in 2 .. n + 1 : next <= all[j].pos
        <5> SUFFICES ASSUME NEW j \in 2 .. n + 1 PROVE next <= all[j].pos
          OBVIOUS
        <5>1. j - 1 \in 1..n /\ all[j] = rest[j - 1]
          BY <1>5, <2>1
        <5> QED
          BY <1>8, <5>1 DEF IsCut
      <4> QED
        BY <1>2, <1>6, <3>1, <4>1, <4>2
    <3>2. CASE i # 1
      <4>1. /\ i - 1 \in 1 .. n - 1 /\ all[i] = rest[i - 1] /\ all[i + 1] = rest[i]
            /\ (i - 1) + 1 = i
        BY <1>5, <2>1, <3>2
      <4>2. /\ rest[(i - 1) + 1].pos = PieceEnd(rest[i - 1])
            /\ \A j \in (i - 1) + 1 .. n : SegStart(rest[i - 1].pos) + Blk <= rest[j].pos
        BY <1>8, <4>1 DEF IsCut
      <4>3. ASSUME NEW j \in i + 1 .. n + 1
            PROVE  SegStart(all[i].pos) + Blk <= all[j].pos
        <5>1. j - 1 \in i .. n /\ all[j] = rest[j - 1]
          BY <1>5, <2>1
        <5> HIDE DEF n
        <5> QED
          BY <4>1, <4>2, <5>1
      <4> QED
        BY <4>1, <4>2, <4>3
    <3> QED
      BY <3>1, <3>2
  <2>5. PieceEnd(all[n + 1]) = end
    BY <1>6, <1>8, <2>1 DEF IsCut
  <2>6. all # <<>>
    BY <2>1, <2>2
  <2> HIDE DEF n
  <2>7. IsCut(all, s, end)
    <3>1. all \in Seq(Piece) /\ all # <<>> /\ all[1].pos = s
      BY <1>2, <1>5, <1>6, <2>6
    <3>2. Len(all) - 1 = n
      BY <2>1, <2>2
    <3>3. PieceEnd(all[Len(all)]) = end
      BY <2>2, <2>5
    <3>4. \A i \in 1 .. Len(all) :
            /\ s <= all[i].pos /\ PieceEnd(all[i]) <= end
            /\ PieceEnd(all[i]) <= SegStart(all[i].pos) + Blk
      BY <2>2, <2>3
    <3>5. \A i \in 1 .. Len(all) - 1 :
            /\ all[i + 1].pos = PieceEnd(all[i])
            /\ \A j \in i + 1 .. Len(all) : SegStart(all[i].pos) + Blk <= all[j].pos
      BY <2>2, <2>4, <3>2
    <3> QED
      BY <3>1, <3>3, <3>4, <3>5 DEF IsCut
  <2> QED
    BY <2>7 DEF all, one, piece, next
<1>9. \/ next = end /\ rest = <<>>
      \/ next # end /\ IsCut(rest, next, end)
  BY DEF next
<1> QED
  BY <1>7, <1>8, <1>9 DEF all, one, piece, next

\* The pieces are what its loop makes.
LEMMA PiecesLoop ==
  ASSUME NEW offset \in Nat, NEW left \in Nat
  PROVE  \E f : Loops(f, offset, offset + left) /\ Pieces(offset, left) = f[offset]
<1> DEFINE end == offset + left
<1> DEFINE Loop[s \in offset .. end] ==
             IF s = end THEN <<>>
             ELSE LET next == Cut(s, end - s)
                  IN  <<[pos |-> s, len |-> next - s]>> \o Loop[next]
<1>1. \E f : Loops(f, offset, end)
  BY LoopEnds
<1>2. Loops(Loop, offset, end)
  BY <1>1 DEF Loops, Rest
<1>3. Pieces(offset, left) = Loop[offset]
  BY DEF Pieces
<1> QED
  BY <1>2, <1>3

\* There are none of an empty read.
LEMMA PiecesNone == \A offset \in Nat : Pieces(offset, 0) = <<>>
<1> SUFFICES ASSUME NEW offset \in Nat PROVE Pieces(offset, 0) = <<>>
  OBVIOUS
<1>1. PICK f : Loops(f, offset, offset + 0) /\ Pieces(offset, 0) = f[offset]
  BY PiecesLoop
<1>2. offset \in offset .. offset + 0 /\ offset = offset + 0
  OBVIOUS
<1>3. f[offset] = <<>>
  BY <1>1, <1>2 DEF Loops
<1> QED
  BY <1>1, <1>3

\* Pieces cuts a read so.
LEMMA PiecesCut ==
  ASSUME NEW offset \in Nat, NEW left \in Nat \ {0}
  PROVE  IsCut(Pieces(offset, left), offset, offset + left)
<1> DEFINE end == offset + left
<1>1. PICK f : Loops(f, offset, end) /\ Pieces(offset, left) = f[offset]
  BY PiecesLoop
<1>2. end \in Nat /\ offset < end
  OBVIOUS
<1> HIDE DEF end
<1> DEFINE T == {k \in Nat : k # 0 /\ k <= end - offset /\ ~IsCut(f[end - k], end - k, end)}
<1>3. SUFFICES ASSUME T # {} PROVE FALSE
  <2>1. end - offset \in Nat \ {0} /\ end - (end - offset) = offset
    BY <1>2
  <2>2. end - offset \notin T
    BY <1>3
  <2> QED
    BY <1>1, <2>1, <2>2 DEF end
<1>4. PICK k \in T : \A j \in T : k <= j
  BY <1>3, Least
<1>5. k \in Nat \ {0} /\ k <= end - offset /\ ~IsCut(f[end - k], end - k, end)
  BY <1>4
<1> DEFINE s == end - k
           next == Cut(s, end - s)
<1>6. s \in Nat /\ s < end /\ s \in offset .. end
  BY <1>2, <1>5
<1>7. next \in Nat /\ s < next /\ next <= end
  BY <1>2, <1>6, CutIs
<1>8. f[s] = <<[pos |-> s, len |-> next - s]>> \o f[next]
  <2>1. \A u \in offset .. end : f[u] = IF u = end THEN <<>> ELSE Rest(f, u, end)
    BY <1>1 DEF Loops
  <2> HIDE DEF s
  <2>2. f[s] = Rest(f, s, end)
    BY <1>6, <2>1
  <2> QED
    BY <2>2 DEF Rest
<1>9. next = end => f[next] = <<>>
  BY <1>1, <1>2 DEF Loops
<1> HIDE DEF next
<1>10. next # end => IsCut(f[next], next, end)
  <2> SUFFICES ASSUME next # end PROVE IsCut(f[next], next, end)
    OBVIOUS
  <2> DEFINE j == end - next
  <2>1. j \in Nat /\ j # 0 /\ j <= end - offset /\ ~(k <= j) /\ end - j = next
    BY <1>2, <1>5, <1>6, <1>7
  <2> HIDE DEF j
  <2>2. j \notin T
    BY <1>4, <2>1
  <2> QED
    BY <2>1, <2>2
<1>11. IsCut(f[s], s, end)
  <2> HIDE DEF s
  <2> QED
    BY <1>2, <1>6, <1>8, <1>9, <1>10, CutExtends DEF next
<1> QED
  BY <1>5, <1>11

-----------------------------------------------------------------------------
(* What the pieces give, put together. *)

\* The first n of these sequences one after the other, as FlattenSeq does it.
Flattens(f, seqs, n) ==
  f = [i \in 1..n |-> IF i = 1 THEN seqs[i] ELSE f[i - 1] \o seqs[i]]

LEMMA FlattenEnds ==
  ASSUME NEW seqs, NEW n \in Nat
  PROVE  \E f : Flattens(f, seqs, n)
<1> DEFINE T == {k \in Nat : ~ \E f : Flattens(f, seqs, k)}
<1>1. SUFFICES ASSUME T # {} PROVE FALSE
  OBVIOUS
<1>2. PICK k \in T : \A j \in T : k <= j
  BY <1>1, Least
<1>3. k \in Nat /\ ~ \E f : Flattens(f, seqs, k)
  BY <1>2
<1>4. k # 0
  <2> SUFFICES ASSUME k = 0 PROVE FALSE
    OBVIOUS
  <2>1. Flattens([i \in 1..0 |-> <<>>], seqs, 0)
    BY DEF Flattens
  <2> QED
    BY <1>3, <2>1
<1>5. PICK f : Flattens(f, seqs, k - 1)
  <2>1. k - 1 \in Nat /\ ~(k <= k - 1)
    BY <1>3, <1>4
  <2>2. k - 1 \notin T
    BY <1>2, <2>1
  <2> QED
    BY <2>1, <2>2
<1> DEFINE new == IF k = 1 THEN seqs[k] ELSE f[k - 1] \o seqs[k]
           g == [i \in 1..k |-> IF i = k THEN new ELSE f[i]]
<1>6. ASSUME NEW i \in 1..k
      PROVE  g[i] = IF i = 1 THEN seqs[i] ELSE g[i - 1] \o seqs[i]
  <2>1. CASE i = k
    <3>1. k # 1 => g[k - 1] = f[k - 1]
      BY <1>3, <1>4
    <3> QED
      BY <2>1, <3>1
  <2>2. CASE i # k
    <3>1. i \in 1 .. k - 1 /\ g[i] = f[i]
      BY <1>3, <2>2
    <3>2. f[i] = IF i = 1 THEN seqs[i] ELSE f[i - 1] \o seqs[i]
      BY <1>5, <3>1 DEF Flattens
    <3>3. i # 1 => g[i - 1] = f[i - 1]
      BY <1>3, <3>1
    <3> HIDE DEF g
    <3> QED
      BY <3>1, <3>2, <3>3
  <2> QED
    BY <2>1, <2>2
<1>7. Flattens(g, seqs, k)
  BY <1>6 DEF Flattens
<1> QED
  BY <1>3, <1>7

\* Runs of bytes, each from where the last one ended, make one run.
LEMMA FlattenBytes ==
  ASSUME NEW n \in Nat \ {0}, NEW at \in [1..n -> Nat], NEW m \in [1..n -> Nat],
         \A i \in 1 .. n - 1 : at[i + 1] = at[i] + m[i],
         NEW seqs, Len(seqs) = n, \A i \in 1..n : seqs[i] = Bytes(at[i], m[i])
  PROVE  /\ FlattenSeq(seqs) = Bytes(at[1], at[n] + m[n] - at[1])
         /\ at[1] <= at[n]
<1>1. PICK f : Flattens(f, seqs, n) /\ FlattenSeq(seqs) = f[n]
  <2> DEFINE flatten[i \in 1..Len(seqs)] ==
               IF i = 1 THEN seqs[i] ELSE flatten[i-1] \o seqs[i]
  <2>1. \E f : Flattens(f, seqs, n)
    BY FlattenEnds
  <2>2. Flattens(flatten, seqs, n)
    BY <2>1 DEF Flattens
  <2>3. FlattenSeq(seqs) = flatten[n]
    BY DEF FlattenSeq
  <2> QED
    BY <2>2, <2>3
<1>2. \A i \in 1..n : f[i] = IF i = 1 THEN seqs[i] ELSE f[i - 1] \o seqs[i]
  BY <1>1 DEF Flattens
<1> DEFINE Joins(k) == f[k] = Bytes(at[1], at[k] + m[k] - at[1]) /\ at[1] <= at[k]
           T == {k \in Nat : k \in 1..n /\ ~Joins(k)}
<1>3. SUFFICES ASSUME T # {} PROVE FALSE
  <2>1. n \in Nat /\ n \in 1..n /\ n \notin T
    BY <1>3
  <2>2. Joins(n)
    BY <2>1
  <2> QED
    BY <1>1, <2>2
<1>4. PICK k \in T : \A j \in T : k <= j
  <2>1. T \subseteq Nat
    OBVIOUS
  <2> HIDE DEF T
  <2> QED
    BY <1>3, <2>1, Least
<1>5. k \in 1..n /\ ~Joins(k)
  BY <1>4
<1>6. k # 1
  <2> SUFFICES ASSUME k = 1 PROVE FALSE
    OBVIOUS
  <2>1. f[1] = Bytes(at[1], m[1]) /\ 1 \in 1..n
    BY <1>2
  <2>2. at[1] + m[1] - at[1] = m[1] /\ at[1] <= at[1]
    BY <2>1
  <2> QED
    BY <1>5, <2>1, <2>2
<1>7. Joins(k - 1)
  <2>1. k - 1 \in Nat /\ k - 1 \in 1..n /\ ~(k <= k - 1)
    BY <1>5, <1>6
  <2>2. k - 1 \notin T
    BY <1>4, <2>1
  <2> HIDE DEF Joins
  <2> QED
    BY <2>1, <2>2
<1> DEFINE j == k - 1
<1>8. j \in 1..n /\ j \in 1 .. n - 1 /\ j + 1 = k /\ k # 1
  BY <1>5, <1>6
<1>9. /\ f[k] = f[j] \o seqs[k] /\ seqs[k] = Bytes(at[k], m[k])
      /\ f[j] = Bytes(at[1], at[j] + m[j] - at[1]) /\ at[1] <= at[j]
  BY <1>2, <1>5, <1>6, <1>7
<1>10. at[k] = at[j] + m[j]
  <2> HIDE DEF j
  <2> QED
    BY <1>8
<1> HIDE DEF j, Joins
<1> DEFINE a == at[1]
           c == at[j] + m[j] - at[1]
           d == m[k]
<1>11. /\ a \in Nat /\ c \in Nat /\ d \in Nat
       /\ a + c = at[k] /\ c + d = at[k] + m[k] - at[1] /\ a <= at[k]
  <2>1. at[1] \in Nat /\ at[j] \in Nat /\ m[j] \in Nat /\ m[k] \in Nat
    BY <1>5, <1>8
  <2>2. at[1] <= at[j] /\ at[k] = at[j] + m[j]
    BY <1>9, <1>10
  <2>3. /\ c \in Nat /\ at[1] + c = at[j] + m[j]
        /\ c + m[k] = (at[j] + m[j]) + m[k] - at[1] /\ at[1] <= at[j] + m[j]
    <3> QED
      <4> DEFINE x == at[1]
                 y == at[j]
                 z == m[j]
                 w == m[k]
      <4>1. x \in Nat /\ y \in Nat /\ z \in Nat /\ w \in Nat /\ x <= y
        BY <2>1, <2>2
      <4> HIDE DEF x, y, z, w
      <4>2. /\ y + z - x \in Nat /\ x + (y + z - x) = y + z
            /\ (y + z - x) + w = (y + z) + w - x /\ x <= y + z
        BY <4>1
      <4> QED
        BY <4>2 DEF x, y, z, w
  <2> QED
    BY <2>1, <2>2, <2>3
<1>12. f[k] = Bytes(a, c) \o Bytes(a + c, d)
  BY <1>9, <1>11
<1> HIDE DEF a, c, d
<1>13. f[k] = Bytes(a, c + d)
  <2>1. Bytes(a, c) \o Bytes(a + c, d) = Bytes(a, c + d)
    <3>1. a \in Int /\ c \in Nat /\ d \in Nat
      BY <1>11
    <3> QED
      BY <3>1, BytesJoin
  <2> QED
    BY <1>12, <2>1
<1> QED
  BY <1>5, <1>11, <1>13 DEF Joins, a

\* The pieces of a read give bytes from its start on, and all of them when each
\* gives all of its own.
LEMMA JoinedGives ==
  ASSUME NEW first \in Nat, NEW end \in Nat, NEW pieces, IsCut(pieces, first, end),
         NEW read, Len(read) = Len(pieces), DOMAIN read = 1 .. Len(pieces),
         \A i \in 1 .. Len(pieces) :
           GivesSome(read[i], pieces[i].pos, pieces[i].len)
  PROVE  /\ GivesSome(Joined(pieces, read), first, end - first)
         /\ (\A i \in 1 .. Len(pieces) :
               read[i] = Got(Bytes(pieces[i].pos, pieces[i].len)))
            => Joined(pieces, read) = Got(Bytes(first, end - first))
<1> DEFINE n == Len(pieces)
           Short(i) == read[i].res # "ok" \/ Len(read[i].bytes) < pieces[i].len
           stops == {i \in DOMAIN read : Short(i)}
           last == IF stops = {} THEN Len(read)
                   ELSE CHOOSE i \in stops : \A j \in stops : i <= j
           got == [i \in 1..last |-> read[i].bytes]
           result == Joined(pieces, read)
<1>1. /\ n \in Nat \ {0} /\ pieces \in Seq(Piece)
      /\ \A i \in 1..n : pieces[i].pos \in Nat /\ pieces[i].len \in Nat \ {0}
  <2>1. pieces \in Seq(Piece) /\ pieces # <<>>
    BY DEF IsCut
  <2>2. n \in Nat \ {0} /\ \A i \in 1..n : pieces[i] \in Piece
    BY <2>1, EmptySeq, LenProperties
  <2> QED
    BY <2>1, <2>2 DEF Piece
<1>2. last \in 1..n /\ \A i \in 1 .. last - 1 : ~Short(i)
  <2>1. CASE stops = {}
    <3>1. \A i \in 1..n : ~Short(i)
      BY <2>1
    <3> HIDE DEF Short
    <3> QED
      BY <1>1, <2>1, <3>1
  <2>2. CASE stops # {}
    <3>1. stops \subseteq Nat /\ stops \subseteq 1..n
      BY <1>1
    <3>2. \E i \in stops : \A j \in stops : i <= j
      BY <2>2, <3>1, Least
    <3>3. last \in stops /\ \A j \in stops : last <= j
      BY <2>2, <3>2
    <3>4. \A i \in 1..n : i \notin stops => ~Short(i)
      OBVIOUS
    <3> HIDE DEF last, stops, Short
    <3> QED
      BY <1>1, <3>1, <3>3, <3>4
  <2> QED
    BY <2>1, <2>2
<1>3. result = IF read[last].res # "ok" THEN read[last] ELSE Got(FlattenSeq(got))
  BY DEF Joined
<1>4. ASSUME NEW i \in 1..n, read[i].res = "ok"
      PROVE  \E m \in 0 .. pieces[i].len :
               read[i].bytes = Bytes(pieces[i].pos, m) /\ Len(read[i].bytes) = m
  <2>1. PICK m \in 0 .. pieces[i].len : read[i] = Got(Bytes(pieces[i].pos, m))
    BY <1>4 DEF GivesSome
  <2>2. m \in Nat /\ pieces[i].pos \in Nat
    BY <1>1, <2>1
  <2>3. Len(Bytes(pieces[i].pos, m)) = m
    BY <2>2, BytesLen, Zenon
  <2> QED
    BY <2>1, <2>3 DEF Got
<1>5. \A i \in 1..n : ~Short(i) => read[i].bytes = Bytes(pieces[i].pos, pieces[i].len)
  <2> SUFFICES ASSUME NEW i \in 1..n, ~Short(i)
               PROVE  read[i].bytes = Bytes(pieces[i].pos, pieces[i].len)
    OBVIOUS
  <2>1. PICK m \in 0 .. pieces[i].len :
          read[i].bytes = Bytes(pieces[i].pos, m) /\ Len(read[i].bytes) = m
    BY <1>4
  <2>2. pieces[i].len \in Nat
    BY <1>1
  <2>3. m = pieces[i].len
    BY <2>1, <2>2
  <2> QED
    BY <2>1, <2>3
<1> HIDE DEF stops
<1>6. CASE read[last].res # "ok"
  <2>1. result = read[last]
    BY <1>3, <1>6
  <2>2. read[last].bytes = <<>>
    <3>1. GivesSome(read[last], pieces[last].pos, pieces[last].len)
      BY <1>2
    <3> HIDE DEF last
    <3> QED
      BY <1>6, <3>1, FailsEmpty
  <2>3. ~ \A i \in 1..n : read[i] = Got(Bytes(pieces[i].pos, pieces[i].len))
    <3> HIDE DEF last
    <3> QED
      BY <1>2, <1>6 DEF Got
  <2> HIDE DEF last, result
  <2> QED
    BY <1>6, <2>1, <2>2, <2>3 DEF GivesSome, result
<1>7. CASE read[last].res = "ok"
  <2>1. PICK tail \in 0 .. pieces[last].len :
          read[last].bytes = Bytes(pieces[last].pos, tail) /\ Len(read[last].bytes) = tail
    <3> HIDE DEF last
    <3> QED
      BY <1>2, <1>4, <1>7
  <2> DEFINE at == [i \in 1..last |-> pieces[i].pos]
             m == [i \in 1..last |-> IF i = last THEN tail ELSE pieces[i].len]
  <2> HIDE DEF last
  <2>2. /\ last \in Nat \ {0} /\ at \in [1..last -> Nat] /\ m \in [1..last -> Nat]
        /\ at[1] = first
        /\ \A i \in 1 .. last - 1 : at[i + 1] = at[i] + m[i]
    <3>1. \A i \in 1..last : i \in 1..n
      BY <1>1, <1>2
    <3>2. tail \in Nat /\ last \in Nat \ {0}
      BY <1>1, <1>2, <2>1
    <3>3. \A i \in 1 .. last - 1 : pieces[i + 1].pos = pieces[i].pos + pieces[i].len
      BY <1>1, <1>2 DEF IsCut, PieceEnd
    <3>4. pieces[1].pos = first
      BY DEF IsCut
    <3> QED
      BY <1>1, <3>1, <3>2, <3>3, <3>4
  <2>3. Len(got) = last /\ \A i \in 1..last : got[i] = Bytes(at[i], m[i])
    <3>1. \A i \in 1 .. last - 1 : read[i].bytes = Bytes(pieces[i].pos, pieces[i].len)
      BY <1>1, <1>2, <1>5
    <3>2. Len(got) = last
      BY <2>2
    <3>3. \A i \in 1..last : got[i] = Bytes(at[i], m[i])
      <4> SUFFICES ASSUME NEW i \in 1..last PROVE got[i] = Bytes(at[i], m[i])
        OBVIOUS
      <4>1. i = last \/ i \in 1 .. last - 1
        BY <2>2
      <4> QED
        BY <2>1, <3>1, <4>1
    <3> QED
      BY <3>2, <3>3
  <2> DEFINE size == at[last] + m[last] - at[1]
  <2>4. FlattenSeq(got) = Bytes(at[1], size) /\ at[1] <= at[last]
    <3> HIDE DEF got, at, m
    <3> QED
      BY <2>2, <2>3, FlattenBytes
  <2>5. /\ last \in 1..last /\ at[last] = pieces[last].pos /\ m[last] = tail
        /\ PieceEnd(pieces[last]) <= end /\ pieces[last].pos \in Nat
        /\ pieces[last].len \in Nat \ {0}
    BY <1>1, <1>2, <2>2 DEF IsCut
  <2> HIDE DEF at, m
  <2>6. size \in 0 .. end - first
    <3> DEFINE pos == pieces[last].pos
               len == pieces[last].len
    <3>1. /\ pos \in Nat /\ len \in Nat /\ pos + len <= end
          /\ tail \in Nat /\ tail <= len
      BY <2>1, <2>5 DEF PieceEnd
    <3>2. first <= pos /\ size = pos + tail - first
      BY <2>2, <2>4, <2>5
    <3> HIDE DEF pos, len, size
    <3> QED
      BY <3>1, <3>2
  <2> HIDE DEF size
  <2>7. result = Got(Bytes(first, size))
    BY <1>3, <1>7, <2>2, <2>4
  <2>8. ASSUME \A i \in 1..n : read[i] = Got(Bytes(pieces[i].pos, pieces[i].len))
        PROVE  size = end - first
    <3>1. \A i \in 1..n : ~Short(i)
      <4> SUFFICES ASSUME NEW i \in 1..n PROVE ~Short(i)
        OBVIOUS
      <4>1. pieces[i].len \in Nat /\ pieces[i].pos \in Nat
        BY <1>1
      <4>2. Len(Bytes(pieces[i].pos, pieces[i].len)) = pieces[i].len
        BY <4>1, BytesLen, Zenon
      <4> QED
        BY <2>8, <4>1, <4>2 DEF Got
    <3>2. stops = {}
      BY <3>1 DEF stops
    <3>3. last = n
      BY <3>2 DEF last
    <3>4. tail = pieces[last].len
      <4>1. Len(read[last].bytes) >= pieces[last].len
        BY <1>2, <2>1, <2>5, <3>1
      <4> QED
        BY <2>1, <2>5, <4>1
    <3>5. PieceEnd(pieces[n]) = end
      BY DEF IsCut
    <3> QED
      BY <2>2, <2>5, <3>3, <3>4, <3>5 DEF PieceEnd, size
  <2> HIDE DEF result
  <2> QED
    BY <2>6, <2>7, <2>8 DEF GivesSome, result
<1> QED
  BY <1>6, <1>7

-----------------------------------------------------------------------------
(* A read. *)

\* How many bytes there are to read.
ToRead(size, len, offset) == IF offset >= size THEN 0 ELSE Lesser(len, size - offset)

LEMMA ToReadIs ==
  ASSUME NEW size \in Nat, NEW len \in Nat, NEW offset \in Nat
  PROVE  /\ ToRead(size, len, offset) \in Nat
         /\ ToRead(size, len, offset) # 0 => offset + ToRead(size, len, offset) <= size
         /\ {p \in offset .. offset + len - 1 : p < size}
              = offset .. offset + ToRead(size, len, offset) - 1
<1> DEFINE n == ToRead(size, len, offset)
<1>1. n = IF offset >= size THEN 0 ELSE IF len < size - offset THEN len ELSE size - offset
  BY DEF ToRead, Lesser
<1> HIDE DEF n
<1>2. n \in Nat /\ (n # 0 => offset + n <= size)
  BY <1>1
<1>3. ASSUME NEW p \in Int
      PROVE  (p \in offset .. offset + len - 1 /\ p < size) <=> p \in offset .. offset + n - 1
  BY <1>1
<1>4. {p \in offset .. offset + len - 1 : p < size} = offset .. offset + n - 1
  BY <1>3
<1> QED
  BY <1>2, <1>4 DEF n

\* A position in the file is in one of its segments.
LEMMA SegmentOf ==
  ASSUME NEW size \in Nat, NEW pos \in Nat, pos < size
  PROVE  pos \div Blk \in 0 .. Segbc(size) - 1
<1> DEFINE top == size + Blk - 1
           i == pos \div Blk
           j == top \div Blk
<1>1. Blk \in Nat \ {0} /\ top \in Nat
  BY SplitAssumption DEF SplitAssumption
<1>2. i \in Nat /\ SegStart(pos) = i * Blk /\ i * Blk <= pos
  <2>1. i \in Nat /\ SegStart(pos) = i * Blk /\ SegStart(pos) <= pos
    BY InSegment
  <2> HIDE DEF i
  <2> QED
    BY <2>1
<1>3. j \in Nat /\ top < j * Blk + Blk
  <2> HIDE DEF top
  <2>1. j \in Nat /\ SegStart(top) = j * Blk /\ top < SegStart(top) + Blk
    BY <1>1, InSegment
  <2> HIDE DEF j
  <2> QED
    BY <2>1
<1> HIDE DEF i, j
<1>4. i < j
  <2> SUFFICES ASSUME j <= i PROVE FALSE
    BY <1>2, <1>3
  <2>1. j * Blk <= i * Blk
    <3>1. j < i => j * Blk + Blk <= i * Blk
      BY <1>2, <1>3, Multiples
    <3>2. j * Blk \in Nat /\ i * Blk \in Nat
      BY <1>1, <1>2, <1>3
    <3> QED
      BY <1>1, <1>2, <1>3, <3>1, <3>2
  <2> DEFINE a == i * Blk
             b == j * Blk
  <2>2. a \in Nat /\ b \in Nat /\ b <= a /\ a <= pos /\ top < b + Blk
    BY <1>1, <1>2, <1>3, <2>1
  <2> HIDE DEF a, b
  <2> QED
    BY <1>1, <2>2
<1>5. Segbc(size) = j
  BY DEF Segbc, j
<1> QED
  BY <1>2, <1>3, <1>4, <1>5 DEF i

\* A read through the cache.
LEMMA CacheGives ==
  ASSUME NEW size \in Nat, NEW len \in Nat, NEW offset \in Nat,
         NEW segs \in [0 .. Segbc(size) - 1 -> Segment],
         \A p \in offset .. offset + ToRead(size, len, offset) - 1 :
           HonestSegment(size, SegStart(p), segs[p \div Blk])
  PROVE  LET n == ToRead(size, len, offset)
             read == Cache_read(size, len, offset, segs)
         IN  /\ GivesSome(read, offset, n)
             /\ (\A p \in offset .. offset + n - 1 : SoundSegment(segs[p \div Blk]))
                  => read = Got(Bytes(offset, n))
<1> DEFINE n == ToRead(size, len, offset)
           result == Cache_read(size, len, offset, segs)
           pieces == Pieces(offset, n)
           read == PiecesRead(size, pieces, segs)
<1>1. n \in Nat /\ (n # 0 => offset + n <= size)
  BY ToReadIs
<1>2. ReadSize(size, len, offset) = n
  BY DEF ReadSize, ToRead
<1>3. result = IF n = 0 THEN Got(<<>>) ELSE Joined(pieces, read)
  <2> HIDE DEF n
  <2> QED
    BY <1>1, <1>2 DEF Cache_read, ReadPieces
<1>h. \A p \in offset .. offset + n - 1 :
        HonestSegment(size, SegStart(p), segs[p \div Blk])
  OBVIOUS
<1> HIDE DEF n, result
<1>4. CASE n = 0
  <2>1. Bytes(offset, 0) = <<>> /\ 0 \in 0..0
    BY BytesPrefix
  <2> QED
    BY <1>3, <1>4, <2>1 DEF GivesSome, n, result
<1>5. CASE n # 0
  <2>1. IsCut(pieces, offset, offset + n)
    BY <1>1, <1>5, PiecesCut
  <2> HIDE DEF pieces
  <2>2. /\ Len(pieces) \in Nat /\ DOMAIN pieces = 1 .. Len(pieces)
        /\ \A i \in 1 .. Len(pieces) : pieces[i] \in Piece
    <3>1. pieces \in Seq(Piece)
      BY <2>1 DEF IsCut
    <3> QED
      BY <3>1, LenProperties
  <2>3. /\ DOMAIN read = 1 .. Len(pieces) /\ Len(read) = Len(pieces)
        /\ \A i \in 1 .. Len(pieces) :
             read[i] = Cache_read_segment(size, pieces[i].len, pieces[i].pos,
                                          segs[pieces[i].pos \div Blk])
    BY <2>2 DEF PiecesRead
  <2> HIDE DEF read
  <2>4. ASSUME NEW i \in 1 .. Len(pieces)
        PROVE  /\ GivesSome(read[i], pieces[i].pos, pieces[i].len)
               /\ pieces[i].pos \in offset .. offset + n - 1
               /\ SoundSegment(segs[pieces[i].pos \div Blk])
                    => read[i] = Got(Bytes(pieces[i].pos, pieces[i].len))
    <3> DEFINE pos == pieces[i].pos
               long == pieces[i].len
    <3>1. pos \in Nat /\ long \in Nat \ {0}
      BY <2>2 DEF Piece
    <3>2. /\ offset <= pos /\ pos + long <= offset + n
          /\ pos + long <= SegStart(pos) + Blk
      BY <2>1 DEF IsCut, PieceEnd
    <3>3. read[i] = Cache_read_segment(size, long, pos, segs[pos \div Blk])
      BY <2>3
    <3> HIDE DEF pos, long
    <3>4. pos + long <= size /\ pos < size /\ pos \in offset .. offset + n - 1
      BY <1>1, <1>5, <3>1, <3>2
    <3>5. segs[pos \div Blk] \in Segment
      BY <3>1, <3>4, SegmentOf
    <3>h. HonestSegment(size, SegStart(pos), segs[pos \div Blk])
      BY <1>h, <3>4
    <3>6. /\ GivesSome(read[i], pos, long)
          /\ SoundSegment(segs[pos \div Blk]) => read[i] = Got(Bytes(pos, long))
      BY <3>1, <3>2, <3>3, <3>4, <3>5, <3>h, SegmentGives
    <3> QED
      BY <3>4, <3>6 DEF pos, long
  <2> DEFINE end == offset + n
  <2>5. end \in Nat /\ end - offset = n /\ IsCut(pieces, offset, end)
    BY <1>1, <2>1
  <2> HIDE DEF end
  <2>6. /\ GivesSome(Joined(pieces, read), offset, end - offset)
        /\ (\A i \in 1 .. Len(pieces) :
              read[i] = Got(Bytes(pieces[i].pos, pieces[i].len)))
           => Joined(pieces, read) = Got(Bytes(offset, end - offset))
    BY <2>3, <2>4, <2>5, JoinedGives
  <2>7. result = Joined(pieces, read)
    BY <1>3, <1>5
  <2> QED
    BY <2>4, <2>5, <2>6, <2>7 DEF n, result
<1> QED
  BY <1>4, <1>5

\* What is read, and how much of it there is.
InputOK(in) ==
  /\ in.size \in Nat /\ in.len \in Nat /\ in.offset \in Nat
  /\ in.replies \in Seq(Reply)
  /\ fs_open(in.size, in.config) = "cache"
       => in.segs \in [0 .. Segbc(in.size) - 1 -> Segment]

(* Whatever the block size, the file, the read, what is cached, who fetches   *)
(* the rest, and whichever answers of the server are copied early, fs_read    *)
(* gives bytes of the file from the read's offset on, in order and with none  *)
(* left out, and all there are unless a segment or the server fails; an error *)
(* comes without a byte.  Honest: no page or whole file is copied early, and  *)
(* no 416 has a page of just the length asked for.                            *)
THEOREM ReadGivesSlice ==
  ASSUME NEW in, InputOK(in), Honest(in)
  PROVE  LET read == fs_read(in.size, in.len, in.offset, in.config,
                             in.replies, in.segs)
             slice == Bytes(in.offset, Cardinality(Wanted(in)))
         IN  /\ IsPrefix(read.bytes, slice)
             /\ read.res # "ok" => read.bytes = <<>>
             /\ Sound(in) => read = Got(slice)
<1> DEFINE n == ToRead(in.size, in.len, in.offset)
           read == fs_read(in.size, in.len, in.offset, in.config, in.replies, in.segs)
           how == fs_open(in.size, in.config)
<1>1. in.size \in Nat /\ in.len \in Nat /\ in.offset \in Nat
  BY DEF InputOK
<1>2. n \in Nat /\ Wanted(in) = in.offset .. in.offset + n - 1
  BY <1>1, ToReadIs DEF Wanted
<1> HIDE DEF n
<1>3. Cardinality(Wanted(in)) = n
  <2>1. Cardinality(in.offset .. in.offset + n - 1)
          = IF in.offset > in.offset + n - 1 THEN 0
            ELSE (in.offset + n - 1) - in.offset + 1
    <3>1. in.offset \in Int /\ in.offset + n - 1 \in Int
      BY <1>1, <1>2
    <3> QED
      BY <3>1, FS_Interval
  <2> QED
    BY <1>1, <1>2, <2>1
<1>4. how \in {"bypass", "empty", "cache"} /\ (how = "empty" => in.size = 0)
  BY DEF fs_open
<1>5. /\ GivesSome(read, in.offset, n)
      /\ Sound(in) => read = Got(Bytes(in.offset, n))
  <2>1. CASE how = "bypass"
    <3>1. read = Link_download(in.size, in.len, in.offset, in.replies)
      BY <2>1 DEF fs_read
    <3>2. ReqSize(in.size, in.len, in.offset) = n
      BY <1>1, ReqIs DEF n, ToRead
    <3>3. /\ Gives(read, in.offset, n)
          /\ Answered(in.replies) => read = Got(Bytes(in.offset, n))
      <4>1. in.replies \in Seq(Reply)
        BY DEF InputOK
      <4>2. NoLookalike(ReqSize(in.size, in.len, in.offset), in.replies)
        BY <2>1 DEF Honest
      <4> HIDE DEF read
      <4> QED
        BY <1>1, <3>1, <3>2, <4>1, <4>2, Downloaded
    <3>4. Sound(in) => Answered(in.replies)
      BY <2>1 DEF Sound
    <3>5. n \in 0..n
      BY <1>2
    <3> HIDE DEF read
    <3> QED
      BY <3>3, <3>4, <3>5 DEF Gives, GivesSome
  <2>2. CASE how = "empty"
    <3>1. read = Got(<<>>)
      BY <2>2 DEF fs_read
    <3>2. n = 0
      BY <1>1, <1>4, <2>2 DEF n, ToRead
    <3>3. Bytes(in.offset, 0) = <<>> /\ 0 \in 0..0
      BY <1>1, BytesPrefix
    <3> HIDE DEF read
    <3> QED
      BY <3>1, <3>2, <3>3 DEF GivesSome
  <2>3. CASE how = "cache"
    <3>1. read = Cache_read(in.size, in.len, in.offset, in.segs)
      BY <2>3 DEF fs_read
    <3>2. in.segs \in [0 .. Segbc(in.size) - 1 -> Segment]
      BY <2>3 DEF InputOK
    <3>3. /\ GivesSome(read, in.offset, n)
          /\ (\A p \in in.offset .. in.offset + n - 1 : SoundSegment(in.segs[p \div Blk]))
               => read = Got(Bytes(in.offset, n))
      <4>1. \A p \in in.offset .. in.offset + n - 1 :
              HonestSegment(in.size, SegStart(p), in.segs[p \div Blk])
        BY <1>2, <2>3 DEF Honest, HonestSegment
      <4> HIDE DEF read
      <4> QED
        BY <1>1, <3>1, <3>2, <4>1, CacheGives DEF n
    <3>4. Sound(in) => \A p \in Wanted(in) : SoundSegment(in.segs[p \div Blk])
      BY <2>3 DEF Sound, SoundSegment
    <3> HIDE DEF read
    <3> QED
      BY <1>2, <3>3, <3>4
  <2> QED
    BY <1>4, <2>1, <2>2, <2>3
<1>6. IsPrefix(read.bytes, Bytes(in.offset, n))
  <2> HIDE DEF read
  <2>1. CASE read.res # "ok" /\ read.bytes = <<>>
    <3>1. 0 \in Nat /\ 0 <= n
      BY <1>2
    <3>2. IsPrefix(Bytes(in.offset, 0), Bytes(in.offset, n)) /\ <<>> = Bytes(in.offset, n - n)
      <4>1. n - n = 0
        BY <1>2
      <4> QED
        BY <1>1, <1>2, <3>1, <4>1, BytesPrefix
    <3>3. n - n = 0
      BY <1>2
    <3> QED
      BY <2>1, <3>2, <3>3
  <2>2. ASSUME NEW m \in 0..n, read = Got(Bytes(in.offset, m))
        PROVE  IsPrefix(read.bytes, Bytes(in.offset, n))
    <3>1. m \in Nat /\ m <= n
      BY <1>2
    <3>2. IsPrefix(Bytes(in.offset, m), Bytes(in.offset, n))
      BY <1>1, <1>2, <3>1, BytesPrefix
    <3> QED
      BY <2>2, <3>2 DEF Got
  <2> QED
    BY <1>5, <2>1, <2>2 DEF GivesSome
<1>7. read.res # "ok" => read.bytes = <<>>
  <2> HIDE DEF read
  <2> QED
    BY <1>5, FailsEmpty
<1> HIDE DEF read
<1> QED
  BY <1>3, <1>5, <1>6, <1>7 DEF read

\* What is picked is such an input.
ReadsOK == (input # None /\ input.kind = "read") => InputOK(input)

LEMMA RepliesOK == ReplySeqs \subseteq Seq(Reply) /\ Segments \subseteq Segment
<1>1. ReplySeqs \subseteq Seq(Reply)
  BY DEF ReplySeqs, Fine, Bare, Reply
<1>2. EarlySeqs \subseteq Seq(Reply) /\ <<Fine("range")>> \in Seq(Reply)
  BY DEF EarlySeqs, Fine, Reply
<1>3. [replies : EarlySeqs, early : 0..3, again : {<<Fine("range")>>}]
        \subseteq [replies : Seq(Reply), early : Nat, again : Seq(Reply)]
  <2>1. {<<Fine("range")>>} \subseteq Seq(Reply) /\ 0..3 \subseteq Nat
    BY <1>2
  <2> DEFINE asked == {<<Fine("range")>>}
             rounds == 0..3
  <2> HIDE DEF asked, rounds
  <2>2. \A e \in [replies : EarlySeqs, early : rounds, again : asked] :
          e \in [replies : Seq(Reply), early : Nat, again : Seq(Reply)]
    BY <1>2, <2>1 DEF asked, rounds
  <2> QED
    BY <2>2 DEF asked, rounds
<1>4. [replies : ReplySeqs] \subseteq [replies : Seq(Reply)]
  BY <1>1
<1> QED
  BY <1>1, <1>3, <1>4 DEF Segments, Segment

LEMMA ReadsOKStep == ASSUME ReadsOK, [Next]_input PROVE ReadsOK'
<1>1. ASSUME PickRead PROVE ReadsOK'
  <2>a. PICK size \in 0..MaxSize, config \in Configs :
          \E len \in 0 .. MaxSize + 1, offset \in 0 .. MaxSize :
          \E replies \in IF fs_open(size, config) = "bypass" THEN ReplySeqs
                         ELSE {<<Fine("range")>>} :
          \E segs \in IF fs_open(size, config) = "cache"
                      THEN [0 .. Segbc(size) - 1 -> Segments] ELSE {<<>>} :
            /\ offset + len <= MaxSize + 2
            /\ input' = [kind |-> "read", size |-> size, len |-> len, offset |-> offset,
                         config |-> config, replies |-> replies, segs |-> segs]
    BY <1>1, Zenon DEF PickRead
  <2>b. PICK len \in 0 .. MaxSize + 1, offset \in 0 .. MaxSize :
          \E replies \in IF fs_open(size, config) = "bypass" THEN ReplySeqs
                         ELSE {<<Fine("range")>>} :
          \E segs \in IF fs_open(size, config) = "cache"
                      THEN [0 .. Segbc(size) - 1 -> Segments] ELSE {<<>>} :
            /\ offset + len <= MaxSize + 2
            /\ input' = [kind |-> "read", size |-> size, len |-> len, offset |-> offset,
                         config |-> config, replies |-> replies, segs |-> segs]
    BY <2>a, Zenon
  <2>c. PICK replies \in IF fs_open(size, config) = "bypass" THEN ReplySeqs
                         ELSE {<<Fine("range")>>} :
          \E segs \in IF fs_open(size, config) = "cache"
                      THEN [0 .. Segbc(size) - 1 -> Segments] ELSE {<<>>} :
            /\ offset + len <= MaxSize + 2
            /\ input' = [kind |-> "read", size |-> size, len |-> len, offset |-> offset,
                         config |-> config, replies |-> replies, segs |-> segs]
    BY <2>b, Zenon
  <2>1. PICK segs \in IF fs_open(size, config) = "cache"
                      THEN [0 .. Segbc(size) - 1 -> Segments] ELSE {<<>>} :
          input' = [kind |-> "read", size |-> size, len |-> len, offset |-> offset,
                    config |-> config, replies |-> replies, segs |-> segs]
    BY <2>c, Zenon
  <2>2. replies \in Seq(Reply)
    BY RepliesOK DEF ReplySeqs
  <2>3. fs_open(size, config) = "cache" => segs \in [0 .. Segbc(size) - 1 -> Segment]
    BY RepliesOK
  <2>4. size \in Nat /\ len \in Nat /\ offset \in Nat
    OBVIOUS
  <2> QED
    BY <2>1, <2>2, <2>3, <2>4 DEF ReadsOK, InputOK
<1>2. ASSUME PickPage \/ PickElement \/ PickRoot PROVE ReadsOK'
  BY <1>2 DEF PickPage, PickElement, PickRoot, ReadsOK
<1>3. CASE UNCHANGED input
  BY <1>3 DEF ReadsOK, InputOK
<1>4. CASE input' = None
  BY <1>4 DEF ReadsOK
<1> QED
  BY <1>1, <1>2, <1>3, <1>4 DEF Next

(* ReadIsSlice for reads of files of any size in blocks of any.               *)
THEOREM ReadsAreSlices == Spec => []ReadIsSlice
<1>1. Init => ReadsOK
  BY DEF Init, ReadsOK
<1>2. ReadsOK => ReadIsSlice
  <2> SUFFICES ASSUME ReadsOK, input # None, input.kind = "read"
               PROVE  ReadIsSlice
    BY DEF ReadIsSlice
  <2>1. InputOK(input)
    BY DEF ReadsOK
  <2>2. CASE Honest(input)
    BY <2>1, <2>2, ReadGivesSlice DEF ReadIsSlice
  <2>3. CASE ~Honest(input)
    BY <2>3 DEF ReadIsSlice
  <2> QED
    BY <2>2, <2>3
<1> QED
  BY <1>1, <1>2, ReadsOKStep, PTL DEF Spec

-----------------------------------------------------------------------------
(* What a read asks of the server. *)

\* Two pieces are in different segments, and every position read is in one.
LEMMA PiecesCover ==
  ASSUME NEW first \in Nat, NEW end \in Nat, NEW pieces, IsCut(pieces, first, end)
  PROVE  /\ \A i, j \in 1 .. Len(pieces) :
              pieces[i].pos \div Blk = pieces[j].pos \div Blk => i = j
         /\ \A p \in first .. end - 1 :
              \E i \in 1 .. Len(pieces) : pieces[i].pos \div Blk = p \div Blk
<1> DEFINE n == Len(pieces)
<1>1. /\ n \in Nat \ {0}
      /\ \A i \in 1..n : pieces[i].pos \in Nat /\ pieces[i].len \in Nat \ {0}
  <2>1. pieces \in Seq(Piece) /\ pieces # <<>>
    BY DEF IsCut
  <2>2. n \in Nat \ {0} /\ \A i \in 1..n : pieces[i] \in Piece
    BY <2>1, EmptySeq, LenProperties
  <2> QED
    BY <2>2 DEF Piece
<1>2. ASSUME NEW i \in 1..n, NEW j \in 1..n, i < j
      PROVE  pieces[i].pos \div Blk # pieces[j].pos \div Blk
  <2> DEFINE p == pieces[i].pos
             q == pieces[j].pos
  <2>1. p \in Nat /\ q \in Nat
    BY <1>1
  <2>2. i \in 1 .. n - 1 /\ j \in i + 1 .. n
    BY <1>1, <1>2
  <2>3. SegStart(p) + Blk <= q
    BY <2>2 DEF IsCut
  <2> HIDE DEF p, q
  <2>4. SegStart(p) + Blk \in Nat
    <3>1. SegStart(p) \in Nat
      BY <2>1, InSegment
    <3> QED
      BY <3>1, SplitAssumption DEF SplitAssumption
  <2>5. ~(q < SegStart(p) + Blk)
    BY <2>1, <2>3, <2>4
  <2>6. q \div Blk # p \div Blk
    BY <2>1, <2>5, OneSegment
  <2> QED
    BY <2>6 DEF p, q
<1>3. ASSUME NEW i \in 1..n, NEW j \in 1..n, i # j
      PROVE  pieces[i].pos \div Blk # pieces[j].pos \div Blk
  <2>1. i < j \/ j < i
    BY <1>3
  <2> HIDE DEF n
  <2> QED
    BY <1>2, <2>1
<1>4. ASSUME NEW p \in first .. end - 1
      PROVE  \E i \in 1..n : pieces[i].pos \div Blk = p \div Blk
  <2> DEFINE T == {i \in 1..n : p < PieceEnd(pieces[i])}
  <2>1. n \in T
    BY <1>1 DEF IsCut
  <2>2. T \subseteq Nat /\ T # {}
    BY <2>1
  <2>3. PICK i \in T : \A j \in T : i <= j
    BY <2>2, Least
  <2>4. i \in 1..n /\ p < PieceEnd(pieces[i])
    BY <2>3
  <2>5. \A j \in 1..n : j < i => PieceEnd(pieces[j]) <= p
    <3> SUFFICES ASSUME NEW j \in 1..n, j < i PROVE PieceEnd(pieces[j]) <= p
      OBVIOUS
    <3>1. PieceEnd(pieces[j]) \in Nat
      BY <1>1 DEF PieceEnd
    <3>2. j \notin T
      BY <2>3, <2>4
    <3> QED
      BY <3>1, <3>2
  <2>6. pieces[i].pos <= p
    <3>1. CASE i = 1
      BY <3>1 DEF IsCut
    <3>2. CASE i # 1
      <4> DEFINE j == i - 1
      <4>1. j \in 1 .. n - 1 /\ j \in 1..n /\ j < i /\ j + 1 = i
        BY <1>1, <2>4, <3>2
      <4> HIDE DEF j
      <4>2. pieces[i].pos = PieceEnd(pieces[j])
        BY <4>1 DEF IsCut
      <4> QED
        BY <2>5, <4>1, <4>2
    <3> QED
      BY <3>1, <3>2
  <2> DEFINE pos == pieces[i].pos
  <2>7. pos \in Nat /\ p \in Nat /\ pos <= p /\ p < PieceEnd(pieces[i])
        /\ PieceEnd(pieces[i]) <= SegStart(pos) + Blk /\ PieceEnd(pieces[i]) \in Nat
    BY <1>1, <2>4, <2>6 DEF IsCut, PieceEnd
  <2> HIDE DEF pos
  <2>8. SegStart(pos) <= p /\ p < SegStart(pos) + Blk
    <3>1. SegStart(pos) \in Nat /\ SegStart(pos) <= pos
      BY <2>7, InSegment
    <3>2. SegStart(pos) + Blk \in Nat
      BY <3>1, SplitAssumption DEF SplitAssumption
    <3> QED
      BY <2>7, <3>1, <3>2
  <2>9. p \div Blk = pos \div Blk
    BY <2>7, <2>8, OneSegment
  <2> QED
    BY <2>4, <2>9 DEF pos
<1> QED
  BY <1>3, <1>4

\* A segment's range: it begins where the segment does, and stays in it and in
\* the file.
LEMMA RangeIs ==
  ASSUME NEW size \in Nat, NEW pos \in Nat, pos < size
  PROVE  LET start == SegStart(pos)
             last == start + ReqSize(size, Blk, start) - 1
         IN  /\ start = (pos \div Blk) * Blk /\ last >= start
             /\ last \in {p \in 0 .. size - 1 : p \div Blk = pos \div Blk}
<1> DEFINE start == SegStart(pos)
           n == ReqSize(size, Blk, start)
           last == start + n - 1
<1>1. start \in Nat /\ start <= pos /\ start = (pos \div Blk) * Blk /\ Blk \in Nat \ {0}
  BY InSegment, SplitAssumption DEF SplitAssumption
<1>2. n = IF Blk <= size - start THEN Blk ELSE size - start
  <2> HIDE DEF start
  <2>1. n = IF start >= size THEN 0 ELSE Lesser(Blk, size - start)
    BY <1>1, ReqIs
  <2> HIDE DEF n
  <2> QED
    BY <1>1, <2>1 DEF Lesser
<1>3. last \in 0 .. size - 1 /\ start <= last /\ last < start + Blk
  <2> HIDE DEF n
  <2>1. start \in Nat /\ start < size
    <3> HIDE DEF start
    <3> QED
      BY <1>1
  <2> HIDE DEF start
  <2> QED
    BY <1>1, <1>2, <2>1
<1>4. last \div Blk = pos \div Blk
  <2> HIDE DEF n
  <2>1. last \in Nat
    BY <1>3
  <2> HIDE DEF last
  <2> QED
    BY <1>3, <2>1, OneSegment
<1> HIDE DEF n, last
<1> QED
  BY <1>1, <1>3, <1>4 DEF last, n

(* Whatever the read and what is cached, the ranges asked for are exactly     *)
(* those of the segments read that are missing, each asked for once, and each *)
(* begins where its segment does and ends in it and in the file.              *)
THEOREM RequestsGiven ==
  ASSUME NEW in, InputOK(in)
  PROVE  LET asked == Requested(in.size, in.len, in.offset, in.segs)
             missing == {p \div Blk : p \in Wanted(in)}
                          \cap {k \in DOMAIN in.segs : ~Seg_exist(in.segs[k])}
         IN  fs_open(in.size, in.config) = "cache" =>
               /\ Cardinality(DOMAIN asked) = Cardinality(missing)
               /\ \A k \in missing : \E i \in DOMAIN asked :
                    /\ asked[i].first = k * Blk
                    /\ asked[i].last >= asked[i].first
                    /\ asked[i].last \in {p \in 0 .. in.size - 1 : p \div Blk = k}
<1> SUFFICES ASSUME fs_open(in.size, in.config) = "cache"
             PROVE  LET asked == Requested(in.size, in.len, in.offset, in.segs)
                        missing == {p \div Blk : p \in Wanted(in)}
                                     \cap {k \in DOMAIN in.segs : ~Seg_exist(in.segs[k])}
                    IN  /\ Cardinality(DOMAIN asked) = Cardinality(missing)
                        /\ \A k \in missing : \E i \in DOMAIN asked :
                             /\ asked[i].first = k * Blk
                             /\ asked[i].last >= asked[i].first
                             /\ asked[i].last
                                  \in {p \in 0 .. in.size - 1 : p \div Blk = k}
  OBVIOUS
<1> DEFINE n == ToRead(in.size, in.len, in.offset)
           end == in.offset + n
           pieces == Pieces(in.offset, n)
           asked == Requested(in.size, in.len, in.offset, in.segs)
           missing == {p \div Blk : p \in Wanted(in)}
                        \cap {k \in DOMAIN in.segs : ~Seg_exist(in.segs[k])}
           At(i) == pieces[i].pos \div Blk
<1>1. /\ in.size \in Nat /\ in.len \in Nat /\ in.offset \in Nat
      /\ DOMAIN in.segs = 0 .. Segbc(in.size) - 1
  BY DEF InputOK
<1>2. n \in Nat /\ (n # 0 => end <= in.size) /\ Wanted(in) = in.offset .. end - 1
  <2> HIDE DEF n
  <2>1. /\ n \in Nat /\ (n # 0 => in.offset + n <= in.size)
        /\ {p \in in.offset .. in.offset + in.len - 1 : p < in.size}
             = in.offset .. in.offset + n - 1
    <3>1. in.size \in Nat /\ in.len \in Nat /\ in.offset \in Nat
      BY <1>1
    <3> QED
      BY <3>1, ToReadIs, Zenon DEF n
  <2>2. Wanted(in) = {p \in in.offset .. in.offset + in.len - 1 : p < in.size}
    BY DEF Wanted
  <2>3. Wanted(in) = in.offset .. end - 1
    <3>1. in.offset \in Int /\ n \in Int
      BY <1>1, <2>1
    <3>2. in.offset + n - 1 = end - 1
      BY <3>1
    <3> HIDE DEF end
    <3> QED
      BY <2>1, <2>2, <3>2
  <2> QED
    BY <2>1, <2>3
<1>3. ReadSize(in.size, in.len, in.offset) = n
  BY <1>1 DEF ReadSize, ToRead
<1> HIDE DEF n
<1>4. /\ DOMAIN asked = {i \in DOMAIN pieces : ~Seg_exist(in.segs[At(i)])}
      /\ \A i \in DOMAIN asked :
           asked[i] = [first |-> SegStart(pieces[i].pos),
                       last |-> SegStart(pieces[i].pos)
                                  + ReqSize(in.size, Blk, SegStart(pieces[i].pos)) - 1]
  BY <1>3 DEF Requested
<1>5. /\ \A i, j \in DOMAIN pieces : At(i) = At(j) => i = j
      /\ \A p \in in.offset .. end - 1 : \E i \in DOMAIN pieces : At(i) = p \div Blk
      /\ \A i \in DOMAIN pieces : pieces[i].pos \in in.offset .. end - 1
      /\ DOMAIN pieces = 1 .. Len(pieces) /\ Len(pieces) \in Nat
  <2>1. CASE n = 0
    <3>1. pieces = <<>>
      BY <1>1, <2>1, PiecesNone
    <3>2. in.offset .. end - 1 = {}
      BY <1>1, <2>1
    <3> QED
      BY <3>1, <3>2
  <2>2. CASE n # 0
    <3>1. IsCut(pieces, in.offset, end)
      BY <1>1, <1>2, <2>2, PiecesCut
    <3> HIDE DEF pieces
    <3>2. end \in Nat
      BY <1>1, <1>2
    <3> HIDE DEF end
    <3>3. pieces \in Seq(Piece) /\ DOMAIN pieces = 1 .. Len(pieces) /\ Len(pieces) \in Nat
      <4>1. pieces \in Seq(Piece)
        BY <3>1 DEF IsCut
      <4> QED
        BY <4>1, LenProperties
    <3>4. ASSUME NEW i \in DOMAIN pieces PROVE pieces[i].pos \in in.offset .. end - 1
      <4>1. pieces[i] \in Piece
        BY <3>3
      <4>2. in.offset <= pieces[i].pos /\ PieceEnd(pieces[i]) <= end
        BY <3>1, <3>3 DEF IsCut
      <4> QED
        BY <1>1, <3>2, <4>1, <4>2 DEF Piece, PieceEnd
    <3>5. /\ \A i, j \in 1 .. Len(pieces) : At(i) = At(j) => i = j
          /\ \A p \in in.offset .. end - 1 :
               \E i \in 1 .. Len(pieces) : At(i) = p \div Blk
      <4> DEFINE first == in.offset
      <4>1. first \in Nat /\ IsCut(pieces, first, end)
        BY <1>1, <3>1
      <4> HIDE DEF first
      <4>2. /\ \A i, j \in 1 .. Len(pieces) :
                 pieces[i].pos \div Blk = pieces[j].pos \div Blk => i = j
            /\ \A p \in first .. end - 1 :
                 \E i \in 1 .. Len(pieces) : pieces[i].pos \div Blk = p \div Blk
        BY <3>2, <4>1, PiecesCover
      <4> QED
        BY <4>2 DEF first
    <3> QED
      BY <3>3, <3>4, <3>5
  <2> QED
    BY <2>1, <2>2
<1> HIDE DEF pieces, asked
<1>6. ASSUME NEW i \in DOMAIN pieces
      PROVE  /\ pieces[i].pos \in Nat /\ pieces[i].pos < in.size
             /\ At(i) \in DOMAIN in.segs /\ At(i) \in {p \div Blk : p \in Wanted(in)}
  <2>1. pieces[i].pos \in in.offset .. end - 1
    BY <1>5
  <2>2. pieces[i].pos \in Nat /\ pieces[i].pos < in.size
    BY <1>1, <1>2, <2>1
  <2>3. At(i) \in 0 .. Segbc(in.size) - 1
    BY <1>1, <2>2, SegmentOf
  <2> QED
    BY <1>1, <1>2, <2>1, <2>2, <2>3
<1>7. \A i \in DOMAIN asked : i \in DOMAIN pieces /\ At(i) \in missing
  BY <1>4, <1>6
<1>8. ASSUME NEW k \in missing PROVE \E i \in DOMAIN asked : At(i) = k
  <2>1. PICK p \in Wanted(in) : k = p \div Blk
    OBVIOUS
  <2>2. PICK i \in DOMAIN pieces : At(i) = p \div Blk
    BY <1>2, <1>5, <2>1
  <2> QED
    BY <1>4, <2>1, <2>2
<1>9. Cardinality(DOMAIN asked) = Cardinality(missing)
  <2> DEFINE f == [i \in DOMAIN asked |-> At(i)]
  <2>1. IsFiniteSet(DOMAIN asked)
    <3> DEFINE last == Len(pieces)
    <3>1. IsFiniteSet(1 .. Len(pieces))
      <4>1. last \in Int /\ 1 \in Int
        BY <1>5
      <4> HIDE DEF last
      <4>2. IsFiniteSet(1 .. last)
        BY <4>1, FS_Interval
      <4> QED
        BY <4>2 DEF last
    <3>2. DOMAIN asked \subseteq 1 .. Len(pieces)
      BY <1>5, <1>7
    <3> QED
      BY <3>1, <3>2, FS_Subset
  <2>2. f \in [DOMAIN asked -> missing]
    BY <1>7
  <2>3. \A i, j \in DOMAIN asked : f[i] = f[j] => i = j
    BY <1>5, <1>7
  <2>4. \A k \in missing : \E i \in DOMAIN asked : f[i] = k
    BY <1>8
  <2> HIDE DEF f, missing
  <2>5. f \in Bijection(DOMAIN asked, missing)
    BY <2>2, <2>3, <2>4 DEF Bijection, Injection, Surjection, IsInjective
  <2> QED
    BY <2>1, <2>5, FS_Bijection DEF ExistsBijection
<1>10. ASSUME NEW k \in missing
       PROVE  \E i \in DOMAIN asked :
                /\ asked[i].first = k * Blk
                /\ asked[i].last >= asked[i].first
                /\ asked[i].last \in {p \in 0 .. in.size - 1 : p \div Blk = k}
  <2>1. PICK i \in DOMAIN asked : At(i) = k
    BY <1>8
  <2>2. pieces[i].pos \in Nat /\ pieces[i].pos < in.size
    BY <1>6, <1>7
  <2> DEFINE pos == pieces[i].pos
             start == SegStart(pos)
             last == start + ReqSize(in.size, Blk, start) - 1
  <2>3. asked[i].first = start /\ asked[i].last = last /\ k = pos \div Blk
    BY <1>4, <2>1
  <2> HIDE DEF pos
  <2>4. /\ start = (pos \div Blk) * Blk /\ last >= start
        /\ last \in {p \in 0 .. in.size - 1 : p \div Blk = pos \div Blk}
    <3>1. pos \in Nat /\ pos < in.size
      BY <2>2 DEF pos
    <3> QED
      BY <1>1, <3>1, RangeIs
  <2> HIDE DEF start, last
  <2> QED
    BY <2>3, <2>4
<1> QED
  BY <1>9, <1>10 DEF asked

(* RequestsFit for reads of files of any size in blocks of any.               *)
THEOREM RequestsAlwaysFit == Spec => []RequestsFit
<1>1. Init => ReadsOK
  BY DEF Init, ReadsOK
<1>2. ReadsOK => RequestsFit
  <2> SUFFICES ASSUME ReadsOK, input # None, input.kind = "read",
                      fs_open(input.size, input.config) = "cache"
               PROVE  RequestsFit
    BY DEF RequestsFit
  <2>1. InputOK(input)
    BY DEF ReadsOK
  <2> QED
    BY <2>1, RequestsGiven DEF RequestsFit
<1> QED
  BY <1>1, <1>2, ReadsOKStep, PTL DEF Spec

-----------------------------------------------------------------------------
(* Pages: numbers, sums and folds. *)

\* The least of a set of numbers is one of it.
LEMMA EarliestIs ==
  ASSUME NEW S, S \subseteq Nat, S # {}
  PROVE  Earliest(S) \in S /\ \A j \in S : Earliest(S) <= j
<1>1. \E i \in S : \A j \in S : i <= j
  BY Least
<1> QED
  BY <1>1, Zenon DEF Earliest

\* What a remainder is.
LEMMA Remainder ==
  ASSUME NEW c \in Nat \ {0}, NEW q \in Int, NEW b \in 0 .. c - 1
  PROVE  (c * q + b) % c = b
<1> DEFINE x == c * q + b
           d == x \div c
           r == x % c
<1>1. x \in Int
  OBVIOUS
<1>2. d \in Int /\ r \in 0 .. c - 1 /\ x = c * d + r
  <2> HIDE DEF x
  <2> QED
    BY <1>1
<1> HIDE DEF d, r
<1>3. c * q + b = c * d + r
  BY <1>2
<1> DEFINE k == q - d
<1>4. k \in Int /\ c * k = r - b
  BY <1>2, <1>3
<1>5. k = 0
  <2> HIDE DEF k
  <2>1. r - b < c /\ r - b > 0 - c
    BY <1>2
  <2>2. ASSUME k >= 1 PROVE FALSE
    <3>1. c * k >= c
      BY <1>4, <2>2
    <3> QED
      BY <1>2, <1>4, <2>1, <3>1
  <2>3. ASSUME k <= -1 PROVE FALSE
    <3>1. c * k <= 0 - c
      BY <1>4, <2>3
    <3> QED
      BY <1>2, <1>4, <2>1, <3>1
  <2> QED
    BY <1>4, <2>2, <2>3
<1>6. r = b
  <2>1. c * k = 0
    BY <1>5
  <2> HIDE DEF k
  <2> QED
    BY <1>2, <1>4, <2>1
<1> QED
  BY <1>6 DEF r

\* From any bucket on, around the end, every bucket is met.
LEMMA AllMet ==
  ASSUME NEW c \in Nat \ {0}, NEW h \in Nat, NEW b \in 0 .. c - 1
  PROVE  \E i \in 0 .. c - 1 : (h + i) % c = b
<1> DEFINE q == h \div c
           r == h % c
<1>1. q \in Int /\ r \in 0 .. c - 1 /\ h = c * q + r
  OBVIOUS
<1> HIDE DEF q, r
<1>2. CASE r <= b
  <2>1. b - r \in 0 .. c - 1 /\ h + (b - r) = c * q + b
    BY <1>1, <1>2
  <2>2. (c * q + b) % c = b
    BY <1>1, Remainder
  <2> QED
    BY <2>1, <2>2
<1>3. CASE r > b
  <2>1. b - r + c \in 0 .. c - 1 /\ h + (b - r + c) = c * (q + 1) + b /\ q + 1 \in Int
    BY <1>1, <1>3
  <2>2. (c * (q + 1) + b) % c = b
    BY <2>1, Remainder
  <2> QED
    BY <2>1, <2>2
<1> QED
  BY <1>1, <1>2, <1>3

\* Induction up to a number.
LEMMA Upwards ==
  ASSUME NEW end \in Nat, NEW S, 0 \in S, \A n \in 1..end : n - 1 \in S => n \in S
  PROVE  0..end \subseteq S
<1> DEFINE T == {k \in 0..end : k \notin S}
<1>1. SUFFICES ASSUME T # {} PROVE FALSE
  OBVIOUS
<1>2. PICK k \in T : \A j \in T : k <= j
  <2>1. T \subseteq Nat
    OBVIOUS
  <2> HIDE DEF T
  <2> QED
    BY <1>1, <2>1, Least
<1>3. k \in 1..end /\ k \notin S
  BY <1>2
<1>4. k - 1 \in 0..end /\ k - 1 \notin T
  BY <1>2, <1>3
<1> QED
  BY <1>3, <1>4

\* What is defined by recursion on a number, in a set closed under its step.
Recurs(f, end, D, base, step) ==
  /\ f \in [0..end -> D]
  /\ \A n \in 0..end : f[n] = IF n = 0 THEN base ELSE step[n][f[n - 1]]

LEMMA Recursion ==
  ASSUME NEW end \in Nat, NEW D, NEW base \in D, NEW step \in [1..end -> [D -> D]]
  PROVE  \E f : Recurs(f, end, D, base, step)
<1> SUFFICES \E f \in [0..end -> D] :
               \A n \in 0..end : f[n] = IF n = 0 THEN base ELSE step[n][f[n - 1]]
  BY DEF Recurs
<1> DEFINE Runs(f, k) == \A n \in 0..k : f[n] = IF n = 0 THEN base ELSE step[n][f[n - 1]]
           T == {k \in 0..end : ~ \E f \in [0..k -> D] : Runs(f, k)}
<1>1. SUFFICES ASSUME T # {} PROVE FALSE
  OBVIOUS
<1>2. PICK k \in T : \A j \in T : k <= j
  <2>1. T \subseteq Nat
    OBVIOUS
  <2> HIDE DEF T
  <2> QED
    BY <1>1, <2>1, Least
<1>3. k \in 0..end /\ ~ \E f \in [0..k -> D] : Runs(f, k)
  BY <1>2
<1>4. k # 0
  <2>1. SUFFICES ASSUME k = 0 PROVE FALSE
    OBVIOUS
  <2>2. [n \in 0..0 |-> base] \in [0..0 -> D] /\ Runs([n \in 0..0 |-> base], 0)
    OBVIOUS
  <2> HIDE DEF Runs
  <2> QED
    BY <1>3, <2>1, <2>2
<1>5. k \in 1..end /\ k - 1 \in 0..end /\ k \in Nat
  <2>1. k \in 0..end
    BY <1>3, Zenon
  <2> QED
    BY <1>4, <2>1
<1>6. PICK f \in [0 .. k - 1 -> D] : Runs(f, k - 1)
  <2>1. k - 1 \notin T
    <3>1. ~(k <= k - 1)
      BY <1>5
    <3> HIDE DEF T
    <3> QED
      BY <1>2, <3>1
  <2> HIDE DEF Runs
  <2> QED
    BY <1>5, <2>1
<1> DEFINE g == [n \in 0..k |-> IF n = k THEN step[k][f[k - 1]] ELSE f[n]]
<1>7. f[k - 1] \in D /\ step[k][f[k - 1]] \in D
  <2>1. k - 1 \in 0 .. k - 1
    BY <1>5
  <2>2. f[k - 1] \in D
    BY <2>1
  <2> QED
    BY <1>5, <2>2
<1>8. g \in [0..k -> D]
  <2>1. \A n \in 0..k : n # k => n \in 0 .. k - 1
    BY <1>5
  <2> QED
    BY <1>7, <2>1
<1>9. ASSUME NEW n \in 0..k
      PROVE  g[n] = IF n = 0 THEN base ELSE step[n][g[n - 1]]
  <2>1. CASE n = k
    <3>1. k - 1 \in 0..k /\ k - 1 # k /\ k # 0
      BY <1>5
    <3>2. g[k] = step[k][f[k - 1]] /\ g[k - 1] = f[k - 1]
      BY <2>1, <3>1
    <3> QED
      BY <2>1, <3>1, <3>2
  <2>2. CASE n # k
    <3>1. n \in 0 .. k - 1 /\ (n # 0 => n - 1 \in 0..k /\ n - 1 # k)
      BY <1>5, <2>2
    <3>2. g[n] = f[n] /\ (n # 0 => g[n - 1] = f[n - 1])
      BY <2>2, <3>1
    <3>3. f[n] = IF n = 0 THEN base ELSE step[n][f[n - 1]]
      BY <1>6, <3>1
    <3> QED
      BY <3>2, <3>3
  <2> QED
    BY <2>1, <2>2
<1>10. Runs(g, k)
  <2> HIDE DEF g
  <2> QED
    BY <1>9
<1> HIDE DEF Runs, g
<1> QED
  BY <1>3, <1>8, <1>10

LEMMA Recursive ==
  \A end, D, base, step :
    end \in Nat /\ base \in D /\ step \in [1..end -> [D -> D]]
      => \E f : Recurs(f, end, D, base, step)
BY Recursion

-----------------------------------------------------------------------------
(* Texts and names. *)

Text == Seq(DOMAIN Byte)

LEMMA ByteIs == \A char \in DOMAIN Byte : Byte[char] \in Nat
BY NamesAssumption DEF NamesAssumption

AfterHash(text, n, before) == (33 * before + Byte[text[n]]) % HashSpan
Hashes(f, text) ==
  f = [n \in 0 .. Len(text) |-> IF n = 0 THEN HashSeed ELSE AfterHash(text, n, f[n - 1])]

\* The hash of a text is a number.
LEMMA HashIs == ASSUME NEW text \in Text PROVE HashOf(text) \in Nat
<1> DEFINE end == Len(text)
           step == [n \in 1..end |-> [before \in Nat |-> AfterHash(text, n, before)]]
<1>1. end \in Nat /\ \A n \in 1..end : Byte[text[n]] \in Nat
  <2>1. end \in Nat /\ \A n \in 1..end : text[n] \in DOMAIN Byte
    BY LenProperties DEF Text
  <2> QED
    BY <2>1, ByteIs
<1>2. \A n \in 1..end, before \in Nat : AfterHash(text, n, before) \in Nat
  BY <1>1 DEF AfterHash, HashSpan
<1>3. \E f : Hashes(f, text)
  <2>1. end \in Nat /\ HashSeed \in Nat /\ step \in [1..end -> [Nat -> Nat]]
    <3> HIDE DEF end
    <3>1. HashSeed \in Nat
      BY DEF HashSeed
    <3> QED
      BY <1>1, <1>2, <3>1
  <2>2. PICK f : Recurs(f, end, Nat, HashSeed, step)
    <3> HIDE DEF step, end
    <3> QED
      BY <2>1, Recursive, Zenon
  <2> HIDE DEF end
  <2>3. ASSUME NEW n \in 0..end, n # 0
        PROVE  step[n][f[n - 1]] = AfterHash(text, n, f[n - 1])
    <3>1. n \in 1..end /\ n - 1 \in 0..end
      BY <1>1, <2>3
    <3>2. f[n - 1] \in Nat
      BY <2>2, <3>1 DEF Recurs
    <3> QED
      BY <3>1, <3>2
  <2> HIDE DEF step
  <2>4. f = [n \in 0..end |-> IF n = 0 THEN HashSeed ELSE AfterHash(text, n, f[n - 1])]
    BY <2>2, <2>3 DEF Recurs
  <2> QED
    BY <2>4, Zenon DEF Hashes, end
<1>4. PICK f : Hashes(f, text) /\ HashOf(text) = f[end]
  <2> DEFINE hash[n \in 0 .. Len(text)] ==
               IF n = 0 THEN HashSeed ELSE (33 * hash[n - 1] + Byte[text[n]]) % HashSpan
  <2>1. Hashes(hash, text)
    BY <1>3 DEF Hashes, AfterHash
  <2>2. HashOf(text) = hash[end]
    BY DEF HashOf
  <2> QED
    BY <2>1, <2>2
<1> HIDE DEF end
<1>5. \A n \in 0..end : f[n] = IF n = 0 THEN HashSeed ELSE AfterHash(text, n, f[n - 1])
  BY <1>4 DEF Hashes, end
<1> DEFINE S == {n \in 0..end : f[n] \in Nat}
<1>6. 0 \in S
  BY <1>1, <1>5 DEF HashSeed
<1>7. ASSUME NEW n \in 1..end, n - 1 \in S PROVE n \in S
  <2>1. n \in 0..end /\ n # 0 /\ f[n - 1] \in Nat
    BY <1>1, <1>7
  <2>2. f[n] = AfterHash(text, n, f[n - 1])
    BY <1>5, <2>1
  <2>3. f[n] \in Nat
    BY <1>2, <2>1, <2>2
  <2> QED
    BY <2>1, <2>3
<1>8. 0..end \subseteq S
  <2> HIDE DEF S
  <2> QED
    BY <1>1, <1>6, <1>7, Upwards
<1>9. end \in 0..end
  BY <1>1
<1> QED
  BY <1>4, <1>8, <1>9
LEMMA TextIs ==
  ASSUME NEW text \in Text
  PROVE  /\ Len(text) \in Nat /\ DOMAIN text = 1 .. Len(text)
         /\ \A i \in 1 .. Len(text) : text[i] \in DOMAIN Byte
         /\ text = <<>> <=> Len(text) = 0
<1>1. Len(text) \in Nat /\ DOMAIN text = 1 .. Len(text)
  BY LenProperties DEF Text
<1>2. \A i \in 1 .. Len(text) : text[i] \in DOMAIN Byte
  BY ElementOfSeq DEF Text
<1>3. text = <<>> <=> Len(text) = 0
  BY EmptySeq DEF Text
<1> QED
  BY <1>1, <1>2, <1>3

LEMMA TextEqual ==
  ASSUME NEW a \in Text, NEW b \in Text, Len(a) = Len(b), \A i \in 1 .. Len(a) : a[i] = b[i]
  PROVE  a = b
BY SeqEqual DEF Text

LEMMA TextCut ==
  ASSUME NEW text \in Text, NEW m \in Nat \ {0}, NEW n \in 0 .. Len(text)
  PROVE  /\ SubSeq(text, m, n) \in Text
         /\ Len(SubSeq(text, m, n)) = IF m <= n THEN n - m + 1 ELSE 0
         /\ \A i \in 1 .. n - m + 1 : SubSeq(text, m, n)[i] = text[m + i - 1]
<1> DEFINE S == DOMAIN Byte
<1>1. m \in Int /\ n \in Int /\ \A i \in m..n : text[i] \in S
  BY TextIs
<1> HIDE DEF S
<1>2. /\ SubSeq(text, m, n) \in Seq(S)
      /\ Len(SubSeq(text, m, n)) = IF m <= n THEN n - m + 1 ELSE 0
      /\ \A i \in 1 .. n - m + 1 : SubSeq(text, m, n)[i] = text[m + i - 1]
  BY <1>1, SubSeqProperties
<1> QED
  BY <1>2 DEF Text, S

LEMMA PrefixIs ==
  ASSUME NEW a \in Text, NEW b \in Text
  PROVE  IsPrefix(a, b) <=> Len(a) <= Len(b) /\ \A i \in 1 .. Len(a) : a[i] = b[i]
<1> DEFINE n == Len(a)
<1>1. n \in Nat /\ Len(b) \in Nat
  BY TextIs
<1>2. SubSeq(a, 1, n) = a
  BY SubSeqFull DEF Text
<1>3. ASSUME n <= Len(b)
      PROVE  (a = SubSeq(b, 1, n)) <=> \A i \in 1..n : a[i] = b[i]
  <2> DEFINE c == SubSeq(b, 1, n)
  <2> HIDE DEF n
  <2>1. n \in 0 .. Len(b) /\ 1 \in Nat \ {0}
    BY <1>1, <1>3
  <2>2. /\ c \in Text /\ Len(c) = IF 1 <= n THEN n - 1 + 1 ELSE 0
        /\ \A i \in 1 .. n - 1 + 1 : c[i] = b[1 + i - 1]
    BY <2>1, TextCut
  <2> HIDE DEF c
  <2>3. Len(c) = n /\ \A i \in 1..n : c[i] = b[i]
    BY <1>1, <2>2
  <2>4. ASSUME \A i \in 1..n : a[i] = b[i] PROVE a = c
    <3>1. Len(a) = Len(c) /\ \A i \in 1 .. Len(a) : a[i] = c[i]
      BY <2>3, <2>4 DEF n
    <3> QED
      BY <2>2, <3>1, TextEqual
  <2> QED
    BY <2>3, <2>4 DEF c
<1> QED
  BY <1>2, <1>3 DEF IsPrefix

\* The names links have: no slash but one that ends a directory's.
Names == {name \in Text : /\ name # <<>>
                          /\ \A i \in DOMAIN name : name[i] = "/" => i = Len(name) /\ i # 1}

Stem(name) == WithoutSlash(name)

LEMMA StemIs ==
  ASSUME NEW name \in Names
  PROVE  /\ Stem(name) \in Text /\ Len(Stem(name)) \in Nat \ {0}
         /\ Len(name) = IF Last(name) = "/" THEN Len(Stem(name)) + 1 ELSE Len(Stem(name))
         /\ \A i \in 1 .. Len(Stem(name)) : Stem(name)[i] = name[i] /\ name[i] # "/"
<1> DEFINE n == Len(name)
<1>1. /\ name \in Text /\ n \in Nat \ {0} /\ Last(name) = name[n]
      /\ \A i \in 1..n : name[i] = "/" => i = n /\ i # 1
  <2>1. name \in Text /\ name # <<>> /\ \A i \in DOMAIN name : name[i] = "/" => i = n /\ i # 1
    BY DEF Names
  <2> QED
    BY <2>1, TextIs DEF Last
<1>2. CASE name[n] = "/"
  <2>1. n # 1 /\ n - 1 \in Nat \ {0} /\ n - 1 \in 0..n
    BY <1>1, <1>2
  <2>2. Stem(name) = SubSeq(name, 1, n - 1)
    BY <1>1, <1>2, TextIs DEF Stem, WithoutSlash, EndsInSlash, Front
  <2> DEFINE m == n - 1
  <2>3. /\ m \in Nat \ {0} /\ m \in 0 .. Len(name) /\ 1 \in Nat \ {0} /\ n = m + 1
    BY <2>1
  <2> HIDE DEF m
  <2>4. /\ SubSeq(name, 1, m) \in Text
        /\ Len(SubSeq(name, 1, m)) = IF 1 <= m THEN m - 1 + 1 ELSE 0
        /\ \A i \in 1 .. m - 1 + 1 : SubSeq(name, 1, m)[i] = name[1 + i - 1]
    BY <1>1, <2>3, TextCut
  <2>5. Stem(name) = SubSeq(name, 1, m)
    BY <2>2 DEF m
  <2>6. Len(Stem(name)) = m /\ \A i \in 1..m : Stem(name)[i] = name[i]
    BY <2>3, <2>4, <2>5
  <2>7. \A i \in 1..m : name[i] # "/"
    BY <1>1, <2>3
  <2> QED
    BY <1>1, <1>2, <2>3, <2>4, <2>5, <2>6, <2>7
<1>3. CASE name[n] # "/"
  <2>1. Stem(name) = name
    BY <1>1, <1>3 DEF Stem, WithoutSlash, EndsInSlash
  <2>2. \A i \in 1..n : name[i] # "/"
    BY <1>1, <1>3
  <2> QED
    BY <1>1, <1>3, <2>1, <2>2
<1> QED
  BY <1>2, <1>3

LEMMA StemEqual ==
  ASSUME NEW a \in Names, NEW b \in Names, Len(Stem(a)) = Len(Stem(b)),
         \A i \in 1 .. Len(Stem(a)) : a[i] = b[i]
  PROVE  Stem(a) = Stem(b)
<1>1. Stem(a) \in Text /\ Stem(b) \in Text
  BY StemIs
<1>2. \A i \in 1 .. Len(Stem(a)) : Stem(a)[i] = Stem(b)[i]
  BY StemIs
<1> QED
  BY <1>1, <1>2, TextEqual

\* How a name is compared with one that is no shorter.
LEMMA SameShorter ==
  ASSUME NEW a \in Names, NEW b \in Names, Len(a) <= Len(b)
  PROVE  (/\ Len(b) - Len(a) <= 1 /\ a # <<>> /\ IsPrefix(a, b)
          /\ Len(b) > Len(a) => Last(b) = "/")  <=>  Stem(a) = Stem(b)
<1> DEFINE n == Len(a)
           m == Len(b)
           k == Len(Stem(a))
           l == Len(Stem(b))
<1>1. /\ k \in Nat \ {0} /\ l \in Nat \ {0}
      /\ n = IF Last(a) = "/" THEN k + 1 ELSE k
      /\ m = IF Last(b) = "/" THEN l + 1 ELSE l
      /\ \A i \in 1..k : Stem(a)[i] = a[i] /\ a[i] # "/"
      /\ \A i \in 1..l : Stem(b)[i] = b[i] /\ b[i] # "/"
  BY StemIs
<1>2. a # <<>> /\ a \in Text /\ b \in Text /\ Last(a) = a[n] /\ Last(b) = b[m]
  BY DEF Names, Last
<1>3. IsPrefix(a, b) <=> \A i \in 1..n : a[i] = b[i]
  BY <1>2, PrefixIs
<1>4. ASSUME m - n <= 1, \A i \in 1..n : a[i] = b[i], m > n => Last(b) = "/"
      PROVE  Stem(a) = Stem(b)
  <2>1. CASE m = n
    <3>1. Last(a) = Last(b)
      BY <1>1, <1>2, <1>4, <2>1
    <3> QED
      BY <1>1, <1>4, <2>1, <3>1, StemEqual
  <2>2. CASE m = n + 1
    <3>1. l = n /\ n \in 1..l
      BY <1>1, <1>4, <2>2
    <3>2. Last(a) # "/"
      BY <1>1, <1>2, <1>4, <3>1
    <3> QED
      BY <1>1, <1>4, <3>1, <3>2, StemEqual
  <2> QED
    BY <1>1, <1>4, <2>1, <2>2
<1>5. ASSUME Stem(a) = Stem(b)
      PROVE  m - n <= 1 /\ (\A i \in 1..n : a[i] = b[i]) /\ (m > n => Last(b) = "/")
  <2>1. k = l /\ \A i \in 1..k : a[i] = b[i]
    BY <1>1, <1>5
  <2>2. ASSUME n = k + 1 PROVE a[n] = b[n]
    BY <1>1, <1>2, <2>1, <2>2
  <2> QED
    BY <1>1, <2>1, <2>2
<1> HIDE DEF n, m
<1> QED
  BY <1>2, <1>3, <1>4, <1>5 DEF n, m

(* Two names are the same for the set when they are but for a slash.          *)
LEMMA SameName ==
  ASSUME NEW a \in Names, NEW b \in Names
  PROVE  link_linknames_equal(a, b) <=> Stem(a) = Stem(b)
<1>1. Len(a) \in Nat /\ Len(b) \in Nat
  BY TextIs DEF Names
<1>2. CASE Len(a) <= Len(b)
  BY <1>2, SameShorter DEF link_linknames_equal
<1>3. CASE ~(Len(a) <= Len(b))
  <2>1. Len(b) <= Len(a)
    BY <1>1, <1>3
  <2> QED
    BY <1>3, <2>1, SameShorter DEF link_linknames_equal
<1> QED
  BY <1>2, <1>3

\* The slashes at the end are not hashed.
LEMMA HashOfName ==
  ASSUME NEW name \in Names
  PROVE  link_hash_str(name) = HashOf(Stem(name)) /\ link_hash_str(name) \in Nat
<1> DEFINE n == Len(name)
           k == Len(Stem(name))
           kept == {i \in DOMAIN name : name[i] # "/"}
<1>1. /\ Stem(name) \in Text /\ k \in Nat \ {0} /\ name \in Text /\ DOMAIN name = 1..n
      /\ n = IF Last(name) = "/" THEN k + 1 ELSE k
      /\ \A i \in 1..k : Stem(name)[i] = name[i] /\ name[i] # "/"
  BY StemIs, TextIs DEF Names
<1>2. k \in kept /\ \A j \in kept : j <= k
  <2>1. k \in 1..n /\ name[k] # "/"
    BY <1>1
  <2>2. Last(name) = name[n]
    BY DEF Last
  <2>3. ASSUME NEW j \in kept PROVE j <= k
    <3>1. j \in 1..n /\ name[j] # "/"
      BY <1>1
    <3> HIDE DEF n, k, kept
    <3> QED
      BY <1>1, <2>2, <3>1
  <2> QED
    BY <1>1, <2>1, <2>3
<1>3. BareLength(name) = k
  <2>1. BareLength(name) = Latest(kept)
    BY <1>2 DEF BareLength
  <2>2. kept \subseteq Int
    BY <1>1
  <2> HIDE DEF kept
  <2>3. Latest(kept) \in kept /\ \A j \in kept : j <= Latest(kept)
    BY <1>2 DEF Latest
  <2>4. Latest(kept) <= k /\ k <= Latest(kept) /\ Latest(kept) \in Int
    BY <1>2, <2>2, <2>3
  <2> QED
    BY <1>1, <2>1, <2>4
<1>4. SubSeq(name, 1, k) = Stem(name)
  <2> DEFINE c == SubSeq(name, 1, k)
  <2> HIDE DEF k
  <2>1. k \in 0 .. Len(name) /\ 1 \in Nat \ {0}
    BY <1>1
  <2>2. /\ c \in Text /\ Len(c) = IF 1 <= k THEN k - 1 + 1 ELSE 0
        /\ \A i \in 1 .. k - 1 + 1 : c[i] = name[1 + i - 1]
    BY <1>1, <2>1, TextCut
  <2> HIDE DEF c
  <2>3. Len(c) = k /\ \A i \in 1..k : c[i] = Stem(name)[i]
    BY <1>1, <2>2
  <2>4. c = Stem(name)
    BY <1>1, <2>2, <2>3, TextEqual DEF k
  <2> QED
    BY <2>4 DEF c
<1>5. link_hash_str(name) = HashOf(Stem(name))
  BY <1>3, <1>4 DEF link_hash_str
<1> QED
  BY <1>1, <1>5, HashIs
-----------------------------------------------------------------------------
(* The buckets: c of them, B. *)

At(c, name, i) == (link_hash_str(name) + i) % c
Full(c, B) == {b \in 0 .. c - 1 : B[b] # Free}
Held(c, B) == {B[b] : b \in Full(c, B)}

\* A name is found from its own bucket on before a free one.
OnPath(c, B, b) ==
  \E i \in 0 .. c - 1 : /\ b = At(c, B[b], i)
                        /\ \A j \in 0 .. i - 1 : At(c, B[b], j) \in Full(c, B)

BucketsOK(c, B) ==
  /\ c \in Nat \ {0}
  /\ B \in [0 .. c - 1 -> Names \cup {Free}]
  /\ \A b \in Full(c, B) : OnPath(c, B, b)

LEMMA AtIs ==
  ASSUME NEW c \in Nat \ {0}, NEW name \in Names
  PROVE  /\ \A i \in Nat : At(c, name, i) \in 0 .. c - 1
         /\ \A b \in 0 .. c - 1 : \E i \in 0 .. c - 1 : At(c, name, i) = b
<1> DEFINE h == link_hash_str(name)
<1>1. h \in Nat
  BY HashOfName
<1> HIDE DEF h
<1>2. ASSUME NEW i \in Nat PROVE (h + i) % c \in 0 .. c - 1
  BY <1>1
<1>3. \A b \in 0 .. c - 1 : \E i \in 0 .. c - 1 : (h + i) % c = b
  BY <1>1, AllMet
<1> QED
  BY <1>2, <1>3 DEF At, h

LEMMA FreeIsNoName == Free \notin Names
BY DEF Free, Names

\* Probing for some buckets ends at the first of them, if there is one.
LEMMA Probes ==
  ASSUME NEW c \in Nat \ {0}, NEW name \in Names, NEW S, S \cap (0 .. c - 1) # {}
  PROVE  LET i == Earliest({j \in 0 .. c - 1 : At(c, name, j) \in S})
         IN  /\ i \in 0 .. c - 1 /\ At(c, name, i) \in S /\ At(c, name, i) \in 0 .. c - 1
             /\ \A j \in 0 .. i - 1 : At(c, name, j) \notin S
<1> DEFINE ends == {j \in 0 .. c - 1 : At(c, name, j) \in S}
           i == Earliest(ends)
<1>1. ends # {} /\ ends \subseteq Nat
  <2>1. PICK b \in 0 .. c - 1 : b \in S
    OBVIOUS
  <2>2. PICK j \in 0 .. c - 1 : At(c, name, j) = b
    BY AtIs
  <2> QED
    BY <2>1, <2>2
<1>2. i \in ends /\ \A j \in ends : i <= j
  <2> HIDE DEF ends
  <2> QED
    BY <1>1, EarliestIs
<1> HIDE DEF i
<1>3. i \in 0 .. c - 1 /\ At(c, name, i) \in S
  BY <1>2
<1>4. ASSUME NEW j \in 0 .. i - 1 PROVE At(c, name, j) \notin S
  <2>1. j \in 0 .. c - 1 /\ ~(i <= j)
    BY <1>3
  <2> QED
    BY <1>2, <2>1
<1>5. At(c, name, i) \in 0 .. c - 1
  BY <1>3, AtIs
<1> QED
  BY <1>3, <1>4, <1>5 DEF i

\* A name put into the first free bucket on its way.
With(B, p, name) == [B EXCEPT ![p] = name]

LEMMA Inserted ==
  ASSUME NEW c, NEW B, BucketsOK(c, B), NEW name \in Names, NEW i \in 0 .. c - 1,
         At(c, name, i) \notin Full(c, B),
         \A j \in 0 .. i - 1 : At(c, name, j) \in Full(c, B)
  PROVE  /\ BucketsOK(c, With(B, At(c, name, i), name))
         /\ Full(c, With(B, At(c, name, i), name)) = Full(c, B) \cup {At(c, name, i)}
         /\ Held(c, With(B, At(c, name, i), name)) = Held(c, B) \cup {name}
<1> DEFINE p == At(c, name, i)
           C == [B EXCEPT ![p] = name]
<1>1. c \in Nat \ {0} /\ B \in [0 .. c - 1 -> Names \cup {Free}]
  BY DEF BucketsOK
<1>2. p \in 0 .. c - 1
  <2>1. i \in Nat
    BY <1>1
  <2> QED
    BY <1>1, <2>1, AtIs
<1>3. p \notin Full(c, B)
  OBVIOUS
<1> HIDE DEF p
<1>4. /\ C \in [0 .. c - 1 -> Names \cup {Free}] /\ C[p] = name
      /\ \A b \in 0 .. c - 1 : b # p => C[b] = B[b]
  BY <1>1, <1>2
<1> HIDE DEF C
<1>5. Full(c, C) = Full(c, B) \cup {p}
  BY <1>2, <1>4, FreeIsNoName DEF Full
<1>6. Held(c, C) = Held(c, B) \cup {name}
  <2>1. \A b \in Full(c, B) : b # p /\ C[b] = B[b]
    BY <1>3, <1>4 DEF Full
  <2> QED
    BY <1>4, <1>5, <2>1 DEF Held
<1>7. ASSUME NEW b \in Full(c, C) PROVE OnPath(c, C, b)
  <2>1. CASE b = p
    <3>1. i \in 0 .. c - 1 /\ b = At(c, C[b], i) /\ C[b] = name
      BY <1>4, <2>1 DEF p
    <3>2. \A j \in 0 .. i - 1 : At(c, C[b], j) \in Full(c, C)
      BY <1>5, <3>1
    <3> QED
      BY <3>1, <3>2 DEF OnPath
  <2>2. CASE b # p
    <3>1. b \in Full(c, B) /\ C[b] = B[b]
      BY <1>4, <1>5, <2>2 DEF Full
    <3>2. PICK k \in 0 .. c - 1 : /\ b = At(c, B[b], k)
                                  /\ \A j \in 0 .. k - 1 : At(c, B[b], j) \in Full(c, B)
      BY <3>1 DEF BucketsOK, OnPath
    <3> QED
      BY <1>5, <3>1, <3>2 DEF OnPath
  <2> QED
    BY <2>1, <2>2
<1> QED
  BY <1>1, <1>4, <1>5, <1>6, <1>7 DEF BucketsOK, C, p, With

\* What is held under a name's way is met before a free bucket.
LEMMA Met ==
  ASSUME NEW c, NEW B, BucketsOK(c, B), NEW name \in Names,
         NEW i \in 0 .. c - 1, At(c, name, i) \notin Full(c, B),
         NEW b \in Full(c, B), link_hash_str(B[b]) = link_hash_str(name)
  PROVE  \E j \in 0 .. i - 1 : At(c, name, j) = b
<1>1. PICK k \in 0 .. c - 1 : /\ b = At(c, B[b], k)
                              /\ \A j \in 0 .. k - 1 : At(c, B[b], j) \in Full(c, B)
  BY DEF BucketsOK, OnPath
<1>2. \A j : At(c, B[b], j) = At(c, name, j)
  BY DEF At
<1>3. c \in Nat
  BY DEF BucketsOK
<1>4. ~(i < k) /\ i # k
  <2>1. i < k => i \in 0 .. k - 1
    BY <1>3
  <2> QED
    BY <1>1, <1>2, <2>1
<1> QED
  BY <1>1, <1>2, <1>3, <1>4

-----------------------------------------------------------------------------
(* The set. *)

HashSet(c, B, s) == [capacity |-> c, buckets |-> B, size |-> s]
SetOK(set) ==
  /\ set = HashSet(set.capacity, set.buckets, set.size)
  /\ BucketsOK(set.capacity, set.buckets)
  /\ set.size \in 0 .. set.capacity
  /\ Cardinality(Full(set.capacity, set.buckets)) <= set.size

HeldIn(set) == Held(set.capacity, set.buckets)

LEMMA FullIs ==
  ASSUME NEW c \in Nat, NEW B
  PROVE  /\ IsFiniteSet(Full(c, B)) /\ Cardinality(Full(c, B)) \in Nat
         /\ Cardinality(Full(c, B)) < c => (0 .. c - 1) \ Full(c, B) # {}
<1>1. IsFiniteSet(0 .. c - 1) /\ Cardinality(0 .. c - 1) = c
  <2>1. 0 \in Int /\ c - 1 \in Int
    OBVIOUS
  <2>2. IsFiniteSet(0 .. c - 1) /\ Cardinality(0 .. c - 1) = IF 0 > c - 1 THEN 0 ELSE c - 1 - 0 + 1
    BY <2>1, FS_Interval
  <2> QED
    BY <2>2
<1>2. Full(c, B) \subseteq 0 .. c - 1
  BY DEF Full
<1>3. IsFiniteSet(Full(c, B))
  BY <1>1, <1>2, FS_Subset
<1>4. Cardinality(Full(c, B)) \in Nat
  BY <1>3, FS_CardinalityType
<1>5. ASSUME Cardinality(Full(c, B)) < c PROVE Full(c, B) # 0 .. c - 1
  BY <1>1, <1>5
<1> QED
  BY <1>2, <1>3, <1>4, <1>5

\* A free bucket is found, and nothing else is overwritten.
LEMMA Puts ==
  ASSUME NEW c, NEW B, NEW s, BucketsOK(c, B), NEW name \in Names,
         Cardinality(Full(c, B)) < c
  PROVE  \E p \in 0 .. c - 1 :
           /\ Put(HashSet(c, B, s), name) = HashSet(c, With(B, p, name), s)
           /\ BucketsOK(c, With(B, p, name))
           /\ Cardinality(Full(c, With(B, p, name))) = Cardinality(Full(c, B)) + 1
           /\ Held(c, With(B, p, name)) = Held(c, B) \cup {name}
<1> DEFINE S == {b \in 0 .. c - 1 : B[b] \in {Free}}
           i == Earliest({j \in 0 .. c - 1 : At(c, name, j) \in S})
           p == At(c, name, i)
           C == With(B, p, name)
<1>1. c \in Nat \ {0} /\ B \in [0 .. c - 1 -> Names \cup {Free}]
  BY DEF BucketsOK
<1>2. S \cap (0 .. c - 1) # {} /\ \A b \in 0 .. c - 1 : b \in S <=> b \notin Full(c, B)
  <2>1. (0 .. c - 1) \ Full(c, B) # {}
    BY <1>1, FullIs
  <2> QED
    BY <2>1 DEF Full
<1>3. /\ i \in 0 .. c - 1 /\ p \in S /\ p \in 0 .. c - 1
      /\ \A j \in 0 .. i - 1 : At(c, name, j) \notin S
  <2> HIDE DEF S
  <2> QED
    BY <1>1, <1>2, Probes
<1>4. \A j \in Nat : At(c, name, j) \in 0 .. c - 1
  BY <1>1, AtIs
<1>5. Probe(HashSet(c, B, s), name, {Free}) = p
  <2>1. \A j \in 0 .. c - 1 : B[At(c, name, j)] \in {Free} <=> At(c, name, j) \in S
    BY <1>4
  <2>2. {j \in 0 .. c - 1 : B[At(c, name, j)] \in {Free}} = {j \in 0 .. c - 1 : At(c, name, j) \in S}
    BY <2>1
  <2>3. Probe(HashSet(c, B, s), name, {Free})
          = At(c, name, Earliest({j \in 0 .. c - 1 : B[At(c, name, j)] \in {Free}}))
    BY DEF Probe, HashSet, At
  <2> QED
    BY <2>2, <2>3
<1>6. Put(HashSet(c, B, s), name) = HashSet(c, C, s)
  <2>1. Put(HashSet(c, B, s), name) = [HashSet(c, B, s) EXCEPT !.buckets[p] = name]
    BY <1>5 DEF Put
  <2> HIDE DEF p
  <2> QED
    BY <2>1 DEF HashSet, With
<1>7. p \notin Full(c, B) /\ \A j \in 0 .. i - 1 : At(c, name, j) \in Full(c, B)
  <2> HIDE DEF S, i, p
  <2>1. p \notin Full(c, B)
    BY <1>2, <1>3
  <2>2. \A j \in 0 .. i - 1 : At(c, name, j) \in 0 .. c - 1
    <3>1. i \in 0 .. c - 1 /\ c \in Nat
      BY <1>1, <1>3
    <3>2. \A j \in 0 .. i - 1 : j \in Nat
      BY <3>1
    <3> QED
      BY <1>4, <3>2
  <2> QED
    BY <1>2, <1>3, <2>1, <2>2
<1>8. /\ BucketsOK(c, C) /\ Full(c, C) = Full(c, B) \cup {p}
      /\ Held(c, C) = Held(c, B) \cup {name}
  <2>1. /\ i \in 0 .. c - 1 /\ At(c, name, i) \notin Full(c, B)
        /\ \A j \in 0 .. i - 1 : At(c, name, j) \in Full(c, B)
    BY <1>3, <1>7
  <2> HIDE DEF S, i
  <2> QED
    BY <2>1, Inserted
<1>9. Cardinality(Full(c, C)) = Cardinality(Full(c, B)) + 1
  <2>1. IsFiniteSet(Full(c, B))
    BY <1>1, FullIs
  <2> HIDE DEF p, C
  <2> QED
    BY <1>7, <1>8, <2>1, FS_AddElement
<1> HIDE DEF p
<1> QED
  BY <1>3, <1>6, <1>8, <1>9

Empty(c) == [b \in 0 .. c - 1 |-> Free]

LEMMA EmptyOK ==
  ASSUME NEW c \in Nat \ {0}
  PROVE  /\ Empty(c) \in [0 .. c - 1 -> Names \cup {Free}] /\ BucketsOK(c, Empty(c))
         /\ Full(c, Empty(c)) = {} /\ Held(c, Empty(c)) = {} /\ Cardinality(Full(c, Empty(c))) = 0
<1>1. Full(c, Empty(c)) = {}
  BY DEF Full, Empty
<1>2. Empty(c) \in [0 .. c - 1 -> Names \cup {Free}]
  BY DEF Empty
<1>3. Held(c, Empty(c)) = {}
  BY <1>1 DEF Held
<1>4. Cardinality(Full(c, Empty(c))) = 0
  BY <1>1, FS_EmptySet
<1> QED
  BY <1>1, <1>2, <1>3, <1>4 DEF BucketsOK

\* The old buckets before the n-th.
Part(c, B, n) == {b \in Full(c, B) : b < n}

\* What the first n of the c old buckets have become, among d.
Rehung(c, B, d, s, n, X) ==
  /\ BucketsOK(d, X)
  /\ Cardinality(Full(d, X)) <= Cardinality(Part(c, B, n))
  /\ Held(d, X) = {B[b] : b \in Part(c, B, n)}

PartGrows(c, B, n) ==
  /\ Cardinality(Part(c, B, n - 1)) \in 0 .. n - 1
  /\ B[n - 1] # Free =>
       /\ Part(c, B, n) = Part(c, B, n - 1) \cup {n - 1}
       /\ Cardinality(Part(c, B, n)) = Cardinality(Part(c, B, n - 1)) + 1
  /\ B[n - 1] = Free => Part(c, B, n) = Part(c, B, n - 1)

LEMMA PartIs == ASSUME NEW c \in Nat, NEW B, NEW n \in 1..c PROVE PartGrows(c, B, n)
<1>1. Part(c, B, n - 1) \subseteq 0 .. n - 2
  BY DEF Part, Full
<1>2. IsFiniteSet(0 .. n - 2) /\ Cardinality(0 .. n - 2) = n - 1
  <2>1. 0 \in Int /\ n - 2 \in Int
    OBVIOUS
  <2>2. IsFiniteSet(0 .. n - 2) /\ Cardinality(0 .. n - 2) = IF 0 > n - 2 THEN 0 ELSE n - 2 - 0 + 1
    BY <2>1, FS_Interval
  <2> QED
    BY <2>2
<1>3. /\ IsFiniteSet(Part(c, B, n - 1))
      /\ Cardinality(Part(c, B, n - 1)) <= Cardinality(0 .. n - 2)
  BY <1>1, <1>2, FS_Subset
<1>4. Cardinality(Part(c, B, n - 1)) \in Nat
  BY <1>3, FS_CardinalityType
<1>5. n - 1 \notin Part(c, B, n - 1)
  BY <1>1
<1>6. ASSUME B[n - 1] # Free PROVE Part(c, B, n) = Part(c, B, n - 1) \cup {n - 1}
  <2>1. n - 1 \in 0 .. c - 1
    OBVIOUS
  <2> QED
    BY <1>6, <2>1 DEF Part, Full
<1>7. ASSUME B[n - 1] = Free PROVE Part(c, B, n) = Part(c, B, n - 1)
  BY <1>7 DEF Part, Full
<1>8. ASSUME B[n - 1] # Free
      PROVE  Cardinality(Part(c, B, n)) = Cardinality(Part(c, B, n - 1)) + 1
  BY <1>3, <1>5, <1>6, <1>8, FS_AddElement
<1> QED
  BY <1>2, <1>3, <1>4, <1>6, <1>7, <1>8 DEF PartGrows

LEMMA CopiesNext ==
  ASSUME NEW c \in Nat \ {0}, NEW B \in [0 .. c - 1 -> Names \cup {Free}], NEW d \in Nat, d > c,
         NEW s, NEW n \in 1..c, NEW X, Rehung(c, B, d, s, n - 1, X)
  PROVE  \E Y : Moved(HashSet(d, X, s), B[n - 1]) = HashSet(d, Y, s) /\ Rehung(c, B, d, s, n, Y)
<1>1. /\ Cardinality(Part(c, B, n - 1)) \in 0 .. n - 1
      /\ B[n - 1] # Free =>
           /\ Part(c, B, n) = Part(c, B, n - 1) \cup {n - 1}
           /\ Cardinality(Part(c, B, n)) = Cardinality(Part(c, B, n - 1)) + 1
      /\ B[n - 1] = Free => Part(c, B, n) = Part(c, B, n - 1)
  <2>1. c \in Nat
    OBVIOUS
  <2>2. PartGrows(c, B, n)
    BY <2>1, PartIs
  <2> QED
    BY <2>2, Zenon DEF PartGrows
<1>2. CASE B[n - 1] = Free
  <2>1. Moved(HashSet(d, X, s), B[n - 1]) = HashSet(d, X, s)
    BY <1>2 DEF Moved
  <2>2. Rehung(c, B, d, s, n, X)
    BY <1>1, <1>2 DEF Rehung
  <2> QED
    BY <2>1, <2>2
<1>3. CASE B[n - 1] # Free
  <2> DEFINE name == B[n - 1]
  <2>1. name \in Names
    <3>1. n - 1 \in 0 .. c - 1
      OBVIOUS
    <3> QED
      BY <1>3, <3>1
  <2>2. BucketsOK(d, X) /\ Cardinality(Full(d, X)) < d /\ Cardinality(Full(d, X)) \in Nat
    <3>1. Cardinality(Full(d, X)) \in Nat
      BY FullIs
    <3> QED
      BY <1>1, <3>1 DEF Rehung
  <2>3. PICK p \in 0 .. d - 1 :
          /\ Put(HashSet(d, X, s), name) = HashSet(d, With(X, p, name), s)
          /\ BucketsOK(d, With(X, p, name))
          /\ Cardinality(Full(d, With(X, p, name))) = Cardinality(Full(d, X)) + 1
          /\ Held(d, With(X, p, name)) = Held(d, X) \cup {name}
    <3> HIDE DEF name
    <3> QED
      BY <2>1, <2>2, Puts
  <2> DEFINE Y == With(X, p, name)
  <2> HIDE DEF Y
  <2>4. Moved(HashSet(d, X, s), name) = HashSet(d, Y, s)
    BY <1>3, <2>3 DEF Moved, Y
  <2>5. Cardinality(Full(d, Y)) <= Cardinality(Part(c, B, n))
    <3>1. Cardinality(Full(d, X)) <= Cardinality(Part(c, B, n - 1))
      BY DEF Rehung
    <3>2. Cardinality(Full(d, Y)) = Cardinality(Full(d, X)) + 1
      BY <2>3 DEF Y
    <3> QED
      BY <1>1, <1>3, <2>2, <3>1, <3>2
  <2>6. Held(d, Y) = {B[b] : b \in Part(c, B, n)}
    <3>1. Held(d, X) = {B[b] : b \in Part(c, B, n - 1)}
      BY DEF Rehung
    <3>2. Held(d, Y) = Held(d, X) \cup {B[n - 1]}
      BY <2>3 DEF Y
    <3> QED
      BY <1>1, <1>3, <3>1, <3>2
  <2>7. Rehung(c, B, d, s, n, Y)
    BY <2>3, <2>5, <2>6 DEF Rehung, Y
  <2> QED
    BY <2>4, <2>7
<1> QED
  BY <1>2, <1>3

Sets(c, s) == {HashSet(c, B, s) : B \in [0 .. c - 1 -> Names \cup {Free}]}

\* A name put wherever it is put leaves a set of as many buckets.
LEMMA MovedIs ==
  ASSUME NEW d \in Nat, NEW s, NEW set \in Sets(d, s), NEW old \in Names \cup {Free}
  PROVE  Moved(set, old) \in Sets(d, s)
<1>1. PICK X \in [0 .. d - 1 -> Names \cup {Free}] : set = HashSet(d, X, s)
  BY DEF Sets
<1> DEFINE p == Probe(set, old, {Free})
<1> HIDE DEF p
<1>2. With(X, p, old) \in [0 .. d - 1 -> Names \cup {Free}]
  BY DEF With
<1>3. [set EXCEPT !.buckets[p] = old] = HashSet(d, With(X, p, old), s)
  BY <1>1 DEF HashSet, With
<1>4. Put(set, old) = HashSet(d, With(X, p, old), s)
  BY <1>3 DEF Put, p
<1>5. Put(set, old) \in Sets(d, s)
  BY <1>2, <1>4, Zenon DEF Sets
<1> QED
  BY <1>5 DEF Moved

Moves(f, set) ==
  f = [n \in 0 .. set.capacity |->
         IF n = 0 THEN Doubled(set) ELSE Moved(f[n - 1], set.buckets[n - 1])]

LEMMA MovesOne ==
  ASSUME NEW set, SetOK(set)
  PROVE  \E f : Moves(f, set) /\ LinkHashSet_resize(set) = f[set.capacity]
<1> DEFINE c == set.capacity
           D == Sets(2 * c, set.size)
           step == [n \in 1..c |-> [m \in D |-> Moved(m, set.buckets[n - 1])]]
<1>1. /\ c \in Nat \ {0} /\ 2 * c \in Nat \ {0}
      /\ \A n \in 1..c : n - 1 \in 0..c /\ set.buckets[n - 1] \in Names \cup {Free}
  BY DEF SetOK, BucketsOK
<1>2. Doubled(set) \in D
  <2>1. Doubled(set) = HashSet(2 * c, Empty(2 * c), set.size)
    BY DEF Doubled, HashSet, Empty
  <2>2. Empty(2 * c) \in [0 .. 2 * c - 1 -> Names \cup {Free}]
    BY DEF Empty
  <2> QED
    BY <2>1, <2>2, Zenon DEF Sets
<1>3. \A n \in 1..c, m \in D : Moved(m, set.buckets[n - 1]) \in D
  <2> HIDE DEF c
  <2>1. 2 * c \in Nat
    BY <1>1
  <2>2. \A s, m, old : m \in Sets(2 * c, s) /\ old \in Names \cup {Free} => Moved(m, old) \in Sets(2 * c, s)
    BY <2>1, MovedIs
  <2> QED
    BY <1>1, <2>2
<1>4. \E f : Moves(f, set)
  <2>1. c \in Nat /\ Doubled(set) \in D /\ step \in [1..c -> [D -> D]]
    <3> HIDE DEF c, D
    <3> QED
      BY <1>1, <1>2, <1>3
  <2>2. PICK f : Recurs(f, c, D, Doubled(set), step)
    <3> HIDE DEF step, c, D
    <3> QED
      BY <2>1, Recursive, Zenon
  <2> HIDE DEF c, D
  <2>3. ASSUME NEW n \in 0..c, n # 0
        PROVE  step[n][f[n - 1]] = Moved(f[n - 1], set.buckets[n - 1])
    <3>1. n \in 1..c /\ n - 1 \in 0..c
      BY <1>1, <2>3
    <3>2. f[n - 1] \in D
      BY <2>2, <3>1 DEF Recurs
    <3> QED
      BY <3>1, <3>2
  <2> HIDE DEF step
  <2>4. f = [n \in 0..c |-> IF n = 0 THEN Doubled(set) ELSE Moved(f[n - 1], set.buckets[n - 1])]
    BY <2>2, <2>3 DEF Recurs
  <2> QED
    BY <2>4, Zenon DEF Moves, c
<1> DEFINE moved[n \in 0 .. set.capacity] ==
             IF n = 0 THEN Doubled(set) ELSE Moved(moved[n - 1], set.buckets[n - 1])
<1>5. Moves(moved, set)
  BY <1>4 DEF Moves
<1>6. LinkHashSet_resize(set) = moved[set.capacity]
  BY DEF LinkHashSet_resize
<1> QED
  BY <1>5, <1>6

(* A resize keeps the names and leaves half of the buckets free.              *)
LEMMA Resized ==
  ASSUME NEW set, SetOK(set)
  PROVE  /\ SetOK(LinkHashSet_resize(set))
         /\ LinkHashSet_resize(set).capacity = 2 * set.capacity
         /\ LinkHashSet_resize(set).size = set.size
         /\ HeldIn(LinkHashSet_resize(set)) = HeldIn(set)
<1> DEFINE c == set.capacity
           B == set.buckets
           s == set.size
           d == 2 * c
           Good(n, m) == \E X : m = HashSet(d, X, s) /\ Rehung(c, B, d, s, n, X)
<1>1. /\ c \in Nat \ {0} /\ B \in [0 .. c - 1 -> Names \cup {Free}] /\ s \in 0..c
      /\ d \in Nat \ {0} /\ d > c /\ Cardinality(Full(c, B)) <= s
  BY DEF SetOK, BucketsOK
<1>2. PICK f : Moves(f, set) /\ LinkHashSet_resize(set) = f[c]
  BY MovesOne
<1>3. \A n \in 0..c : f[n] = IF n = 0 THEN Doubled(set) ELSE Moved(f[n - 1], B[n - 1])
  BY <1>2 DEF Moves
<1> DEFINE S == {n \in 0..c : Good(n, f[n])}
<1>4. 0 \in S
  <2>1. f[0] = Doubled(set)
    BY <1>1, <1>3
  <2>2. Doubled(set) = HashSet(d, Empty(d), s)
    BY DEF Doubled, HashSet, Empty
  <2>3. Part(c, B, 0) = {}
    BY DEF Part, Full
  <2>4. Cardinality(Part(c, B, 0)) = 0
    BY <2>3, FS_EmptySet
  <2>5. /\ BucketsOK(d, Empty(d)) /\ Held(d, Empty(d)) = {}
        /\ Cardinality(Full(d, Empty(d))) = 0
    <3> HIDE DEF d
    <3> QED
      BY <1>1, EmptyOK
  <2> HIDE DEF c, B, s, d
  <2>6. Rehung(c, B, d, s, 0, Empty(d))
    BY <2>3, <2>4, <2>5 DEF Rehung
  <2>7. Good(0, f[0])
    BY <2>1, <2>2, <2>6
  <2> QED
    BY <1>1, <2>7
<1>5. ASSUME NEW n \in 1..c, n - 1 \in S PROVE n \in S
  <2> HIDE DEF c, B, s, d
  <2>1. n \in 0..c /\ n # 0
    BY <1>1
  <2>2. PICK X : f[n - 1] = HashSet(d, X, s) /\ Rehung(c, B, d, s, n - 1, X)
    BY <1>5
  <2>3. \E Y : Moved(HashSet(d, X, s), B[n - 1]) = HashSet(d, Y, s) /\ Rehung(c, B, d, s, n, Y)
    BY <1>1, <2>2, CopiesNext
  <2>4. f[n] = Moved(HashSet(d, X, s), B[n - 1])
    BY <1>3, <2>1, <2>2
  <2> QED
    BY <2>1, <2>3, <2>4
<1>6. c \in S
  <2>1. 0..c \subseteq S
    <3> HIDE DEF S
    <3> QED
      BY <1>1, <1>4, <1>5, Upwards
  <2> HIDE DEF S
  <2> QED
    BY <1>1, <2>1
<1>7. PICK X : f[c] = HashSet(d, X, s) /\ Rehung(c, B, d, s, c, X)
  BY <1>6
<1>8. Part(c, B, c) = Full(c, B)
  BY <1>1 DEF Part, Full
<1> HIDE DEF c, B, s, d, S
<1>9. /\ BucketsOK(d, X) /\ Held(d, X) = Held(c, B)
      /\ Cardinality(Full(d, X)) <= s
  <2>1. Cardinality(Full(d, X)) \in Nat /\ Cardinality(Full(c, B)) \in Nat
    BY <1>1, FullIs
  <2>2. BucketsOK(d, X) /\ Cardinality(Full(d, X)) <= Cardinality(Full(c, B))
    BY <1>7, <1>8 DEF Rehung
  <2>3. Held(d, X) = Held(c, B)
    BY <1>7, <1>8 DEF Rehung, Held
  <2> QED
    BY <1>1, <2>1, <2>2, <2>3
<1> DEFINE new == LinkHashSet_resize(set)
<1>10. new = HashSet(d, X, s) /\ new.capacity = d /\ new.buckets = X /\ new.size = s
  BY <1>2, <1>7 DEF HashSet
<1> HIDE DEF new
<1>11. SetOK(new)
  BY <1>1, <1>9, <1>10 DEF SetOK
<1>12. HeldIn(new) = HeldIn(set)
  BY <1>9, <1>10 DEF HeldIn, c, B
<1> QED
  BY <1>10, <1>11, <1>12 DEF new, c, d, s

\* A set with room for one more.
LEMMA Roomy ==
  ASSUME NEW set, SetOK(set)
  PROVE  LET roomy == IF set.size >= set.capacity \div 2 THEN LinkHashSet_resize(set) ELSE set
         IN  SetOK(roomy) /\ roomy.size < roomy.capacity /\ HeldIn(roomy) = HeldIn(set)
<1>1. set.capacity \in Nat \ {0} /\ set.size \in 0 .. set.capacity
  BY DEF SetOK, BucketsOK
<1>2. CASE set.size >= set.capacity \div 2
  <2> DEFINE new == LinkHashSet_resize(set)
  <2>1. /\ SetOK(new) /\ new.capacity = 2 * set.capacity /\ new.size = set.size
        /\ HeldIn(new) = HeldIn(set)
    BY Resized
  <2> HIDE DEF new
  <2>2. new.size < new.capacity
    BY <1>1, <2>1
  <2> QED
    BY <1>2, <2>1, <2>2 DEF new
<1>3. CASE ~(set.size >= set.capacity \div 2)
  <2>1. set.capacity \div 2 <= set.capacity /\ set.capacity \div 2 \in Int
    BY <1>1
  <2>2. set.size < set.capacity
    BY <1>1, <1>3, <2>1
  <2> QED
    BY <1>3, <2>2
<1> QED
  BY <1>2, <1>3

\* Where an attempt to add a name ends, and what it finds there.
AddIs(roomy, name, p, add) ==
  add = IF roomy.buckets[p] = Free
        THEN [added |-> TRUE,
              set |-> HashSet(roomy.capacity, With(roomy.buckets, p, name), roomy.size + 1)]
        ELSE [added |-> FALSE, set |-> roomy]

LEMMA AddProbes ==
  ASSUME NEW set, NEW name \in Names, NEW roomy, SetOK(roomy), roomy.size < roomy.capacity,
         roomy = IF set.size >= set.capacity \div 2 THEN LinkHashSet_resize(set) ELSE set
  PROVE  \E i \in 0 .. roomy.capacity - 1 :
           LET c == roomy.capacity
               B == roomy.buckets
               p == At(c, name, i)
           IN  /\ AddIs(roomy, name, p, LinkHashSet_add(set, name))
               /\ p \in 0 .. c - 1
               /\ p \notin Full(c, B) \/ Stem(B[p]) = Stem(name)
               /\ \A j \in 0 .. i - 1 : LET q == At(c, name, j) IN
                    q \in Full(c, B) /\ Stem(B[q]) # Stem(name)
<1> DEFINE c == roomy.capacity
           B == roomy.buckets
           s == roomy.size
           equal == {held \in Range(roomy.buckets) : link_linknames_equal(held, name)}
           S == {b \in 0 .. c - 1 : B[b] \in {Free} \cup equal}
           i == Earliest({j \in 0 .. c - 1 : At(c, name, j) \in S})
           p == At(c, name, i)
<1>1. /\ c \in Nat \ {0} /\ B \in [0 .. c - 1 -> Names \cup {Free}] /\ BucketsOK(c, B)
      /\ roomy = HashSet(c, B, s) /\ Cardinality(Full(c, B)) <= s /\ s \in Nat /\ s < c
  BY DEF SetOK, BucketsOK
<1>2. Cardinality(Full(c, B)) \in Nat /\ (0 .. c - 1) \ Full(c, B) # {}
  <2> HIDE DEF c, B, s
  <2>1. Cardinality(Full(c, B)) \in Nat
    BY <1>1, FullIs
  <2>2. Cardinality(Full(c, B)) < c
    BY <1>1, <2>1
  <2> QED
    BY <1>1, <2>1, <2>2, FullIs
<1>3. \A b \in 0 .. c - 1 : b \in S <=> b \notin Full(c, B) \/ Stem(B[b]) = Stem(name)
  <2> SUFFICES ASSUME NEW b \in 0 .. c - 1
               PROVE  b \in S <=> b \notin Full(c, B) \/ Stem(B[b]) = Stem(name)
    OBVIOUS
  <2>1. CASE B[b] = Free
    BY <2>1 DEF Full
  <2>2. CASE B[b] # Free
    <3>1. B[b] \in Names /\ b \in Full(c, B)
      BY <1>1, <2>2 DEF Full
    <3>2. link_linknames_equal(B[b], name) <=> Stem(B[b]) = Stem(name)
      BY <3>1, SameName
    <3>3. B[b] \in Range(B)
      BY <1>1 DEF Range
    <3> QED
      BY <2>2, <3>1, <3>2, <3>3
  <2> QED
    BY <2>1, <2>2
<1>4. \A j \in Nat : At(c, name, j) \in 0 .. c - 1
  BY <1>1, AtIs
<1>5. /\ i \in 0 .. c - 1 /\ p \in S /\ p \in 0 .. c - 1
      /\ \A j \in 0 .. i - 1 : At(c, name, j) \notin S
  <2>1. S \cap (0 .. c - 1) # {}
    BY <1>2, <1>3
  <2> HIDE DEF S
  <2> QED
    BY <1>1, <2>1, Probes
<1>6. Probe(roomy, name, {Free} \cup equal) = p
  <2>1. \A j \in 0 .. c - 1 : B[At(c, name, j)] \in {Free} \cup equal <=> At(c, name, j) \in S
    BY <1>4
  <2>2. {j \in 0 .. c - 1 : B[At(c, name, j)] \in {Free} \cup equal}
          = {j \in 0 .. c - 1 : At(c, name, j) \in S}
    BY <2>1
  <2>3. Probe(roomy, name, {Free} \cup equal)
          = At(c, name, Earliest({j \in 0 .. c - 1 : B[At(c, name, j)] \in {Free} \cup equal}))
    BY DEF Probe, At
  <2> QED
    BY <2>2, <2>3
<1>7. AddIs(roomy, name, p, LinkHashSet_add(set, name))
  <2>1. LinkHashSet_add(set, name)
          = IF B[p] = Free
            THEN [added |-> TRUE,
                  set |-> [roomy EXCEPT !.buckets[p] = name, !.size = @ + 1]]
            ELSE [added |-> FALSE, set |-> roomy]
    BY <1>6, Zenon DEF LinkHashSet_add
  <2>2. [roomy EXCEPT !.buckets[p] = name, !.size = @ + 1] = HashSet(c, With(B, p, name), s + 1)
    <3> HIDE DEF c, B, s, p
    <3>1. roomy = [capacity |-> c, buckets |-> B, size |-> s]
      BY <1>1 DEF HashSet
    <3> DEFINE plain == [capacity |-> c, buckets |-> B, size |-> s]
               fuller == [plain EXCEPT !.buckets[p] = name]
    <3>3. fuller = [capacity |-> c, buckets |-> With(B, p, name), size |-> s]
      BY DEF With
    <3>4. [plain EXCEPT !.buckets[p] = name, !.size = @ + 1] = [fuller EXCEPT !.size = @ + 1]
      OBVIOUS
    <3>5. [fuller EXCEPT !.size = @ + 1]
            = [capacity |-> c, buckets |-> With(B, p, name), size |-> s + 1]
      <4> HIDE DEF fuller
      <4> QED
        BY <3>3
    <3>2. [plain EXCEPT !.buckets[p] = name, !.size = @ + 1]
            = [capacity |-> c, buckets |-> With(B, p, name), size |-> s + 1]
      BY <3>4, <3>5
    <3> QED
      BY <3>1, <3>2, Zenon DEF HashSet
  <2> QED
    BY <2>1, <2>2, Zenon DEF AddIs
<1>8. p \notin Full(c, B) \/ Stem(B[p]) = Stem(name)
  <2>1. p \in S /\ p \in 0 .. c - 1
    BY <1>5
  <2> HIDE DEF S, i, p
  <2> QED
    BY <1>3, <2>1
<1>9. ASSUME NEW j \in 0 .. i - 1
      PROVE  At(c, name, j) \in Full(c, B) /\ Stem(B[At(c, name, j)]) # Stem(name)
  <2>1. i \in 0 .. c - 1 /\ c \in Nat
    BY <1>1, <1>5, Zenon
  <2> HIDE DEF S, i, c
  <2>2. At(c, name, j) \in 0 .. c - 1
    <3>1. j \in Nat
      BY <2>1
    <3> QED
      BY <1>4, <3>1
  <2>3. At(c, name, j) \notin S
    BY <1>5
  <2> QED
    BY <1>3, <2>2, <2>3
<1> HIDE DEF i, S
<1> QED
  BY <1>5, <1>7, <1>8, <1>9

New(set, name) == \A held \in HeldIn(set) : Stem(held) # Stem(name)

(* LinkHashSet_add takes a name exactly when the set holds none that differs  *)
(* from it by a slash at most, keeps the names it had, and leaves a set that  *)
(* can be probed: whatever link_hash_str gives and LinkHashSet_resize moves.  *)
THEOREM AddTakesNew ==
  ASSUME NEW set, SetOK(set), NEW name \in Names
  PROVE  LET add == LinkHashSet_add(set, name)
         IN  /\ SetOK(add.set) /\ add.added \in BOOLEAN
             /\ add.added <=> New(set, name)
             /\ HeldIn(add.set) = HeldIn(set) \cup (IF add.added THEN {name} ELSE {})
<1> DEFINE room == IF set.size >= set.capacity \div 2 THEN LinkHashSet_resize(set) ELSE set
           add == LinkHashSet_add(set, name)
<1>1. SetOK(room) /\ room.size < room.capacity /\ HeldIn(room) = HeldIn(set)
  BY Roomy
<1>2. PICK roomy : roomy = room
  OBVIOUS
<1>3. SetOK(roomy) /\ roomy.size < roomy.capacity /\ HeldIn(roomy) = HeldIn(set)
  BY <1>1, <1>2
<1> DEFINE c == roomy.capacity
           B == roomy.buckets
           s == roomy.size
<1>4. PICK i \in 0 .. c - 1 :
        /\ AddIs(roomy, name, At(c, name, i), add)
        /\ At(c, name, i) \in 0 .. c - 1
        /\ At(c, name, i) \notin Full(c, B) \/ Stem(B[At(c, name, i)]) = Stem(name)
        /\ \A j \in 0 .. i - 1 :
             At(c, name, j) \in Full(c, B) /\ Stem(B[At(c, name, j)]) # Stem(name)
  <2> HIDE DEF add
  <2> QED
    BY <1>2, <1>3, AddProbes DEF add
<1> HIDE DEF room, add
<1> DEFINE p == At(c, name, i)
<1>5. /\ c \in Nat \ {0} /\ B \in [0 .. c - 1 -> Names \cup {Free}] /\ BucketsOK(c, B)
      /\ roomy = HashSet(c, B, s) /\ Cardinality(Full(c, B)) <= s /\ s \in 0..c /\ s < c
  BY <1>3 DEF SetOK, BucketsOK
<1>6. CASE B[p] = Free
  <2>1. p \notin Full(c, B)
    BY <1>6 DEF Full
  <2>2. add.added /\ add.set = HashSet(c, With(B, p, name), s + 1) /\ add.added \in BOOLEAN
    BY <1>4, <1>6 DEF AddIs
  <2> DEFINE C == With(B, p, name)
  <2>3. BucketsOK(c, C) /\ Full(c, C) = Full(c, B) \cup {p} /\ Held(c, C) = Held(c, B) \cup {name}
    <3> HIDE DEF c, B
    <3> QED
      BY <1>4, <1>5, <2>1, Inserted
  <2>4. Cardinality(Full(c, C)) <= s + 1
    <3> HIDE DEF c, B, s, p, C
    <3>1. IsFiniteSet(Full(c, B)) /\ Cardinality(Full(c, B)) \in Nat
      BY <1>5, FullIs
    <3>2. Cardinality(Full(c, C)) = Cardinality(Full(c, B)) + 1
      BY <2>1, <2>3, <3>1, FS_AddElement
    <3> QED
      BY <1>5, <3>1, <3>2
  <2>5. New(set, name)
    <3>1. SUFFICES ASSUME NEW b \in Full(c, B), Stem(B[b]) = Stem(name) PROVE FALSE
      BY <1>3 DEF New, HeldIn, Held
    <3>2. B[b] \in Names
      BY <1>5 DEF Full
    <3>3. link_hash_str(B[b]) = link_hash_str(name)
      BY <3>1, <3>2, HashOfName
    <3>4. \E j \in 0 .. i - 1 : At(c, name, j) = b
      <4> HIDE DEF c, B
      <4> QED
        BY <1>5, <2>1, <3>3, Met
    <3> QED
      BY <1>4, <3>1, <3>4
  <2>6. SetOK(add.set) /\ HeldIn(add.set) = HeldIn(set) \cup {name}
    <3> HIDE DEF c, B, s, p, C
    <3>1. add.set = HashSet(c, C, s + 1)
      BY <2>2 DEF C
    <3>2. add.set.capacity = c /\ add.set.buckets = C /\ add.set.size = s + 1
      BY <3>1 DEF HashSet
    <3>3. SetOK(add.set)
      <4>1. add.set.size \in 0 .. add.set.capacity
        BY <1>5, <3>2
      <4>2. add.set = HashSet(add.set.capacity, add.set.buckets, add.set.size)
        BY <3>1, <3>2
      <4>3. BucketsOK(add.set.capacity, add.set.buckets)
        BY <2>3, <3>2
      <4>4. Cardinality(Full(add.set.capacity, add.set.buckets)) <= add.set.size
        BY <2>4, <3>2
      <4> QED
        BY <4>1, <4>2, <4>3, <4>4 DEF SetOK
    <3>4. HeldIn(add.set) = HeldIn(set) \cup {name}
      BY <1>3, <2>3, <3>2 DEF HeldIn, c, B
    <3> QED
      BY <3>3, <3>4
  <2> QED
    BY <2>2, <2>5, <2>6 DEF add
<1>7. CASE B[p] # Free
  <2>1. add = [added |-> FALSE, set |-> roomy]
    BY <1>4, <1>7 DEF AddIs
  <2>2. p \in Full(c, B) /\ B[p] \in Held(c, B) /\ Stem(B[p]) = Stem(name)
    BY <1>4, <1>7 DEF Full, Held
  <2>3. ~ New(set, name)
    BY <1>3, <2>2 DEF New, HeldIn
  <2>4. SetOK(add.set) /\ HeldIn(add.set) = HeldIn(set) /\ add.added = FALSE
    BY <1>3, <2>1
  <2> QED
    BY <2>3, <2>4 DEF add
<1> QED
  BY <1>6, <1>7

LEMMA NewOK ==
  /\ SetOK(LinkHashSet_new(FirstCapacity))
  /\ HeldIn(LinkHashSet_new(FirstCapacity)) = {}
<1> DEFINE P == {2 ^ k : k \in 0..12}
           Fits(p, c) == p >= c /\ (p = 1 \/ p \div 2 < c)
           power == CHOOSE p \in P : Fits(p, FirstCapacity)
<1> DEFINE bounds == 1..4096
<1>1. \A c \in bounds : \E p \in P : Fits(p, c)
  BY SMTT(60)
<1>2. \A p \in P : p \in Nat \ {0}
  OBVIOUS
<1>3. \E p \in P : Fits(p, FirstCapacity)
  <2>1. FirstCapacity \in bounds
    BY NamesAssumption DEF NamesAssumption
  <2> HIDE DEF P, Fits, bounds
  <2> QED
    BY <1>1, <2>1, Zenon
<1>4. power \in Nat \ {0}
  <2> HIDE DEF P, Fits
  <2> QED
    BY <1>2, <1>3
<1>5. LinkHashSet_new(FirstCapacity) = HashSet(power, Empty(power), 0)
  BY Zenon DEF LinkHashSet_new, HashSet, Empty
<1> HIDE DEF power
<1> DEFINE set == LinkHashSet_new(FirstCapacity)
<1>6. set.capacity = power /\ set.buckets = Empty(power) /\ set.size = 0
  BY <1>5 DEF HashSet
<1>7. /\ BucketsOK(power, Empty(power)) /\ Held(power, Empty(power)) = {}
      /\ Cardinality(Full(power, Empty(power))) = 0
  BY <1>4, EmptyOK
<1> HIDE DEF set
<1>8. set = HashSet(power, Empty(power), 0) /\ power \in Nat
  BY <1>4, <1>5 DEF set
<1>9. SetOK(set) /\ HeldIn(set) = {}
  <2>1. set.size \in 0 .. set.capacity
    BY <1>6, <1>8
  <2>2. Cardinality(Full(set.capacity, set.buckets)) <= set.size
    BY <1>6, <1>7
  <2> QED
    BY <1>6, <1>7, <1>8, <2>1, <2>2 DEF SetOK, HeldIn
<1> QED
  BY <1>9 DEF set

-----------------------------------------------------------------------------
(* The names hrefs give. *)

LEMMA LatestIs ==
  ASSUME NEW n \in Nat, NEW S, S \subseteq 0..n, S # {}
  PROVE  Latest(S) \in S /\ \A j \in S : j <= Latest(S)
<1> DEFINE T == {k \in 0..n : n - k \in S}
<1>1. T # {} /\ T \subseteq Nat
  <2>1. PICK i \in S : TRUE
    OBVIOUS
  <2>2. n - i \in 0..n /\ n - (n - i) = i
    BY <2>1
  <2>3. n - i \in T
    BY <2>2
  <2>4. T \subseteq Nat
    OBVIOUS
  <2> HIDE DEF T
  <2> QED
    BY <2>3, <2>4
<1>2. PICK k \in T : \A j \in T : k <= j
  <2> HIDE DEF T
  <2> QED
    BY <1>1, Least
<1>3. n - k \in S
  BY <1>2
<1>4. ASSUME NEW j \in S PROVE j <= n - k
  <2>1. n - j \in 0..n /\ n - (n - j) = j
    OBVIOUS
  <2>2. n - j \in T
    BY <2>1
  <2>3. k <= n - j /\ k \in 0..n
    BY <1>2, <2>2
  <2> QED
    BY <2>3
<1>5. \E i \in S : \A j \in S : j <= i
  BY <1>3, <1>4
<1> QED
  BY <1>5, Zenon DEF Latest

LEMMA CutIsText ==
  ASSUME NEW text \in Text, NEW m \in Nat \ {0}, NEW n \in 0 .. Len(text)
  PROVE  SubSeq(text, m, n) \in Text
BY TextCut

LEMMA SlashesAre ==
  ASSUME NEW text \in Text
  PROVE  /\ Slashes(text) \subseteq 1 .. Len(text) /\ Len(text) \in Nat
         /\ Slashes(text) # {} =>
              /\ Earliest(Slashes(text)) \in Slashes(text)
              /\ Earliest(Slashes(text)) \in 1 .. Len(text)
              /\ \A i \in Slashes(text) : Earliest(Slashes(text)) <= i
         /\ Latest({0} \cup Slashes(text)) \in 0 .. Len(text)
<1>1. Slashes(text) \subseteq 1 .. Len(text) /\ Len(text) \in Nat
  BY TextIs DEF Slashes
<1>2. ASSUME Slashes(text) # {}
      PROVE  /\ Earliest(Slashes(text)) \in Slashes(text)
             /\ \A i \in Slashes(text) : Earliest(Slashes(text)) <= i
  <2>1. Slashes(text) \subseteq Nat
    BY <1>1
  <2> QED
    BY <1>2, <2>1, EarliestIs
<1>3. Latest({0} \cup Slashes(text)) \in 0 .. Len(text)
  <2> DEFINE S == {0} \cup Slashes(text)
  <2>1. S \subseteq 0 .. Len(text) /\ S # {}
    BY <1>1
  <2> HIDE DEF S
  <2>2. Latest(S) \in S
    BY <1>1, <2>1, LatestIs
  <2> QED
    BY <2>1, <2>2 DEF S
<1> QED
  BY <1>1, <1>2, <1>3

LEMMA PageIs == Page \in Text
BY PageAssumption DEF PageAssumption, Text

LEMMA BeforeIs == ASSUME NEW text \in Text, NEW chars PROVE Before(text, chars) \in Text
<1> DEFINE at == {i \in DOMAIN text : text[i] \in chars}
<1>1. CASE at = {}
  BY <1>1 DEF Before
<1>2. CASE at # {}
  <2>1. at \subseteq 1 .. Len(text) /\ Len(text) \in Nat
    BY TextIs
  <2>2. Before(text, chars) = SubSeq(text, 1, Earliest(at) - 1)
    BY <1>2 DEF Before
  <2> HIDE DEF at
  <2>3. at \subseteq Nat
    BY <2>1
  <2>4. Earliest(at) \in at
    BY <1>2, <2>3, EarliestIs
  <2>5. 1 \in Nat \ {0} /\ Earliest(at) - 1 \in 0 .. Len(text)
    <3>1. Earliest(at) \in 1 .. Len(text)
      BY <2>1, <2>4
    <3> QED
      BY <2>1, <3>1
  <2> QED
    BY <2>2, <2>5, CutIsText
<1> QED
  BY <1>1, <1>2

LEMMA ThirdIs == ASSUME NEW url \in Text PROVE ThirdSlash(url) \in 0 .. Len(url)
<1> DEFINE thirds == {i \in Slashes(url) : Cardinality({j \in Slashes(url) : j <= i}) = 3}
<1>1. thirds \subseteq 1 .. Len(url) /\ Len(url) \in Nat
  BY SlashesAre
<1>2. ThirdSlash(url) = IF thirds = {} THEN 0 ELSE Earliest(thirds)
  BY DEF ThirdSlash
<1> HIDE DEF thirds
<1>3. ASSUME thirds # {} PROVE Earliest(thirds) \in thirds
  <2>1. thirds \subseteq Nat
    BY <1>1
  <2> QED
    BY <1>3, <2>1, EarliestIs
<1>4. ASSUME thirds # {} PROVE Earliest(thirds) \in 1 .. Len(url)
  BY <1>1, <1>3, <1>4
<1>5. CASE thirds = {}
  BY <1>1, <1>2, <1>5
<1>6. CASE thirds # {}
  <2>1. ThirdSlash(url) = Earliest(thirds)
    BY <1>2, <1>6
  <2> QED
    BY <1>1, <1>4, <1>6, <2>1
<1> QED
  BY <1>5, <1>6

LEMMA WithoutIs == ASSUME NEW text \in Text PROVE WithoutSlash(text) \in Text
<1>1. CASE EndsInSlash(text)
  <2>1. Len(text) \in Nat /\ Len(text) # 0
    BY <1>1, TextIs DEF EndsInSlash
  <2>2. 1 \in Nat \ {0} /\ Len(text) - 1 \in 0 .. Len(text)
    BY <2>1
  <2>3. SubSeq(text, 1, Len(text) - 1) \in Text
    BY <2>2, CutIsText
  <2> QED
    BY <1>1, <2>3 DEF WithoutSlash, Front
<1>2. CASE ~EndsInSlash(text)
  BY <1>2 DEF WithoutSlash
<1> QED
  BY <1>1, <1>2

LEMMA AfterIs == ASSUME NEW text \in Text PROVE AfterLastSlash(text) \in Text
<1> DEFINE m == Latest({0} \cup Slashes(text)) + 1
<1>1. m \in Nat \ {0} /\ Len(text) \in 0 .. Len(text)
  BY SlashesAre
<1> HIDE DEF m
<1>2. SubSeq(text, m, Len(text)) \in Text
  BY <1>1, CutIsText
<1> QED
  BY <1>2, Zenon DEF AfterLastSlash, m

LEMMA BasenameIs == ASSUME NEW url \in Text PROVE Basename(url, ThirdSlash(url)) \in Text
<1> DEFINE third == ThirdSlash(url)
           tail == SubSeq(url, third + 1, Len(url))
<1>1. third \in Nat /\ Len(url) \in 0 .. Len(url)
  BY SlashesAre, ThirdIs
<1> HIDE DEF third
<1>2. tail \in Text
  <2>1. third + 1 \in Nat \ {0}
    BY <1>1
  <2> QED
    BY <1>1, <2>1, CutIsText
<1> HIDE DEF tail
<1>3. AfterLastSlash(WithoutSlash(Before(tail, {"?", "#"}))) \in Text
  BY <1>2, BeforeIs, WithoutIs, AfterIs
<1>4. <<>> \in Text
  BY EmptySeq DEF Text
<1> QED
  BY <1>3, <1>4 DEF Basename, tail, third

LEMMA UnescapedIs == ASSUME NEW text \in Text PROVE curl_easy_unescape(text) \in Text
<1>1. \A i \in 1 .. Len(text) : Decoded(text[i]) \in DOMAIN Byte
  <2>1. \A escape \in DOMAIN Unescape : Unescape[escape] \in DOMAIN Byte
    BY NamesAssumption DEF NamesAssumption
  <2> QED
    BY <2>1, TextIs DEF Decoded
<1>2. Len(text) \in Nat /\ DOMAIN text = 1 .. Len(text)
  BY TextIs
<1> QED
  BY <1>1, <1>2 DEF curl_easy_unescape, Text

LEMMA ReplacedIs ==
  ASSUME NEW text \in Text
  PROVE  /\ SlashesReplaced(text) \in Text
         /\ \A i \in DOMAIN SlashesReplaced(text) : SlashesReplaced(text)[i] # "/"
<1>1. Underscore \in DOMAIN Byte
  BY NamesAssumption DEF NamesAssumption
<1>2. Underscore # "/"
  BY Zenon DEF Underscore
<1>3. \A i \in 1 .. Len(text) : text[i] \in DOMAIN Byte
  BY TextIs
<1>4. Len(text) \in Nat /\ DOMAIN text = 1 .. Len(text)
  BY TextIs
<1> QED
  BY <1>1, <1>2, <1>3, <1>4 DEF SlashesReplaced, Text

LEMMA PathIs == Len(PagePath(Page)) \in Nat
<1> DEFINE third == ThirdSlash(Page)
<1>1. Page \in Text /\ third \in 0 .. Len(Page) /\ Len(Page) \in 0 .. Len(Page)
  BY PageIs, ThirdIs, SlashesAre
<1>2. CASE third # 0
  <2>1. third \in Nat \ {0}
    BY <1>1, <1>2
  <2>2. SubSeq(Page, third, Len(Page)) \in Text
    BY <1>1, <2>1, CutIsText
  <2>3. PagePath(Page) = SubSeq(Page, third, Len(Page))
    BY <1>2 DEF PagePath
  <2> QED
    BY <2>2, <2>3, TextIs
<1>3. CASE third = 0
  <2>1. PagePath(Page) = <<"/">> \/ PagePath(Page) = <<>>
    BY <1>3 DEF PagePath
  <2> QED
    BY <2>1
<1> QED
  BY <1>2, <1>3

LEMMA MadeRelativeIs ==
  ASSUME NEW href \in Text
  PROVE  make_link_relative(Page, href) \in Text
<1> DEFINE after == Len(PagePath(Page)) + 1
<1>1. after \in Nat \ {0} /\ 3 \in Nat \ {0} /\ Len(href) \in 0 .. Len(href)
  BY PathIs, SlashesAre
<1>2. SubSeq(href, 3, Len(href)) \in Text /\ SubSeq(href, after, Len(href)) \in Text
  <2> HIDE DEF after
  <2> QED
    BY <1>1, CutIsText
<1> QED
  BY <1>2, Zenon DEF make_link_relative

LEMMA TruncatedIs == ASSUME NEW url \in Text PROVE Truncated(url) \in Text
<1> DEFINE slash == Earliest(Slashes(url))
<1>1. ASSUME Slashes(url) # {} PROVE SubSeq(url, 1, slash) \in Text
  <2>1. slash \in 0 .. Len(url) /\ 1 \in Nat \ {0}
    <3>1. slash \in 1 .. Len(url)
      BY <1>1, SlashesAre
    <3> HIDE DEF slash
    <3> QED
      BY <3>1
  <2> HIDE DEF slash
  <2> QED
    BY <2>1, CutIsText
<1> QED
  BY <1>1, Zenon DEF Truncated

LEMMA RelativeNames ==
  ASSUME NEW name \in Text, linkname_to_LinkType(name) # "LINK_INVALID"
  PROVE  name \in Names
<1>1. /\ name # <<>> /\ name[1] # "/"
      /\ Slashes(name) = {} \/ Earliest(Slashes(name)) = Len(name)
  BY Zenon DEF linkname_to_LinkType
<1>2. ASSUME NEW i \in DOMAIN name, name[i] = "/" PROVE i = Len(name) /\ i # 1
  <2>1. i \in Slashes(name)
    BY <1>2 DEF Slashes
  <2>2. /\ Earliest(Slashes(name)) <= i /\ i \in 1 .. Len(name) /\ Len(name) \in Nat
        /\ Earliest(Slashes(name)) = Len(name)
    BY <1>1, <2>1, SlashesAre
  <2>3. i = Len(name)
    BY <2>2
  <2>4. i # 1
    BY <1>1, <1>2
  <2> QED
    BY <2>3, <2>4
<1> QED
  BY <1>1, <1>2 DEF Names

(* The name of a valid link has no slash but the one of a directory.          *)
LEMMA ValidNames ==
  ASSUME NEW href \in Text, HrefLink(href).type # "LINK_INVALID"
  PROVE  HrefLink(href).name \in Names
<1>1. CASE External(href)
  <2> DEFINE base == Basename(href, ThirdSlash(href))
             name == SlashesReplaced(curl_easy_unescape(base))
  <2>1. name \in Text /\ \A i \in DOMAIN name : name[i] # "/"
    <3>1. base \in Text
      BY BasenameIs
    <3> HIDE DEF base
    <3>2. curl_easy_unescape(base) \in Text
      BY <3>1, UnescapedIs
    <3> QED
      BY <3>2, ReplacedIs
  <2>2. HrefLink(href) = ExternalLink(href, name)
    BY <1>1, Zenon DEF HrefLink, external_url_to_filename
  <2> HIDE DEF name
  <2>3. HrefLink(href).name = name
    BY <2>2 DEF ExternalLink
  <2>4. name # <<>>
    BY <2>2 DEF ExternalLink
  <2> QED
    BY <2>1, <2>3, <2>4 DEF Names
<1>2. CASE ~External(href)
  <2> DEFINE name == Truncated(make_link_relative(Page, href))
  <2>1. name \in Text
    BY MadeRelativeIs, TruncatedIs
  <2>2. HrefLink(href) = RelativeLink(name)
    BY <1>2, Zenon DEF HrefLink
  <2> HIDE DEF name
  <2>3. HrefLink(href).name = name /\ HrefLink(href).type = linkname_to_LinkType(name)
    BY <2>2 DEF RelativeLink
  <2> QED
    BY <2>1, <2>3, RelativeNames
<1> QED
  BY <1>1, <1>2

-----------------------------------------------------------------------------
(* The links of a page. *)

GoodSets ==
  {set \in [capacity : Nat, buckets : UNION {[0 .. c - 1 -> Names \cup {Free}] : c \in Nat},
            size : Nat] : SetOK(set)}

LEMMA GoodSetsAre == \A set : SetOK(set) <=> set \in GoodSets
<1> SUFFICES ASSUME NEW set, SetOK(set)
             PROVE  set \in [capacity : Nat, size : Nat,
                             buckets : UNION {[0 .. c - 1 -> Names \cup {Free}] : c \in Nat}]
  BY DEF GoodSets
<1>1. /\ set = HashSet(set.capacity, set.buckets, set.size) /\ set.capacity \in Nat
      /\ set.buckets \in [0 .. set.capacity - 1 -> Names \cup {Free}] /\ set.size \in Nat
  BY DEF SetOK, BucketsOK
<1>2. set.buckets \in UNION {[0 .. c - 1 -> Names \cup {Free}] : c \in Nat}
  BY <1>1, Zenon
<1> QED
  BY <1>1, <1>2 DEF HashSet

Valid(link) == {i \in DOMAIN link : link[i].type # "LINK_INVALID"}
Firsts(link, n) ==
  {i \in Valid(link) : i <= n /\ \A j \in Valid(link) :
                                   j < i => Stem(link[j].name) # Stem(link[i].name)}
LinkOf(link) == Link_new(link.name, link.type, link.f_url)


IsFirst(link, n) ==
  /\ n \in Valid(link)
  /\ \A j \in Valid(link) : j < n => Stem(link[j].name) # Stem(link[n].name)

FirstsGrow(link, n) ==
  /\ Cardinality(Firsts(link, n - 1)) \in Nat
  /\ \A i \in Firsts(link, n - 1) :
       i \in 1 .. n - 1 /\ Cardinality(Firsts(link, i)) \in 1 .. Cardinality(Firsts(link, n - 1))
  /\ IsFirst(link, n) =>
       /\ Firsts(link, n) = Firsts(link, n - 1) \cup {n}
       /\ Cardinality(Firsts(link, n)) = Cardinality(Firsts(link, n - 1)) + 1
  /\ ~IsFirst(link, n) => Firsts(link, n) = Firsts(link, n - 1)

LEMMA FirstsIs ==
  ASSUME NEW N \in Nat, NEW link, DOMAIN link = 1..N, NEW n \in 1..N
  PROVE  FirstsGrow(link, n)
<1>1. \A k \in 0..N : Firsts(link, k) \subseteq 1..k
  BY DEF Firsts, Valid
<1>2. \A k \in 0..N : IsFiniteSet(Firsts(link, k)) /\ Cardinality(Firsts(link, k)) \in Nat
  <2> SUFFICES ASSUME NEW k \in 0..N
               PROVE  IsFiniteSet(Firsts(link, k)) /\ Cardinality(Firsts(link, k)) \in Nat
    OBVIOUS
  <2>1. 1 \in Int /\ k \in Int
    OBVIOUS
  <2>2. IsFiniteSet(1..k)
    BY <2>1, FS_Interval
  <2>3. IsFiniteSet(Firsts(link, k))
    BY <1>1, <2>2, FS_Subset
  <2> QED
    BY <2>3, FS_CardinalityType
<1>3. n - 1 \in 0..N /\ n \in 0..N
  OBVIOUS
<1>4. ASSUME NEW i \in Firsts(link, n - 1)
      PROVE  i \in 1 .. n - 1 /\ Cardinality(Firsts(link, i)) \in 1 .. Cardinality(Firsts(link, n - 1))
  <2>1. i \in 1 .. n - 1 /\ i \in 0..N
    <3>1. i \in 1 .. n - 1
      BY <1>1, <1>3
    <3> QED
      BY <3>1
  <2>2. Firsts(link, i) \subseteq Firsts(link, n - 1) /\ i \in Firsts(link, i)
    BY <2>1, <1>1 DEF Firsts, Valid
  <2>3. Cardinality(Firsts(link, i)) <= Cardinality(Firsts(link, n - 1))
    BY <1>2, <1>3, <2>2, FS_Subset
  <2>4. Cardinality(Firsts(link, i)) # 0
    <3>1. IsFiniteSet(Firsts(link, i)) /\ Firsts(link, i) # {}
      BY <1>2, <2>1, <2>2
    <3> QED
      BY <3>1, FS_EmptySet
  <2>5. Cardinality(Firsts(link, i)) \in Nat /\ Cardinality(Firsts(link, n - 1)) \in Nat
    BY <1>2, <1>3, <2>1
  <2> QED
    BY <2>1, <2>3, <2>4, <2>5
<1>5. ASSUME IsFirst(link, n)
      PROVE  /\ Firsts(link, n) = Firsts(link, n - 1) \cup {n}
             /\ Cardinality(Firsts(link, n)) = Cardinality(Firsts(link, n - 1)) + 1
  <2>1. Firsts(link, n) = Firsts(link, n - 1) \cup {n}
    <3>1. \A i \in 1..N : i <= n <=> i <= n - 1 \/ i = n
      OBVIOUS
    <3> QED
      BY <1>5, <3>1 DEF Firsts, Valid, IsFirst
  <2>2. n \notin Firsts(link, n - 1)
    BY <1>1, <1>3
  <2>3. IsFiniteSet(Firsts(link, n - 1))
    BY <1>2, <1>3
  <2> QED
    BY <2>1, <2>2, <2>3, FS_AddElement
<1>6. ASSUME ~IsFirst(link, n) PROVE Firsts(link, n) = Firsts(link, n - 1)
  <2>1. \A i \in 1..N : i <= n <=> i <= n - 1 \/ i = n
    OBVIOUS
  <2> QED
    BY <1>6, <2>1 DEF Firsts, Valid, IsFirst
<1> QED
  BY <1>2, <1>3, <1>4, <1>5, <1>6 DEF FirstsGrow

\* The links of hrefs that are texts.
LinksOK(link) ==
  \A i \in DOMAIN link : link[i].type # "LINK_INVALID" => link[i].name \in Names

LinkSet(link) == {LinkOf(link[i]) : i \in Valid(link)}
Listings(link) == [set : GoodSets, links : Seq(LinkSet(link))]

\* The set and the links after the first n hrefs.
Listing(link, n, acc) ==
  /\ \A held \in HeldIn(acc.set) : \E j \in Valid(link) :
       j <= n /\ Stem(held) = Stem(link[j].name)
  /\ \A j \in Valid(link) : j <= n =>
       \E held \in HeldIn(acc.set) : Stem(held) = Stem(link[j].name)
  /\ Len(acc.links) = Cardinality(Firsts(link, n))
  /\ \A i \in Firsts(link, n) :
       acc.links[Cardinality(Firsts(link, i))] = LinkOf(link[i])

LEMMA ListingIn ==
  ASSUME NEW link, NEW acc \in Listings(link)
  PROVE  SetOK(acc.set) /\ acc.links \in Seq(LinkSet(link))
BY GoodSetsAre DEF Listings

LEMMA AddsLink ==
  ASSUME NEW link, LinksOK(link), NEW n \in DOMAIN link, NEW acc \in Listings(link)
  PROVE  LET add == LinkHashSet_add(acc.set, link[n].name)
             valid == n \in Valid(link)
         IN  /\ AddLink(acc, link[n]) \in Listings(link)
             /\ ~valid => AddLink(acc, link[n]) = acc
             /\ valid => /\ add.added <=> New(acc.set, link[n].name)
                         /\ HeldIn(add.set) = HeldIn(acc.set) \cup
                                                (IF add.added THEN {link[n].name} ELSE {})
                         /\ AddLink(acc, link[n]).set = add.set
                         /\ AddLink(acc, link[n]).links =
                              IF add.added THEN Append(acc.links, LinkOf(link[n])) ELSE acc.links
<1> DEFINE add == LinkHashSet_add(acc.set, link[n].name)
           more == IF add.added THEN Append(acc.links, LinkOf(link[n])) ELSE acc.links
<1>1. SetOK(acc.set) /\ acc.links \in Seq(LinkSet(link))
  BY ListingIn
<1>2. CASE n \notin Valid(link)
  <2>1. link[n].type = "LINK_INVALID"
    BY <1>2 DEF Valid
  <2>2. AddLink(acc, link[n]) = acc
    BY <2>1, Zenon DEF AddLink
  <2> QED
    BY <1>2, <2>2
<1>3. CASE n \in Valid(link)
  <2>1. link[n].type # "LINK_INVALID" /\ link[n].name \in Names
    BY <1>3 DEF Valid, LinksOK
  <2>2. /\ SetOK(add.set)
        /\ add.added <=> New(acc.set, link[n].name)
        /\ HeldIn(add.set) = HeldIn(acc.set) \cup (IF add.added THEN {link[n].name} ELSE {})
    BY <1>1, <2>1, AddTakesNew
  <2>3. AddLink(acc, link[n]) = [set |-> add.set, links |-> more]
    BY <2>1, Zenon DEF AddLink, Listed, LinkOf
  <2>4. more \in Seq(LinkSet(link))
    <3>1. LinkOf(link[n]) \in LinkSet(link)
      BY <1>3 DEF LinkSet
    <3> HIDE DEF add
    <3>2. Append(acc.links, LinkOf(link[n])) \in Seq(LinkSet(link))
      BY <1>1, <3>1, AppendProperties
    <3> QED
      BY <1>1, <3>2
  <2>5. AddLink(acc, link[n]) \in Listings(link)
    <3> HIDE DEF add, more
    <3>1. add.set \in GoodSets
      BY <2>2, GoodSetsAre
    <3> QED
      BY <2>3, <2>4, <3>1 DEF Listings
  <2>6. AddLink(acc, link[n]).set = add.set /\ AddLink(acc, link[n]).links = more
    <3> HIDE DEF add, more
    <3> QED
      BY <2>3
  <2> QED
    BY <1>3, <2>2, <2>5, <2>6, Zenon
<1> QED
  BY <1>2, <1>3

LEMMA ListingNext ==
  ASSUME NEW N \in Nat, NEW link, DOMAIN link = 1..N, LinksOK(link), NEW n \in 1..N,
         NEW acc \in Listings(link), Listing(link, n - 1, acc)
  PROVE  Listing(link, n, AddLink(acc, link[n]))
<1> DEFINE add == LinkHashSet_add(acc.set, link[n].name)
           next == AddLink(acc, link[n])
<1>1. /\ n \notin Valid(link) => next = acc
      /\ n \in Valid(link) =>
           /\ add.added <=> New(acc.set, link[n].name)
           /\ HeldIn(add.set) = HeldIn(acc.set) \cup (IF add.added THEN {link[n].name} ELSE {})
           /\ next.set = add.set
           /\ next.links = IF add.added THEN Append(acc.links, LinkOf(link[n])) ELSE acc.links
  BY AddsLink, Zenon
<1> HIDE DEF add, next
<1>2. FirstsGrow(link, n)
  BY FirstsIs
<1>3. \A j \in Valid(link) : j \in 1..N /\ (j <= n <=> j <= n - 1 \/ j = n) /\ (j < n <=> j <= n - 1)
  BY DEF Valid
<1>4. n \in Valid(link) => (New(acc.set, link[n].name) <=> IsFirst(link, n))
  <2> SUFFICES ASSUME n \in Valid(link) PROVE New(acc.set, link[n].name) <=> IsFirst(link, n)
    OBVIOUS
  <2>1. ASSUME New(acc.set, link[n].name), NEW j \in Valid(link), j < n
        PROVE  Stem(link[j].name) # Stem(link[n].name)
    <3>1. PICK held \in HeldIn(acc.set) : Stem(held) = Stem(link[j].name)
      BY <1>3, <2>1 DEF Listing
    <3> QED
      BY <2>1, <3>1 DEF New
  <2>2. ASSUME IsFirst(link, n), NEW held \in HeldIn(acc.set)
        PROVE  Stem(held) # Stem(link[n].name)
    <3>1. PICK j \in Valid(link) : j <= n - 1 /\ Stem(held) = Stem(link[j].name)
      BY DEF Listing
    <3> QED
      BY <1>3, <2>2, <3>1 DEF IsFirst
  <2> QED
    BY <2>1, <2>2 DEF New, IsFirst
<1>5. CASE n \in Valid(link) /\ IsFirst(link, n)
  <2>1. /\ HeldIn(next.set) = HeldIn(acc.set) \cup {link[n].name}
        /\ next.links = Append(acc.links, LinkOf(link[n]))
    BY <1>1, <1>4, <1>5
  <2>2. ASSUME NEW held \in HeldIn(next.set)
        PROVE  \E j \in Valid(link) : j <= n /\ Stem(held) = Stem(link[j].name)
    <3>1. CASE held = link[n].name
      BY <1>5, <3>1
    <3>2. CASE held \in HeldIn(acc.set)
      BY <1>3, <3>2 DEF Listing
    <3> QED
      BY <2>1, <3>1, <3>2
  <2>3. ASSUME NEW j \in Valid(link), j <= n
        PROVE  \E held \in HeldIn(next.set) : Stem(held) = Stem(link[j].name)
    <3>1. CASE j = n
      BY <2>1, <3>1
    <3>2. CASE j <= n - 1
      <4>1. \E held \in HeldIn(acc.set) : Stem(held) = Stem(link[j].name)
        BY <3>2 DEF Listing
      <4> QED
        BY <2>1, <4>1
    <3> QED
      BY <1>3, <2>3, <3>1, <3>2
  <2> DEFINE m == Cardinality(Firsts(link, n - 1))
  <2>4. /\ m \in Nat /\ Len(acc.links) = m
        /\ Cardinality(Firsts(link, n)) = m + 1
        /\ Firsts(link, n) = Firsts(link, n - 1) \cup {n}
        /\ \A i \in Firsts(link, n - 1) : Cardinality(Firsts(link, i)) \in 1..m
    BY <1>2, <1>5 DEF FirstsGrow, Listing
  <2> HIDE DEF m
  <2>5. /\ Len(next.links) = m + 1 /\ next.links[m + 1] = LinkOf(link[n])
        /\ \A k \in 1..m : next.links[k] = acc.links[k]
    <3>1. acc.links \in Seq(LinkSet(link)) /\ LinkOf(link[n]) \in LinkSet(link)
      <4>1. LinkOf(link[n]) \in LinkSet(link)
        BY <1>5 DEF LinkSet
      <4> QED
        BY <4>1, ListingIn
    <3>2. /\ Len(Append(acc.links, LinkOf(link[n]))) = Len(acc.links) + 1
          /\ Append(acc.links, LinkOf(link[n]))[Len(acc.links) + 1] = LinkOf(link[n])
          /\ \A k \in 1 .. Len(acc.links) :
               Append(acc.links, LinkOf(link[n]))[k] = acc.links[k]
      BY <3>1, AppendProperties
    <3> QED
      BY <2>1, <2>4, <3>2
  <2>6. ASSUME NEW i \in Firsts(link, n)
        PROVE  next.links[Cardinality(Firsts(link, i))] = LinkOf(link[i])
    <3>1. CASE i = n
      BY <2>4, <2>5, <3>1
    <3>2. CASE i \in Firsts(link, n - 1)
      <4>1. acc.links[Cardinality(Firsts(link, i))] = LinkOf(link[i])
        BY <3>2 DEF Listing
      <4>2. Cardinality(Firsts(link, i)) \in 1..m
        BY <2>4, <3>2
      <4> QED
        BY <2>5, <4>1, <4>2
    <3> QED
      BY <2>4, <3>1, <3>2
  <2> QED
    BY <2>2, <2>3, <2>4, <2>5, <2>6 DEF Listing, next
<1>6. CASE ~(n \in Valid(link) /\ IsFirst(link, n))
  <2>1. HeldIn(next.set) = HeldIn(acc.set) /\ next.links = acc.links
    BY <1>1, <1>4, <1>6
  <2>2. Firsts(link, n) = Firsts(link, n - 1)
    BY <1>2, <1>6 DEF FirstsGrow, IsFirst
  <2>3. ASSUME n \in Valid(link)
        PROVE  \E held \in HeldIn(acc.set) : Stem(held) = Stem(link[n].name)
    BY <1>4, <1>6, <2>3 DEF New
  <2>4. ASSUME NEW held \in HeldIn(next.set)
        PROVE  \E j \in Valid(link) : j <= n /\ Stem(held) = Stem(link[j].name)
    BY <1>3, <2>1 DEF Listing
  <2>5. ASSUME NEW j \in Valid(link), j <= n
        PROVE  \E held \in HeldIn(next.set) : Stem(held) = Stem(link[j].name)
    <3>1. CASE j = n
      BY <2>1, <2>3, <3>1
    <3>2. CASE j <= n - 1
      BY <2>1, <3>2 DEF Listing
    <3> QED
      BY <1>3, <2>5, <3>1, <3>2
  <2>6. /\ Len(next.links) = Cardinality(Firsts(link, n))
        /\ \A i \in Firsts(link, n) : next.links[Cardinality(Firsts(link, i))] = LinkOf(link[i])
    BY <2>1, <2>2 DEF Listing
  <2> QED
    BY <2>4, <2>5, <2>6 DEF Listing, next
<1> QED
  BY <1>5, <1>6

Parses(f, hrefs) ==
  f = [n \in 0 .. Len(hrefs) |->
         IF n = 0 THEN [set |-> LinkHashSet_new(FirstCapacity), links |-> <<>>]
         ELSE HTML_to_LinkTable(f[n - 1], hrefs[n])]

HrefLinks(hrefs) == [i \in DOMAIN hrefs |-> HrefLink(hrefs[i])]
NoLinks == [set |-> LinkHashSet_new(FirstCapacity), links |-> <<>>]

LEMMA HrefsAre ==
  ASSUME NEW hrefs \in Seq(Text)
  PROVE  /\ Len(hrefs) \in Nat /\ DOMAIN hrefs = 1 .. Len(hrefs)
         /\ DOMAIN HrefLinks(hrefs) = 1 .. Len(hrefs)
         /\ \A n \in 1 .. Len(hrefs) : HrefLinks(hrefs)[n] = HrefLink(hrefs[n])
         /\ LinksOK(HrefLinks(hrefs))
         /\ NoLinks \in Listings(HrefLinks(hrefs))
<1>1. Len(hrefs) \in Nat /\ DOMAIN hrefs = 1 .. Len(hrefs)
  BY LenProperties
<1>2. \A n \in 1 .. Len(hrefs) : hrefs[n] \in Text
  BY <1>1, ElementOfSeq
<1>3. /\ DOMAIN HrefLinks(hrefs) = 1 .. Len(hrefs)
      /\ \A n \in 1 .. Len(hrefs) : HrefLinks(hrefs)[n] = HrefLink(hrefs[n])
  BY <1>1 DEF HrefLinks
<1>4. LinksOK(HrefLinks(hrefs))
  BY <1>2, <1>3, ValidNames DEF LinksOK
<1>5. NoLinks \in Listings(HrefLinks(hrefs))
  <2>1. LinkHashSet_new(FirstCapacity) \in GoodSets
    BY NewOK, GoodSetsAre
  <2>2. <<>> \in Seq(LinkSet(HrefLinks(hrefs)))
    BY EmptySeq
  <2> QED
    BY <2>1, <2>2 DEF NoLinks, Listings
<1> QED
  BY <1>1, <1>3, <1>4, <1>5

LEMMA ParsesOne ==
  ASSUME NEW hrefs \in Seq(Text)
  PROVE  \E f : Parses(f, hrefs) /\ LinkTable_parse_html(hrefs) = f[Len(hrefs)].links
<1> DEFINE end == Len(hrefs)
           link == HrefLinks(hrefs)
           D == Listings(link)
           step == [n \in 1..end |-> [acc \in D |-> AddLink(acc, link[n])]]
<1>1. /\ end \in Nat /\ DOMAIN link = 1..end /\ LinksOK(link) /\ NoLinks \in D
      /\ \A n \in 1..end : link[n] = HrefLink(hrefs[n])
  BY HrefsAre
<1>2. \A n \in 1..end, acc \in D : AddLink(acc, link[n]) \in D
  <2> HIDE DEF link
  <2> QED
    BY <1>1, AddsLink
<1>3. step \in [1..end -> [D -> D]]
  <2> HIDE DEF D, end, link
  <2> QED
    BY <1>2
<1>4. PICK f : Recurs(f, end, D, NoLinks, step)
  <2> HIDE DEF step, D, end
  <2> QED
    BY <1>1, <1>3, Recursive, Zenon
<1> HIDE DEF D, end, link
<1>5. ASSUME NEW n \in 1..end
      PROVE  f[n] = AddLink(f[n - 1], link[n])
  <2>1. n - 1 \in 0..end /\ n \in 0..end /\ n # 0
    BY <1>1
  <2>2. f[n - 1] \in D /\ f[n] = step[n][f[n - 1]]
    BY <1>4, <2>1 DEF Recurs
  <2> QED
    BY <2>2
<1>6. /\ f[0] = NoLinks /\ \A n \in 0..end : f[n] \in D
      /\ f = [n \in 0..end |-> f[n]]
  <2> HIDE DEF step
  <2> QED
    BY <1>1, <1>4 DEF Recurs
<1>7. Parses(f, hrefs)
  <2>1. \A n \in 0..end : f[n] = IF n = 0 THEN NoLinks ELSE HTML_to_LinkTable(f[n - 1], hrefs[n])
    <3> SUFFICES ASSUME NEW n \in 0..end, n # 0
                 PROVE  f[n] = HTML_to_LinkTable(f[n - 1], hrefs[n])
      BY <1>6
    <3>1. n \in 1..end
      BY <1>1
    <3> QED
      BY <1>1, <1>5, <3>1 DEF HTML_to_LinkTable
  <2>2. f = [n \in 0..end |-> IF n = 0 THEN NoLinks ELSE HTML_to_LinkTable(f[n - 1], hrefs[n])]
    BY <1>6, <2>1
  <2> QED
    BY <2>2, Zenon DEF Parses, NoLinks, end
<1> DEFINE acc[n \in 0 .. Len(hrefs)] ==
             IF n = 0 THEN [set |-> LinkHashSet_new(FirstCapacity), links |-> <<>>]
             ELSE HTML_to_LinkTable(acc[n - 1], hrefs[n])
<1>8. LinkTable_parse_html(hrefs) = acc[Len(hrefs)].links
  BY DEF LinkTable_parse_html
<1>9. Parses(acc, hrefs)
  BY <1>7 DEF Parses
<1> QED
  BY <1>8, <1>9

LEMMA Parsed ==
  ASSUME NEW hrefs \in Seq(Text)
  PROVE  \E acc \in Listings(HrefLinks(hrefs)) :
           /\ Listing(HrefLinks(hrefs), Len(hrefs), acc)
           /\ LinkTable_parse_html(hrefs) = acc.links
<1> DEFINE end == Len(hrefs)
           link == HrefLinks(hrefs)
<1>1. /\ end \in Nat /\ DOMAIN link = 1..end /\ LinksOK(link) /\ NoLinks \in Listings(link)
      /\ \A n \in 1..end : link[n] = HrefLink(hrefs[n])
  BY HrefsAre
<1> HIDE DEF link
<1>2. PICK f : Parses(f, hrefs) /\ LinkTable_parse_html(hrefs) = f[end].links
  BY ParsesOne
<1> HIDE DEF end
<1>3. f[0] = NoLinks /\ \A n \in 1..end : f[n] = AddLink(f[n - 1], link[n])
  <2>1. f = [n \in 0..end |-> IF n = 0 THEN NoLinks ELSE HTML_to_LinkTable(f[n - 1], hrefs[n])]
    BY <1>2, Zenon DEF Parses, NoLinks, end
  <2>2. f[0] = NoLinks
    BY <1>1, <2>1
  <2>3. ASSUME NEW n \in 1..end PROVE f[n] = AddLink(f[n - 1], link[n])
    <3>1. n \in 0..end /\ n # 0
      BY <1>1
    <3>2. f[n] = HTML_to_LinkTable(f[n - 1], hrefs[n])
      BY <2>1, <3>1
    <3> QED
      BY <1>1, <3>2 DEF HTML_to_LinkTable
  <2> QED
    BY <2>2, <2>3
<1> DEFINE S == {n \in 0..end : f[n] \in Listings(link) /\ Listing(link, n, f[n])}
<1>4. 0 \in S
  <2>1. Firsts(link, 0) = {} /\ \A j \in Valid(link) : ~(j <= 0)
    BY <1>1 DEF Firsts, Valid
  <2>2. Cardinality(Firsts(link, 0)) = 0
    BY <2>1, FS_EmptySet
  <2>3. HeldIn(NoLinks.set) = {} /\ NoLinks.links = <<>>
    BY NewOK DEF NoLinks
  <2>4. Listing(link, 0, NoLinks)
    BY <2>1, <2>2, <2>3 DEF Listing
  <2> QED
    BY <1>1, <1>3, <2>4
<1>5. ASSUME NEW n \in 1..end, n - 1 \in S PROVE n \in S
  <2>1. n \in 0..end /\ f[n] = AddLink(f[n - 1], link[n])
    BY <1>1, <1>3
  <2>2. f[n - 1] \in Listings(link) /\ Listing(link, n - 1, f[n - 1])
    BY <1>5
  <2>3. f[n] \in Listings(link)
    BY <1>1, <2>1, <2>2, AddsLink
  <2>4. Listing(link, n, f[n])
    BY <1>1, <2>1, <2>2, ListingNext
  <2> QED
    BY <2>1, <2>3, <2>4
<1>6. end \in S
  <2>1. 0..end \subseteq S
    <3> HIDE DEF S
    <3> QED
      BY <1>1, <1>4, <1>5, Upwards
  <2> HIDE DEF S
  <2> QED
    BY <1>1, <2>1
<1>7. f[end] \in Listings(link) /\ Listing(link, end, f[end])
  BY <1>6
<1> QED
  BY <1>2, <1>7 DEF link, end

(* LinkTable_parse_html lists one link for each name that valid hrefs give,   *)
(* the first href's, in their order: whatever their number, their hashes and  *)
(* the resizes of the set on the way.                                         *)
THEOREM PageFirstWins ==
  ASSUME NEW hrefs \in Seq(Text)
  PROVE  FirstListed(HrefLinks(hrefs), LinkTable_parse_html(hrefs))
<1> DEFINE end == Len(hrefs)
           link == HrefLinks(hrefs)
           listed == LinkTable_parse_html(hrefs)
           first == {i \in Valid(link) : \A j \in Valid(link) :
                       j < i => WithoutSlash(link[j].name) # WithoutSlash(link[i].name)}
<1>1. end \in Nat /\ DOMAIN link = 1..end
  BY HrefsAre
<1>2. PICK acc \in Listings(link) : Listing(link, end, acc) /\ listed = acc.links
  BY Parsed
<1> HIDE DEF link, end, listed
<1>3. first = Firsts(link, end) /\ \A i \in first : {j \in first : j <= i} = Firsts(link, i)
  BY <1>1 DEF Firsts, Valid, Stem
<1> HIDE DEF first
<1>4. Len(listed) = Cardinality(first)
  BY <1>2, <1>3 DEF Listing
<1>5. ASSUME NEW i \in first
       PROVE  /\ listed[Cardinality({j \in first : j <= i})].linkname = WithoutSlash(link[i].name)
              /\ listed[Cardinality({j \in first : j <= i})].type = link[i].type
              /\ listed[Cardinality({j \in first : j <= i})].f_url = link[i].f_url
  <2>1. listed[Cardinality({j \in first : j <= i})] = LinkOf(link[i])
    BY <1>2, <1>3 DEF Listing
  <2> QED
    BY <2>1 DEF LinkOf, Link_new
<1>6. first = {i \in {k \in DOMAIN link : link[k].type # "LINK_INVALID"} :
                 \A j \in {k \in DOMAIN link : link[k].type # "LINK_INVALID"} :
                   j < i => WithoutSlash(link[j].name) # WithoutSlash(link[i].name)}
  BY DEF first, Valid
<1>7. FirstListed(link, listed)
  BY <1>4, <1>5, <1>6, Zenon DEF FirstListed
<1> QED
  BY <1>7 DEF link, listed

\* What is picked is such a page.
PagesOK == (input # None /\ input.kind = "page") => input.hrefs \in Seq(Text)

LEMMA PagesOKStep == ASSUME PagesOK, [Next]_input PROVE PagesOK'
<1>1. ASSUME PickPage PROVE PagesOK'
  <2>1. PICK n \in 1..MaxHrefs : \E hrefs \in [1..n -> Hrefs] :
          input' = [kind |-> "page", hrefs |-> hrefs]
    BY <1>1, Zenon DEF PickPage
  <2>2. PICK hrefs \in [1..n -> Hrefs] : input' = [kind |-> "page", hrefs |-> hrefs]
    BY <2>1, Zenon
  <2>3. n \in Nat /\ hrefs \in [1..n -> Text]
    BY HrefsAssumption DEF HrefsAssumption, Text
  <2>4. hrefs \in Seq(Text)
    BY <2>3
  <2> QED
    BY <2>2, <2>4 DEF PagesOK
<1>2. ASSUME PickElement \/ PickRoot PROVE PagesOK'
  BY <1>2 DEF PickElement, PickRoot, PagesOK
<1>3. ASSUME PickRead PROVE PagesOK'
  BY <1>3 DEF PickRead, PagesOK
<1>4. CASE UNCHANGED input
  BY <1>4 DEF PagesOK
<1>5. CASE input' = None
  BY <1>5 DEF PagesOK
<1> QED
  BY <1>1, <1>2, <1>3, <1>4, <1>5 DEF Next

(* A listed page has the first link of each name (FirstWins): for any number  *)
(* of any hrefs.                                                              *)
THEOREM PagesFirstWin == Spec => []FirstWins
<1>1. Init => PagesOK
  BY DEF Init, PagesOK
<1>2. PagesOK => FirstWins
  <2> SUFFICES ASSUME PagesOK, input # None, input.kind = "page" PROVE FirstWins
    BY DEF FirstWins
  <2>1. FirstListed(HrefLinks(input.hrefs), LinkTable_parse_html(input.hrefs))
    BY PageFirstWins DEF PagesOK
  <2> QED
    BY <2>1, Zenon DEF FirstWins, HrefLinks
<1> QED
  BY <1>1, <1>2, PagesOKStep, PTL DEF Spec

-----------------------------------------------------------------------------
(* Origins. *)

Ends == {"/", "?", "#"}

\* A URL's scheme and the slashes before its host; the host ends before e.
HostEnds(url, e) ==
  /\ url \in Text /\ Len(url) >= 4 /\ e \in 5 .. Len(url) + 1
  /\ url[1] \notin Ends /\ url[2] = "/" /\ url[3] = "/"
  /\ \A i \in 4 .. e - 1 : url[i] \notin Ends
  /\ e <= Len(url) => url[e] \in Ends

LEMMA BeforeEnd ==
  ASSUME NEW url, NEW e, HostEnds(url, e)
  PROVE  LET plain == Before(url, {"?", "#"})
         IN  /\ plain \in Text /\ Len(plain) \in e - 1 .. Len(url)
             /\ \A i \in 1 .. Len(plain) : plain[i] = url[i]
             /\ e <= Len(plain) => url[e] = "/"
<1> DEFINE plain == Before(url, {"?", "#"})
           at == {i \in DOMAIN url : url[i] \in {"?", "#"}}
<1>1. /\ url \in Text /\ Len(url) \in Nat /\ DOMAIN url = 1 .. Len(url) /\ e \in 5 .. Len(url) + 1
      /\ \A i \in 1 .. e - 1 : url[i] \notin {"?", "#"}
  <2>1. url \in Text /\ Len(url) \in Nat /\ DOMAIN url = 1 .. Len(url) /\ e \in 5 .. Len(url) + 1
    BY TextIs DEF HostEnds
  <2>2. ASSUME NEW i \in 1 .. e - 1 PROVE url[i] \notin {"?", "#"}
    <3>1. i = 1 \/ i = 2 \/ i = 3 \/ i \in 4 .. e - 1
      BY <2>1
    <3> QED
      BY <3>1 DEF HostEnds, Ends
  <2> QED
    BY <2>1, <2>2
<1>2. CASE at = {}
  <2>1. plain = url
    BY <1>2 DEF Before
  <2>2. e <= Len(url) => url[e] = "/"
    <3> SUFFICES ASSUME e <= Len(url) PROVE url[e] = "/"
      OBVIOUS
    <3>1. e \in DOMAIN url
      BY <1>1
    <3> QED
      BY <1>2, <3>1 DEF HostEnds, Ends
  <2>3. Len(url) \in e - 1 .. Len(url)
    BY <1>1
  <2> QED
    BY <1>1, <2>1, <2>2, <2>3
<1>3. CASE at # {}
  <2> DEFINE q == Earliest(at)
  <2>1. q \in at /\ plain = SubSeq(url, 1, q - 1)
    <3>1. at \subseteq Nat
      BY <1>1
    <3>2. q \in at
      <4> HIDE DEF at
      <4> QED
        BY <1>3, <3>1, EarliestIs
    <3> QED
      BY <1>3, <3>2 DEF Before
  <2>2. q \in 1 .. Len(url) /\ url[q] \in {"?", "#"}
    BY <1>1, <2>1
  <2> HIDE DEF q, at, plain
  <2>3. q \in e .. Len(url)
    <3>1. q \notin 1 .. e - 1
      BY <1>1, <2>2
    <3> QED
      BY <1>1, <2>2, <3>1
  <2> DEFINE n == q - 1
  <2>4. n \in e - 1 .. Len(url) /\ n \in 0 .. Len(url) /\ 1 \in Nat \ {0} /\ n \in Nat \ {0}
    BY <1>1, <2>3
  <2> HIDE DEF n
  <2>5. /\ SubSeq(url, 1, n) \in Text
        /\ Len(SubSeq(url, 1, n)) = IF 1 <= n THEN n - 1 + 1 ELSE 0
        /\ \A i \in 1 .. n - 1 + 1 : SubSeq(url, 1, n)[i] = url[1 + i - 1]
    BY <1>1, <2>4, TextCut
  <2>6. plain = SubSeq(url, 1, n)
    BY <2>1 DEF n
  <2>7. plain \in Text /\ Len(plain) = n /\ \A i \in 1..n : plain[i] = url[i]
    BY <2>4, <2>5, <2>6
  <2>8. e <= n => url[e] = "/"
    <3> SUFFICES ASSUME e <= n PROVE url[e] = "/"
      OBVIOUS
    <3>1. url[e] \in Ends /\ e \in 1 .. Len(url) /\ e < q
      BY <1>1, <2>3, <2>4 DEF HostEnds, n
    <3>2. url[e] \notin {"?", "#"}
      <4>1. ASSUME e \in at PROVE FALSE
        <5>1. at \subseteq Nat
          BY <1>1 DEF at
        <5>2. q <= e
          BY <1>3, <4>1, <5>1, EarliestIs DEF q
        <5> QED
          BY <1>1, <2>3, <3>1, <5>2
      <4> QED
        BY <1>1, <3>1, <4>1 DEF at
    <3> QED
      BY <3>1, <3>2 DEF Ends
  <2> QED
    BY <2>4, <2>7, <2>8 DEF plain
<1> QED
  BY <1>2, <1>3

LEMMA Counts ==
  ASSUME NEW a \in Int, NEW b \in Int, NEW c \in Int, a # b, a # c, b # c
  PROVE  Cardinality({a}) = 1 /\ Cardinality({a, b}) = 2 /\ Cardinality({a, b, c}) = 3
<1>1. Cardinality({a}) = 1 /\ IsFiniteSet({a})
  BY FS_Singleton
<1>2. Cardinality({a} \cup {b}) = 2 /\ IsFiniteSet({a} \cup {b})
  <2>1. b \notin {a}
    OBVIOUS
  <2> QED
    BY <1>1, <2>1, FS_AddElement
<1>3. Cardinality(({a} \cup {b}) \cup {c}) = 3
  <2>1. c \notin {a} \cup {b}
    OBVIOUS
  <2> QED
    BY <1>2, <2>1, FS_AddElement
<1>4. {a} \cup {b} = {a, b} /\ ({a} \cup {b}) \cup {c} = {a, b, c}
  OBVIOUS
<1> QED
  BY <1>1, <1>2, <1>3, <1>4

LEMMA OriginIs ==
  ASSUME NEW url, NEW e, HostEnds(url, e)
  PROVE  parse_origin(url) = WithPort(SubSeq(url, 1, e - 1))
<1> DEFINE plain == Before(url, {"?", "#"})
           n == Len(plain)
           thirds == {i \in Slashes(plain) : Cardinality({j \in Slashes(plain) : j <= i}) = 3}
<1>1. /\ plain \in Text /\ n \in e - 1 .. Len(url)
      /\ \A i \in 1..n : plain[i] = url[i]
      /\ e <= n => url[e] = "/"
  BY BeforeEnd
<1>2. url \in Text /\ Len(url) \in Nat /\ e \in 5 .. Len(url) + 1
  BY TextIs DEF HostEnds
<1> HIDE DEF plain
<1>3. Slashes(plain) = {i \in 1..n : url[i] = "/"}
  BY <1>1, TextIs DEF Slashes
<1> HIDE DEF n
<1>4. /\ 2 \in Slashes(plain) /\ 3 \in Slashes(plain)
      /\ \A i \in Slashes(plain) : i \in 2..n /\ (i < e => i = 2 \/ i = 3)
  <2>1. url[2] = "/" /\ url[3] = "/" /\ url[1] # "/" /\ \A i \in 4 .. e - 1 : url[i] # "/"
    BY DEF HostEnds, Ends
  <2>2. 2 \in 1..n /\ 3 \in 1..n
    BY <1>1, <1>2
  <2>3. ASSUME NEW i \in Slashes(plain) PROVE i \in 2..n /\ (i < e => i = 2 \/ i = 3)
    <3>1. i \in 1..n /\ url[i] = "/"
      BY <1>3
    <3>2. i # 1 /\ ~(i \in 4 .. e - 1)
      BY <2>1, <3>1
    <3> QED
      BY <1>1, <1>2, <3>1, <3>2
  <2> QED
    BY <1>3, <2>1, <2>2, <2>3
<1>5. ASSUME NEW i \in thirds PROVE i >= e
  <2>1. i \in Slashes(plain) /\ Cardinality({j \in Slashes(plain) : j <= i}) = 3
    OBVIOUS
  <2> HIDE DEF thirds
  <2>2. SUFFICES ASSUME i < e PROVE FALSE
    BY <1>2, <1>4, <2>1
  <2>3. CASE i = 2
    <3>1. {j \in Slashes(plain) : j <= i} = {2}
      BY <1>4, <2>3
    <3>2. Cardinality({2}) = 1
      BY FS_Singleton
    <3> QED
      BY <2>1, <3>1, <3>2
  <2>4. CASE i = 3
    <3>1. \A j \in Slashes(plain) : j <= 3 => j = 2 \/ j = 3
      BY <1>4, <1>2
    <3>2. {j \in Slashes(plain) : j <= i} = {2, 3}
      BY <1>4, <2>4, <3>1
    <3>3. Cardinality({2, 3}) = 2
      <4>1. 2 \in Int /\ 3 \in Int /\ 4 \in Int /\ 2 # 3 /\ 2 # 4 /\ 3 # 4
        OBVIOUS
      <4> QED
        BY <4>1, Counts
    <3> QED
      BY <2>1, <3>2, <3>3
  <2> QED
    BY <1>4, <2>1, <2>2, <2>3, <2>4
<1>6. ThirdSlash(plain) = IF thirds = {} THEN 0 ELSE Earliest(thirds)
  BY DEF ThirdSlash
<1>7. CASE e <= n
  <2>1. e \in Slashes(plain) /\ {j \in Slashes(plain) : j <= e} = {2, 3, e}
    <3>1. e \in 1..n /\ url[e] = "/"
      BY <1>1, <1>2, <1>7
    <3>2. e \in Slashes(plain)
      BY <1>3, <3>1
    <3>3. \A j \in Slashes(plain) : j <= e => j = 2 \/ j = 3 \/ j = e
      BY <1>2, <1>4
    <3>4. 2 <= e /\ 3 <= e /\ e <= e
      BY <1>2
    <3> QED
      BY <1>4, <3>2, <3>3, <3>4
  <2>2. Cardinality({2, 3, e}) = 3
    <3>1. 2 \in Int /\ 3 \in Int /\ e \in Int /\ 2 # 3 /\ 2 # e /\ 3 # e
      BY <1>2
    <3> QED
      BY <3>1, Counts
  <2>3. e \in thirds /\ thirds \subseteq Nat
    BY <1>4, <2>1, <2>2
  <2>4. Earliest(thirds) \in thirds /\ Earliest(thirds) <= e
    <3> HIDE DEF thirds
    <3> QED
      BY <2>3, EarliestIs
  <2> HIDE DEF thirds
  <2>5. ThirdSlash(plain) = e
    <3>1. Earliest(thirds) >= e /\ Earliest(thirds) \in Nat
      BY <1>5, <2>3, <2>4
    <3>2. thirds # {}
      BY <2>3
    <3> QED
      BY <1>2, <1>6, <2>4, <3>1, <3>2
  <2>6. parse_origin(url) = WithPort(SubSeq(plain, 1, e - 1))
    <3>1. e # 0
      BY <1>2
    <3> QED
      BY <2>5, <3>1, Zenon DEF parse_origin, UpToPath, plain
  <2>7. SubSeq(plain, 1, e - 1) = SubSeq(url, 1, e - 1)
    <3> DEFINE m == e - 1
    <3>1. m \in 0..n /\ m \in 0 .. Len(url) /\ m \in Nat \ {0} /\ 1 \in Nat \ {0} /\ m <= n
      BY <1>1, <1>2, <1>7
    <3> HIDE DEF m
    <3>2. /\ SubSeq(url, 1, m) \in Text /\ SubSeq(plain, 1, m) \in Text
          /\ Len(SubSeq(url, 1, m)) = IF 1 <= m THEN m - 1 + 1 ELSE 0
          /\ Len(SubSeq(plain, 1, m)) = IF 1 <= m THEN m - 1 + 1 ELSE 0
          /\ \A i \in 1 .. m - 1 + 1 : SubSeq(url, 1, m)[i] = url[1 + i - 1]
          /\ \A i \in 1 .. m - 1 + 1 : SubSeq(plain, 1, m)[i] = plain[1 + i - 1]
      BY <1>1, <1>2, <3>1, TextCut DEF n
    <3>3. /\ Len(SubSeq(plain, 1, m)) = m /\ Len(SubSeq(url, 1, m)) = m
          /\ \A i \in 1..m : SubSeq(plain, 1, m)[i] = SubSeq(url, 1, m)[i]
      BY <1>1, <1>2, <3>1, <3>2
    <3>4. SubSeq(plain, 1, m) = SubSeq(url, 1, m)
      BY <3>2, <3>3, TextEqual
    <3> QED
      BY <3>4 DEF m
  <2> QED
    BY <2>6, <2>7
<1>8. CASE e > n
  <2>1. n = e - 1
    BY <1>1, <1>2, <1>8
  <2>2. thirds = {}
    <3>1. \A i \in thirds : i \in 2..n
      BY <1>4
    <3> HIDE DEF thirds
    <3> QED
      BY <1>1, <1>2, <1>5, <1>8, <3>1
  <2>3. parse_origin(url) = WithPort(plain)
    BY <1>6, <2>2, Zenon DEF parse_origin, UpToPath, plain
  <2>4. plain = SubSeq(url, 1, n)
    <3>1. n \in 0 .. Len(url) /\ n \in Nat \ {0} /\ 1 \in Nat \ {0}
      BY <1>1, <1>2, <2>1
    <3>2. /\ SubSeq(url, 1, n) \in Text
          /\ Len(SubSeq(url, 1, n)) = IF 1 <= n THEN n - 1 + 1 ELSE 0
          /\ \A i \in 1 .. n - 1 + 1 : SubSeq(url, 1, n)[i] = url[1 + i - 1]
      BY <1>2, <3>1, TextCut
    <3>3. Len(SubSeq(url, 1, n)) = n /\ \A i \in 1..n : SubSeq(url, 1, n)[i] = plain[i]
      BY <1>1, <3>1, <3>2
    <3> QED
      BY <1>1, <3>2, <3>3, TextEqual DEF n
  <2> QED
    BY <2>1, <2>3, <2>4
<1> QED
  BY <1>1, <1>2, <1>7, <1>8

LEMMA PageHost == \E e : HostEnds(Page, e) /\ (e = Len(Page) + 1 => ~EndsInSlash(Page))
<1> DEFINE T == {i \in 5 .. Len(Page) + 1 : i = Len(Page) + 1 \/ Page[i] \in Ends}
           e == Earliest(T)
<1>1. Page \in Text /\ Len(Page) \in Nat
  BY PageIs, TextIs
<1>2. /\ Len(Page) >= 4 /\ Page[1] \notin Ends /\ Page[2] = "/" /\ Page[3] = "/"
      /\ Page[4] \notin Ends
  BY PageAssumption DEF PageAssumption, Ends
<1>3. Len(Page) + 1 \in T /\ T \subseteq Nat
  BY <1>1, <1>2
<1>4. e \in T /\ \A i \in T : e <= i
  <2> HIDE DEF T
  <2> QED
    BY <1>3, EarliestIs
<1> HIDE DEF e
<1>5. e \in 5 .. Len(Page) + 1 /\ (e = Len(Page) + 1 \/ Page[e] \in Ends)
  BY <1>4
<1>6. ASSUME NEW i \in 4 .. e - 1 PROVE Page[i] \notin Ends
  <2>1. CASE i = 4
    BY <1>2, <2>1
  <2>2. CASE i # 4
    <3>1. i \in 5 .. Len(Page) + 1 /\ ~(e <= i)
      BY <1>1, <1>5, <2>2
    <3>2. i \notin T
      <4> HIDE DEF T
      <4> QED
        BY <1>4, <3>1
    <3> QED
      BY <3>1, <3>2
  <2> QED
    BY <2>1, <2>2
<1> HIDE DEF T
<1>7. HostEnds(Page, e)
  BY <1>1, <1>2, <1>5, <1>6 DEF HostEnds
<1>8. ASSUME e = Len(Page) + 1 PROVE ~EndsInSlash(Page)
  <2>1. Len(Page) \in 4 .. e - 1
    BY <1>1, <1>2, <1>8
  <2>2. Page[Len(Page)] \notin Ends
    BY <1>6, <2>1
  <2> QED
    BY <2>2 DEF EndsInSlash, Last, Ends
<1> QED
  BY <1>7, <1>8

LEMMA AppendedIs ==
  ASSUME NEW file \in Text
  PROVE  LET url == path_append(Page, file)
         IN  /\ url \in Text /\ Len(url) >= Len(Page)
             /\ \A i \in 1 .. Len(Page) : url[i] = Page[i]
             /\ ~EndsInSlash(Page) => Len(url) > Len(Page) /\ url[Len(Page) + 1] = "/"
<1> DEFINE kept == {i \in DOMAIN file : file[i] # "/"}
           tail == IF kept = {} THEN <<>> ELSE SubSeq(file, Earliest(kept), Len(file))
           head == IF EndsInSlash(Page) THEN Page ELSE Append(Page, "/")
           url == path_append(Page, file)
<1>1. url = head \o tail
  BY Zenon DEF path_append
<1>2. tail \in Text
  <2>1. CASE kept = {}
    BY <2>1, EmptySeq DEF Text
  <2>2. CASE kept # {}
    <3>1. kept \subseteq 1 .. Len(file) /\ Len(file) \in Nat
      BY TextIs
    <3>2. Earliest(kept) \in kept
      <4>1. kept \subseteq Nat
        BY <3>1
      <4> HIDE DEF kept
      <4> QED
        BY <2>2, <4>1, EarliestIs
    <3> HIDE DEF kept
    <3>3. Earliest(kept) \in 1 .. Len(file)
      BY <3>1, <3>2
    <3>4. Earliest(kept) \in Nat \ {0} /\ Len(file) \in 0 .. Len(file)
      BY <3>1, <3>3
    <3>5. SubSeq(file, Earliest(kept), Len(file)) \in Text
      BY <3>4, CutIsText
    <3> QED
      BY <2>2, <3>5
  <2> QED
    BY <2>1, <2>2
<1>3. Page \in Text /\ Len(Page) \in Nat /\ "/" \in DOMAIN Byte
  <2>1. Page \in Text /\ Len(Page) >= 4 /\ Page[2] = "/"
    BY PageIs, PageAssumption DEF PageAssumption
  <2>2. Len(Page) \in Nat /\ \A i \in 1 .. Len(Page) : Page[i] \in DOMAIN Byte
    BY <2>1, TextIs
  <2>3. 2 \in 1 .. Len(Page)
    BY <2>1, <2>2
  <2> QED
    BY <2>1, <2>2, <2>3
<1> HIDE DEF tail, kept
<1>4. /\ head \in Text /\ Len(head) >= Len(Page) /\ Len(head) \in Nat
      /\ \A i \in 1 .. Len(Page) : head[i] = Page[i]
      /\ ~EndsInSlash(Page) => Len(head) = Len(Page) + 1 /\ head[Len(Page) + 1] = "/"
  <2>1. /\ Append(Page, "/") \in Text
        /\ Len(Append(Page, "/")) = Len(Page) + 1
        /\ \A i \in 1 .. Len(Page) : Append(Page, "/")[i] = Page[i]
        /\ Append(Page, "/")[Len(Page) + 1] = "/"
    BY <1>3, AppendProperties DEF Text
  <2> QED
    BY <1>3, <2>1
<1> HIDE DEF head
<1>5. /\ url \in Text /\ Len(url) = Len(head) + Len(tail)
      /\ \A i \in 1 .. Len(head) + Len(tail) :
           url[i] = IF i <= Len(head) THEN head[i] ELSE tail[i - Len(head)]
  BY <1>1, <1>2, <1>4, ConcatProperties DEF Text
<1>6. Len(tail) \in Nat
  BY <1>2, TextIs
<1> HIDE DEF url
<1>7. Len(url) >= Len(head) /\ \A i \in 1 .. Len(head) : url[i] = head[i]
  BY <1>4, <1>5, <1>6
<1>8. \A i \in 1 .. Len(Page) : url[i] = Page[i]
  BY <1>3, <1>4, <1>7
<1>9. ASSUME ~EndsInSlash(Page) PROVE Len(url) > Len(Page) /\ url[Len(Page) + 1] = "/"
  <2>1. Len(Page) + 1 \in 1 .. Len(head) /\ Len(head) = Len(Page) + 1 /\ head[Len(Page) + 1] = "/"
    BY <1>3, <1>4, <1>9
  <2>2. Len(url) \in Nat
    BY <1>4, <1>5, <1>6
  <2> QED
    BY <1>3, <1>7, <2>1, <2>2
<1>10. Len(url) >= Len(Page)
  BY <1>3, <1>4, <1>5, <1>6
<1> QED
  BY <1>5, <1>8, <1>9, <1>10 DEF url

(* What a page's relative links lead to is of the page's own origin.          *)
LEMMA SameOrigin ==
  ASSUME NEW file \in Text
  PROVE  ~is_cross_origin(Page, path_append(Page, file))
<1> DEFINE url == path_append(Page, file)
<1>1. PICK e : HostEnds(Page, e) /\ (e = Len(Page) + 1 => ~EndsInSlash(Page))
  BY PageHost
<1>2. /\ url \in Text /\ Len(url) >= Len(Page)
      /\ \A i \in 1 .. Len(Page) : url[i] = Page[i]
      /\ ~EndsInSlash(Page) => Len(url) > Len(Page) /\ url[Len(Page) + 1] = "/"
  BY AppendedIs
<1> HIDE DEF url
<1>3. /\ Page \in Text /\ Len(Page) \in Nat /\ Len(Page) >= 4 /\ e \in 5 .. Len(Page) + 1
      /\ Page[1] \notin Ends /\ Page[2] = "/" /\ Page[3] = "/"
      /\ \A i \in 4 .. e - 1 : Page[i] \notin Ends
      /\ e <= Len(Page) => Page[e] \in Ends
  BY <1>1, TextIs DEF HostEnds
<1>4. Len(url) \in Nat
  BY <1>2, TextIs
<1>5. \A i \in 1 .. e - 1 : url[i] = Page[i]
  BY <1>2, <1>3
<1>6. HostEnds(url, e)
  <2>1. e \in 5 .. Len(url) + 1 /\ Len(url) >= 4
    BY <1>2, <1>3, <1>4
  <2>2. url[1] = Page[1] /\ url[2] = Page[2] /\ url[3] = Page[3]
    <3>1. 1 \in 1 .. Len(Page) /\ 2 \in 1 .. Len(Page) /\ 3 \in 1 .. Len(Page)
      BY <1>3
    <3> QED
      BY <1>2, <3>1
  <2>3. \A i \in 4 .. e - 1 : url[i] \notin Ends
    BY <1>3, <1>5
  <2>4. ASSUME e <= Len(url) PROVE url[e] \in Ends
    <3>1. CASE e <= Len(Page)
      BY <1>2, <1>3, <3>1
    <3>2. CASE e = Len(Page) + 1
      BY <1>1, <1>2, <3>2 DEF Ends
    <3> QED
      BY <1>3, <3>1, <3>2
  <2> QED
    BY <1>2, <1>3, <2>1, <2>2, <2>3, <2>4 DEF HostEnds
<1>7. SubSeq(url, 1, e - 1) = SubSeq(Page, 1, e - 1)
  <2> DEFINE m == e - 1
  <2>1. m \in 0 .. Len(url) /\ m \in 0 .. Len(Page) /\ m \in Nat \ {0} /\ 1 \in Nat \ {0}
    BY <1>2, <1>3, <1>4
  <2>2. \A i \in 1..m : url[i] = Page[i]
    BY <1>5
  <2> HIDE DEF m
  <2>3. /\ SubSeq(url, 1, m) \in Text /\ SubSeq(Page, 1, m) \in Text
        /\ Len(SubSeq(url, 1, m)) = IF 1 <= m THEN m - 1 + 1 ELSE 0
        /\ Len(SubSeq(Page, 1, m)) = IF 1 <= m THEN m - 1 + 1 ELSE 0
        /\ \A i \in 1 .. m - 1 + 1 : SubSeq(url, 1, m)[i] = url[1 + i - 1]
        /\ \A i \in 1 .. m - 1 + 1 : SubSeq(Page, 1, m)[i] = Page[1 + i - 1]
    BY <1>2, <1>3, <2>1, TextCut
  <2>4. /\ Len(SubSeq(Page, 1, m)) = m /\ Len(SubSeq(url, 1, m)) = m
        /\ \A i \in 1..m : SubSeq(url, 1, m)[i] = SubSeq(Page, 1, m)[i]
    BY <2>1, <2>2, <2>3
  <2>5. SubSeq(url, 1, m) = SubSeq(Page, 1, m)
    BY <2>3, <2>4, TextEqual
  <2> QED
    BY <2>5 DEF m
<1>8. parse_origin(url) = WithPort(SubSeq(url, 1, e - 1))
  BY <1>6, OriginIs
<1>9. parse_origin(Page) = WithPort(SubSeq(Page, 1, e - 1))
  BY <1>1, OriginIs
<1> QED
  BY <1>7, <1>8, <1>9 DEF is_cross_origin, url

-----------------------------------------------------------------------------
(* Names and cache paths of external links. *)

LEMMA ComponentIs ==
  ASSUME NEW text \in Text, text \notin {<<>>, <<".">>, <<".", ".">>},
         \A i \in DOMAIN text : text[i] # "/"
  PROVE  Component(text)
BY DEF Component, Slashes

LEMMA FlatIs ==
  /\ Underscore # "/" /\ Underscore # "."
  /\ \A char : Flat(char) # "/"
  /\ Flat("http:") # "." /\ Flat("https:") # "."
<1>1. Underscore # "/" /\ Underscore # "."
  BY Zenon DEF Underscore
<1>2. \A char : Flat(char) # "/"
  BY <1>1 DEF Flat
<1>3. Flat("http:") # "." /\ Flat("https:") # "."
  BY DEF Flat
<1> QED
  BY <1>1, <1>2, <1>3

LEMMA CachePathIs ==
  ASSUME NEW url \in Text, is_external_url(url), is_cross_origin(Page, url)
  PROVE  Component(url_to_cache_path(url))
<1> DEFINE whole == curl_easy_unescape(url)
           path == [i \in DOMAIN whole |-> IF PairedDot(whole, i) THEN Underscore ELSE Flat(whole[i])]
<1>1. url_to_cache_path(url) = path
  BY Zenon DEF url_to_cache_path
<1>2. /\ DOMAIN whole = 1 .. Len(url) /\ Len(url) \in Nat /\ 1 \in 1 .. Len(url)
      /\ whole[1] \in {"http:", "https:"}
  <2>1. DOMAIN url = 1 .. Len(url) /\ Len(url) \in Nat /\ Len(url) # 0
    BY TextIs DEF is_external_url
  <2>2. url[1] \in {"http:", "https:"} /\ DOMAIN Unescape \cap {"http:", "https:"} = {}
    BY NamesAssumption DEF is_external_url, NamesAssumption
  <2>3. 1 \in 1 .. Len(url)
    BY <2>1
  <2>4. whole[1] = Decoded(url[1]) /\ DOMAIN whole = 1 .. Len(url)
    BY <2>1, <2>3 DEF curl_easy_unescape
  <2>5. Decoded(url[1]) = url[1]
    BY <2>2 DEF Decoded
  <2> QED
    BY <2>1, <2>2, <2>3, <2>4, <2>5
<1> HIDE DEF whole
<1>3. path[1] # "." /\ DOMAIN path = 1 .. Len(url)
  BY <1>2, FlatIs
<1>4. ASSUME NEW i \in DOMAIN path PROVE path[i] # "/"
  BY FlatIs
<1> HIDE DEF path
<1>5. path # <<>> /\ path # <<".">> /\ path # <<".", ".">>
  BY <1>2, <1>3
<1> QED
  BY <1>1, <1>4, <1>5 DEF Component, Slashes

\* A link that is listed: of the page's origin, or with a name and a cache path
\* that are one component each.
Clean(link) ==
  /\ link.type # "LINK_INVALID"
  /\ \/ link.f_url = <<>> /\ link.linkpath \in Text
     \/ /\ link.f_url # <<>> /\ Component(link.linkname)
        /\ is_cross_origin(Page, link.f_url) => Component(url_to_cache_path(link.f_url))

LEMMA LinksClean ==
  ASSUME NEW href \in Text, HrefLink(href).type # "LINK_INVALID"
  PROVE  Clean(LinkOf(HrefLink(href)))
<1>1. CASE External(href)
  <2> DEFINE base == Basename(href, ThirdSlash(href))
             name == SlashesReplaced(curl_easy_unescape(base))
             made == LinkOf(HrefLink(href))
  <2>1. name \in Text /\ \A i \in DOMAIN name : name[i] # "/"
    <3>1. base \in Text
      BY BasenameIs
    <3> HIDE DEF base
    <3>2. curl_easy_unescape(base) \in Text
      BY <3>1, UnescapedIs
    <3> QED
      BY <3>2, ReplacedIs
  <2>2. HrefLink(href) = ExternalLink(href, name)
    BY <1>1, Zenon DEF HrefLink, external_url_to_filename
  <2> HIDE DEF name
  <2>3. /\ HrefLink(href).name = name /\ HrefLink(href).f_url = href
        /\ name \notin {<<>>, <<".">>, <<".", ".">>}
    BY <2>2 DEF ExternalLink
  <2>4. WithoutSlash(name) = name
    <3>1. Len(name) \in DOMAIN name
      <4>1. Len(name) \in Nat /\ DOMAIN name = 1 .. Len(name) /\ Len(name) # 0
        BY <2>1, <2>3, TextIs
      <4> QED
        BY <4>1
    <3>2. name[Len(name)] # "/"
      BY <2>1, <3>1
    <3> QED
      BY <3>2 DEF WithoutSlash, EndsInSlash, Last
  <2>5. Component(name)
    BY <2>1, <2>3, ComponentIs
  <2>6. made.linkname = name /\ made.type = HrefLink(href).type /\ made.f_url = href
    BY <2>3, <2>4 DEF LinkOf, Link_new
  <2>7. is_external_url(href) /\ href # <<>>
    BY <1>1 DEF External, is_external_url
  <2>8. is_cross_origin(Page, href) => Component(url_to_cache_path(href))
    BY <2>7, CachePathIs
  <2> HIDE DEF made
  <2> QED
    BY <2>5, <2>6, <2>7, <2>8 DEF Clean, made
<1>2. CASE ~External(href)
  <2> DEFINE name == Truncated(make_link_relative(Page, href))
             made == LinkOf(HrefLink(href))
  <2>1. name \in Text
    BY MadeRelativeIs, TruncatedIs
  <2>2. HrefLink(href) = RelativeLink(name)
    BY <1>2, Zenon DEF HrefLink
  <2> HIDE DEF name
  <2>3. HrefLink(href).name = name /\ HrefLink(href).f_url = <<>>
    BY <2>2 DEF RelativeLink
  <2>4. made.linkpath = name /\ made.f_url = <<>> /\ made.type = HrefLink(href).type
    BY <2>3 DEF LinkOf, Link_new
  <2> HIDE DEF made
  <2> QED
    BY <2>1, <2>4 DEF Clean, made
<1> QED
  BY <1>1, <1>2

\* Every link that is listed and valid has its name after "." and "..".
LEMMA ReaddirIs ==
  ASSUME NEW N \in Nat, NEW links, DOMAIN links = 1..N,
         \A i \in 1..N : links[i].type # "LINK_INVALID", NEW i \in 1..N
  PROVE  fs_readdir(links)[i + 2] = links[i].linkname
<1> DEFINE valid == {k \in DOMAIN links : links[k].type # "LINK_INVALID"}
           Nth(n) == CHOOSE k \in valid : Cardinality({j \in valid : j <= k}) = n
           names == [n \in 1 .. Cardinality(valid) |-> links[Nth(n)].linkname]
           S == {<<".">>, <<".", ".">>} \cup {links[k].linkname : k \in 1..N}
<1>1. valid = 1..N
  OBVIOUS
<1>2. \A k \in 0..N : Cardinality(1..k) = k
  <2> SUFFICES ASSUME NEW k \in 0..N PROVE Cardinality(1..k) = k
    OBVIOUS
  <2>1. 1 \in Int /\ k \in Int
    OBVIOUS
  <2>2. Cardinality(1..k) = IF 1 > k THEN 0 ELSE k - 1 + 1
    BY <2>1, FS_Interval
  <2> QED
    BY <2>2
<1>3. \A k \in 1..N : Cardinality({j \in valid : j <= k}) = k
  <2> SUFFICES ASSUME NEW k \in 1..N PROVE Cardinality({j \in valid : j <= k}) = k
    OBVIOUS
  <2> HIDE DEF valid
  <2>1. {j \in valid : j <= k} = 1..k
    BY <1>1
  <2>2. k \in 0..N
    OBVIOUS
  <2>3. Cardinality(1..k) = k
    BY <1>2, <2>2
  <2> QED
    BY <2>1, <2>3, Zenon
<1>4. Cardinality(valid) = N
  <2> HIDE DEF valid
  <2> QED
    BY <1>1, <1>2
<1> HIDE DEF valid
<1>5. \A n \in 1..N : Nth(n) = n
  BY <1>1, <1>3
<1>6. names = [n \in 1..N |-> links[n].linkname]
  <2> HIDE DEF Nth
  <2> QED
    BY <1>4, <1>5
<1> HIDE DEF names, Nth
<1>7. fs_readdir(links) = <<<<".">>, <<".", ".">>>> \o names
  BY Zenon DEF fs_readdir, names, Nth, valid
<1>8. names \in Seq(S) /\ Len(names) = N /\ names[i] = links[i].linkname
  BY <1>6
<1>9. <<<<".">>, <<".", ".">>>> \in Seq(S) /\ Len(<<<<".">>, <<".", ".">>>>) = 2
  <2>1. <<".">> \in S /\ <<".", ".">> \in S
    OBVIOUS
  <2> HIDE DEF S
  <2> QED
    BY <2>1
<1> DEFINE dots == <<<<".">>, <<".", ".">>>>
<1> HIDE DEF S, dots
<1>10. \A k \in 1 .. Len(dots) + Len(names) :
         (dots \o names)[k] = IF k <= Len(dots) THEN dots[k] ELSE names[k - Len(dots)]
  <2>1. dots \in Seq(S)
    BY <1>9 DEF dots
  <2> QED
    BY <1>8, <2>1, ConcatProperties
<1>11. Len(dots) = 2
  BY <1>9 DEF dots
<1>12. (dots \o names)[i + 2] = names[i]
  <2>1. i + 2 \in 1 .. Len(dots) + Len(names) /\ ~(i + 2 <= Len(dots)) /\ i + 2 - Len(dots) = i
    BY <1>8, <1>11
  <2> QED
    BY <1>10, <2>1
<1> QED
  BY <1>7, <1>8, <1>12 DEF dots

(* What fs_readdir lists an external link as, and what url_to_cache_path      *)
(* names its directory in the cache, is one component of a path: not empty,   *)
(* not "." or "..", without a slash, whatever the href escapes.               *)
THEOREM PageNamesClean ==
  ASSUME NEW hrefs \in Seq(Text)
  PROVE  ComponentsOnly(LinkTable_fill(LinkTable_parse_html(hrefs)))
<1> DEFINE links == LinkTable_parse_html(hrefs)
           filled == LinkTable_fill(links)
           N == Len(links)
<1>1. /\ N \in Nat /\ DOMAIN links = 1..N
      /\ \A i \in 1..N : links[i] \in LinkSet(HrefLinks(hrefs))
  <2>1. PICK acc \in Listings(HrefLinks(hrefs)) : links = acc.links
    BY Parsed
  <2>2. links \in Seq(LinkSet(HrefLinks(hrefs)))
    BY <2>1, ListingIn
  <2> HIDE DEF links
  <2> QED
    BY <2>2, LenProperties, ElementOfSeq
<1> HIDE DEF links, N
<1>2. ASSUME NEW i \in 1..N
      PROVE  Clean(links[i]) /\ \E l : links[i] = LinkOf(l)
  <2>1. PICK n \in Valid(HrefLinks(hrefs)) : links[i] = LinkOf(HrefLinks(hrefs)[n])
    BY <1>1 DEF LinkSet
  <2>2. n \in 1 .. Len(hrefs) /\ HrefLinks(hrefs)[n] = HrefLink(hrefs[n])
    BY HrefsAre DEF Valid
  <2>3. hrefs[n] \in Text /\ HrefLink(hrefs[n]).type # "LINK_INVALID"
    <3>1. hrefs[n] \in Text
      BY <2>2, ElementOfSeq
    <3>2. HrefLinks(hrefs)[n].type # "LINK_INVALID"
      BY DEF Valid
    <3> QED
      BY <2>2, <3>1, <3>2
  <2>4. Clean(LinkOf(HrefLink(hrefs[n])))
    BY <2>3, LinksClean
  <2> QED
    BY <2>1, <2>2, <2>4
<1>3. DOMAIN filled = 1..N
  BY <1>1 DEF LinkTable_fill
<1>4. ASSUME NEW i \in 1..N
      PROVE  /\ filled[i].type # "LINK_INVALID"
             /\ is_cross_origin(Page, filled[i].f_url) =>
                  Component(filled[i].linkname) /\ Component(url_to_cache_path(filled[i].f_url))
  <2>1. Clean(links[i])
    BY <1>2
  <2>2. PICK l : links[i] = LinkOf(l)
    BY <1>2
  <2>3. CASE links[i].f_url # <<>>
    <3>1. filled[i] = links[i]
      BY <1>1, <2>3 DEF LinkTable_fill
    <3> QED
      BY <2>1, <2>3, <3>1 DEF Clean
  <2>4. CASE links[i].f_url = <<>>
    <3>1. filled[i] = [links[i] EXCEPT !.f_url = path_append(Page, links[i].linkpath),
                                       !.linkname = curl_easy_unescape(@)]
      BY <1>1, <2>4 DEF LinkTable_fill
    <3>2. filled[i].f_url = path_append(Page, links[i].linkpath) /\ filled[i].type = links[i].type
      <4> HIDE DEF filled
      <4> QED
        BY <2>2, <3>1 DEF LinkOf, Link_new
    <3>3. links[i].linkpath \in Text /\ links[i].type # "LINK_INVALID"
      BY <2>1, <2>4 DEF Clean
    <3>4. ~is_cross_origin(Page, filled[i].f_url)
      BY <3>2, <3>3, SameOrigin
    <3> QED
      BY <3>2, <3>3, <3>4
  <2> QED
    BY <2>3, <2>4
<1> HIDE DEF filled
<1>5. \A i \in 1..N : fs_readdir(filled)[i + 2] = filled[i].linkname
  BY <1>1, <1>3, <1>4, ReaddirIs
<1>6. ComponentsOnly(filled)
  BY <1>3, <1>4, <1>5 DEF ComponentsOnly
<1> QED
  BY <1>6 DEF filled, links

(* External links have names of one component (ExternalNamesClean): for any   *)
(* number of any hrefs.                                                       *)
THEOREM PagesNamesClean == Spec => []ExternalNamesClean
<1>1. Init => PagesOK
  BY DEF Init, PagesOK
<1>2. PagesOK => ExternalNamesClean
  <2> SUFFICES ASSUME PagesOK, input # None, input.kind = "page" PROVE ExternalNamesClean
    BY DEF ExternalNamesClean
  <2>1. ComponentsOnly(LinkTable_fill(LinkTable_parse_html(input.hrefs)))
    BY PageNamesClean DEF PagesOK
  <2> QED
    BY <2>1, Zenon DEF ExternalNamesClean
<1> QED
  BY <1>1, <1>2, PagesOKStep, PTL DEF Spec

-----------------------------------------------------------------------------
(* Elements. *)

\* After each of the first k attributes.
Reads(f, new, attr, k) ==
  f = [n \in 0..k |-> IF n = 0 THEN new ELSE Attribute(f[n - 1], attr[n])]

LEMMA ReadsExist ==
  ASSUME NEW new, NEW attr, NEW end \in Nat
  PROVE  \E f : Reads(f, new, attr, end)
<1> DEFINE S == {k \in 0..end : \E f : Reads(f, new, attr, k)}
<1>1. 0 \in S
  <2>1. Reads([n \in 0..0 |-> new], new, attr, 0)
    BY DEF Reads
  <2> QED
    BY <2>1
<1>2. ASSUME NEW k \in 1..end, k - 1 \in S PROVE k \in S
  <2>1. PICK f : Reads(f, new, attr, k - 1)
    BY <1>2
  <2> DEFINE next == Attribute(f[k - 1], attr[k])
             g == [n \in 0..k |-> IF n = k THEN next ELSE f[n]]
  <2>2. ASSUME NEW n \in 0..k
        PROVE  g[n] = IF n = 0 THEN new ELSE Attribute(g[n - 1], attr[n])
    <3>1. CASE n = k
      <4>1. n # 0 /\ g[n - 1] = f[n - 1]
        BY <3>1
      <4> QED
        BY <3>1, <4>1
    <3>2. CASE n # k
      <4>1. n \in 0 .. k - 1 /\ g[n] = f[n] /\ (n # 0 => g[n - 1] = f[n - 1])
        BY <3>2
      <4>2. f[n] = IF n = 0 THEN new ELSE Attribute(f[n - 1], attr[n])
        BY <2>1, <4>1 DEF Reads
      <4> QED
        BY <4>1, <4>2
    <3> QED
      BY <3>1, <3>2
  <2>3. Reads(g, new, attr, k)
    <3>1. g = [n \in 0..k |-> g[n]]
      OBVIOUS
    <3> HIDE DEF g
    <3> QED
      BY <2>2, <3>1 DEF Reads
  <2> QED
    BY <2>3
<1>3. 0..end \subseteq S
  <2> HIDE DEF S
  <2> QED
    BY <1>1, <1>2, Upwards
<1> QED
  BY <1>3

LEMMA ReadIs ==
  ASSUME NEW new, NEW attr, Len(attr) \in Nat
  PROVE  \E f : Reads(f, new, attr, Len(attr)) /\ AttributesRead(new, attr) = f[Len(attr)]
<1> DEFINE link[n \in 0 .. Len(attr)] ==
             IF n = 0 THEN new ELSE Attribute(link[n - 1], attr[n])
<1>1. \E f : Reads(f, new, attr, Len(attr))
  BY ReadsExist
<1>2. Reads(link, new, attr, Len(attr))
  BY <1>1 DEF Reads
<1>3. AttributesRead(new, attr) = link[Len(attr)]
  BY DEF AttributesRead
<1> HIDE DEF link
<1> QED
  BY <1>2, <1>3

Fields == {"id", "linkname", "type", "depth", "content_length", "f_url", "next_table"}

\* What one attribute does to each field.
Changed(link, a, made) ==
  /\ DOMAIN made = Fields
  /\ made.id = IF a.key = "id" THEN a.value ELSE link.id
  /\ made.linkname = IF a.key = "path" THEN LastComponent(a.value)
                     ELSE IF a.key \in {"title", "name"} /\ link.linkname = None
                     THEN a.value ELSE link.linkname
  /\ made.type = IF a.key = "isDir" /\ a.value = <<"false">> THEN "LINK_FILE" ELSE link.type
  /\ made.depth = link.depth /\ made.next_table = link.next_table
  /\ made.f_url = link.f_url

LEMMA AttributeIs ==
  ASSUME NEW link, DOMAIN link = Fields, NEW a
  PROVE  Changed(link, a, Attribute(link, a))
<1> DEFINE made == Attribute(link, a)
<1> SUFFICES Changed(link, a, made)
  OBVIOUS
<1>1. CASE a.key = "id"
  <2>1. made = [link EXCEPT !.id = a.value]
    BY <1>1 DEF Attribute
  <2> HIDE DEF made
  <2> QED
    BY <1>1, <2>1 DEF Fields, Changed
<1>2. CASE a.key = "path"
  <2>1. made = [link EXCEPT !.linkname = LastComponent(a.value)]
    BY <1>2 DEF Attribute
  <2> HIDE DEF made
  <2> QED
    BY <1>2, <2>1 DEF Fields, Changed
<1>3. CASE a.key \in {"title", "name"} /\ link.linkname = None
  <2>1. made = [link EXCEPT !.linkname = a.value]
    BY <1>3 DEF Attribute
  <2> HIDE DEF made
  <2> QED
    BY <1>3, <2>1 DEF Fields, Changed
<1>4. CASE a.key = "isDir" /\ a.value = <<"false">>
  <2>1. made = [link EXCEPT !.type = "LINK_FILE"]
    BY <1>4 DEF Attribute
  <2> HIDE DEF made
  <2> QED
    BY <1>4, <2>1 DEF Fields, Changed
<1>5. CASE a.key = "size"
  <2>1. made = [link EXCEPT !.content_length = a.value]
    BY <1>5 DEF Attribute
  <2> HIDE DEF made
  <2> QED
    BY <1>5, <2>1 DEF Fields, Changed
<1>6. CASE /\ a.key \notin {"id", "path", "size"}
           /\ ~(a.key \in {"title", "name"} /\ link.linkname = None)
           /\ ~(a.key = "isDir" /\ a.value = <<"false">>)
  <2>1. made = link
    BY <1>6 DEF Attribute
  <2> HIDE DEF made
  <2> QED
    BY <1>6, <2>1 DEF Fields, Changed
<1> HIDE DEF made
<1> QED
  BY <1>1, <1>2, <1>3, <1>4, <1>5, <1>6

\* Values of the characters X that name no key twice, as XML has them.
Distinct(attr) == \A i, j \in 1 .. Len(attr) : attr[i].key = attr[j].key => i = j
AttrsOK(attr, X) ==
  /\ Len(attr) \in Nat /\ DOMAIN attr = 1 .. Len(attr)
  /\ \A i \in 1 .. Len(attr) : attr[i].value \in Seq(X)
  /\ Distinct(attr)

NameKeys == {"path", "title", "name"}

LEMMA LastIs ==
  ASSUME NEW X, NEW text \in Seq(X)
  PROVE  LastComponent(text) \in Seq(X) /\ Slashes(LastComponent(text)) = {}
<1> DEFINE slashes == {i \in DOMAIN text : text[i] = "/"}
           start == IF slashes = {} THEN 0 ELSE CHOOSE i \in slashes : \A j \in slashes : j <= i
           N == Len(text)
           part == SubSeq(text, start + 1, N)
<1>1. N \in Nat /\ DOMAIN text = 1..N
  BY LenProperties
<1>2. start \in 0..N /\ \A j \in slashes : j <= start
  <2>1. CASE slashes = {}
    BY <1>1, <2>1
  <2>2. CASE slashes # {}
    <3>1. slashes \subseteq 0..N
      BY <1>1
    <3>2. start = Latest(slashes)
      BY <2>2 DEF Latest
    <3> HIDE DEF start, slashes
    <3>3. Latest(slashes) \in slashes /\ \A j \in slashes : j <= Latest(slashes)
      BY <1>1, <2>2, <3>1, LatestIs
    <3> QED
      BY <3>1, <3>2, <3>3
  <2> QED
    BY <2>1, <2>2
<1> HIDE DEF start
<1>3. part \in Seq(X) /\ Len(part) \in 0 .. N /\ \A i \in 1 .. Len(part) : part[i] = text[start + i] /\ start + i \in 1..N
  <2>1. start + 1 \in Nat \ {0} /\ N \in 0..N
    BY <1>1, <1>2
  <2>2. /\ part \in Seq(X)
        /\ Len(part) = IF start + 1 <= N THEN N - (start + 1) + 1 ELSE 0
        /\ \A i \in 1 .. N - (start + 1) + 1 : part[i] = text[start + 1 + i - 1]
    BY <1>1, <1>2, <2>1, SubSeqProperties
  <2> HIDE DEF part, N
  <2>3. Len(part) = N - start
    BY <1>1, <1>2, <2>2
  <2>4. ASSUME NEW i \in 1 .. N - start PROVE part[i] = text[start + i] /\ start + i \in 1..N
    <3>1. i \in 1 .. N - (start + 1) + 1 /\ start + 1 + i - 1 = start + i
      BY <1>1, <1>2
    <3>2. part[i] = text[start + 1 + i - 1]
      BY <2>2, <3>1
    <3> QED
      BY <1>1, <1>2, <3>1, <3>2
  <2>5. N - start \in 0..N
    BY <1>1, <1>2
  <2> QED
    BY <2>2, <2>3, <2>4, <2>5
<1>4. LastComponent(text) = part
  BY DEF LastComponent, start
<1>5. Slashes(part) = {}
  <2>1. DOMAIN part = 1 .. Len(part)
    <3> HIDE DEF part
    <3> QED
      BY <1>3, LenProperties
  <2>2. ASSUME NEW i \in 1 .. Len(part), part[i] = "/" PROVE FALSE
    <3>1. start + i \in slashes
      BY <1>1, <1>3, <2>2
    <3>2. start + i <= start /\ i \in Nat \ {0}
      BY <1>2, <1>3, <3>1
    <3> QED
      BY <1>2, <3>2
  <2> HIDE DEF part
  <2> QED
    BY <2>1, <2>2 DEF Slashes
<1> QED
  BY <1>3, <1>4, <1>5

\* The link after the first n attributes.
ReadSoFar(new, attr, n, link) ==
  /\ DOMAIN link = Fields
  /\ \A i \in 1..n : attr[i].key = "id" => link.id = attr[i].value
  /\ (\A i \in 1..n : attr[i].key # "id") => link.id = None
  /\ \A i \in 1..n : attr[i].key = "path" => link.linkname = LastComponent(attr[i].value)
  /\ (\A j \in 1..n : attr[j].key # "path") =>
       \A i \in 1..n :
         (/\ attr[i].key \in NameKeys
          /\ \A j \in 1 .. i - 1 : attr[j].key \notin NameKeys)
         => link.linkname = attr[i].value
  /\ (\A i \in 1..n : attr[i].key \notin NameKeys) => link.linkname = None
  /\ (\E i \in 1..n : attr[i].key \in NameKeys) => link.linkname # None
  /\ link.type = IF \E i \in 1..n : attr[i].key = "isDir" /\ attr[i].value = <<"false">>
                 THEN "LINK_FILE" ELSE new.type
  /\ link.depth = new.depth /\ link.next_table = new.next_table /\ link.f_url = new.f_url

LEMMA ReadsOne ==
  ASSUME NEW X, None \notin Seq(X), NEW attr, AttrsOK(attr, X), NEW new,
         NEW n \in 1 .. Len(attr), NEW link, ReadSoFar(new, attr, n - 1, link),
         NEW made, made = Attribute(link, attr[n])
  PROVE  ReadSoFar(new, attr, n, made)
<1> DEFINE a == attr[n]
<1>1. /\ DOMAIN made = Fields
      /\ made.id = IF a.key = "id" THEN a.value ELSE link.id
      /\ made.linkname = IF a.key = "path" THEN LastComponent(a.value)
                         ELSE IF a.key \in {"title", "name"} /\ link.linkname = None
                         THEN a.value ELSE link.linkname
      /\ made.type = IF a.key = "isDir" /\ a.value = <<"false">> THEN "LINK_FILE" ELSE link.type
      /\ made.depth = link.depth /\ made.next_table = link.next_table
      /\ made.f_url = link.f_url
  <2>1. DOMAIN link = Fields
    BY DEF ReadSoFar
  <2>2. Changed(link, a, Attribute(link, a))
    BY <2>1, AttributeIs
  <2>3. Changed(link, a, made)
    BY <2>2
  <2> HIDE DEF a
  <2> QED
    BY <2>3 DEF Changed
<1>2. /\ Len(attr) \in Nat /\ n \in Nat \ {0}
      /\ \A i \in 1..n : i = n \/ i \in 1 .. n - 1
      /\ \A i \in 1 .. n - 1 : i \in 1..n /\ i # n
      /\ \A i \in 1..n : i \in 1 .. Len(attr)
  BY DEF AttrsOK
<1>3. a.value \in Seq(X) /\ a.value # None /\ LastComponent(a.value) # None
  <2>1. a.value \in Seq(X)
    BY DEF AttrsOK
  <2>2. LastComponent(a.value) \in Seq(X)
    BY <2>1, LastIs
  <2> QED
    BY <2>1, <2>2
<1>4. \A i \in 1 .. n - 1 : attr[i].key # a.key
  BY <1>2 DEF AttrsOK, Distinct
<1>5. ASSUME NEW i \in 1..n, attr[i].key = "id" PROVE made.id = attr[i].value
  <2>1. CASE i = n
    BY <1>1, <1>5, <2>1
  <2>2. CASE i \in 1 .. n - 1
    <3>1. link.id = attr[i].value
      BY <1>5, <2>2 DEF ReadSoFar
    <3> QED
      BY <1>1, <1>4, <1>5, <2>2, <3>1
  <2> QED
    BY <1>2, <2>1, <2>2
<1>6. ASSUME \A i \in 1..n : attr[i].key # "id" PROVE made.id = None
  <2>1. link.id = None
    BY <1>2, <1>6 DEF ReadSoFar
  <2> QED
    BY <1>1, <1>2, <1>6, <2>1
<1>7. ASSUME NEW i \in 1..n, attr[i].key = "path"
      PROVE  made.linkname = LastComponent(attr[i].value)
  <2>1. CASE i = n
    BY <1>1, <1>7, <2>1
  <2>2. CASE i \in 1 .. n - 1
    <3>1. link.linkname = LastComponent(attr[i].value)
      BY <1>7, <2>2 DEF ReadSoFar
    <3>2. link.linkname # None
      BY <1>7, <2>2 DEF ReadSoFar, NameKeys
    <3>3. a.key # "path"
      BY <1>4, <1>7, <2>2
    <3> QED
      BY <1>1, <3>1, <3>2, <3>3
  <2> QED
    BY <1>2, <2>1, <2>2
<1>8. ASSUME \A j \in 1..n : attr[j].key # "path", NEW i \in 1..n,
             attr[i].key \in NameKeys, \A j \in 1 .. i - 1 : attr[j].key \notin NameKeys
      PROVE  made.linkname = attr[i].value
  <2>1. CASE i = n
    <3>1. link.linkname = None
      BY <1>8, <2>1 DEF ReadSoFar
    <3>2. a.key \in {"title", "name"}
      BY <1>8, <2>1 DEF NameKeys
    <3> QED
      BY <1>1, <2>1, <3>1, <3>2
  <2>2. CASE i \in 1 .. n - 1
    <3>1. link.linkname = attr[i].value
      BY <1>2, <1>8, <2>2 DEF ReadSoFar
    <3>2. link.linkname # None
      BY <1>8, <2>2 DEF ReadSoFar
    <3>3. a.key # "path"
      BY <1>2, <1>8
    <3> QED
      BY <1>1, <3>1, <3>2, <3>3
  <2> QED
    BY <1>2, <2>1, <2>2
<1>9. ASSUME \A i \in 1..n : attr[i].key \notin NameKeys PROVE made.linkname = None
  <2>1. link.linkname = None
    BY <1>2, <1>9 DEF ReadSoFar
  <2>2. a.key \notin {"path", "title", "name"}
    BY <1>2, <1>9 DEF NameKeys
  <2> QED
    BY <1>1, <2>1, <2>2
<1>10. ASSUME NEW i \in 1..n, attr[i].key \in NameKeys PROVE made.linkname # None
  <2>1. CASE a.key \in NameKeys
    BY <1>1, <1>3, <2>1 DEF NameKeys
  <2>2. CASE a.key \notin NameKeys
    <3>1. i \in 1 .. n - 1
      BY <1>2, <1>10, <2>2
    <3>2. link.linkname # None
      BY <1>10, <3>1 DEF ReadSoFar
    <3> QED
      BY <1>1, <2>2, <3>2 DEF NameKeys
  <2> QED
    BY <2>1, <2>2
<1>11. made.type = IF \E i \in 1..n : attr[i].key = "isDir" /\ attr[i].value = <<"false">>
                   THEN "LINK_FILE" ELSE new.type
  <2>1. link.type = IF \E i \in 1 .. n - 1 : attr[i].key = "isDir" /\ attr[i].value = <<"false">>
                    THEN "LINK_FILE" ELSE new.type
    BY DEF ReadSoFar
  <2>2. CASE a.key = "isDir" /\ a.value = <<"false">>
    <3>1. n \in 1..n
      BY <1>2
    <3> QED
      BY <1>1, <2>2, <3>1
  <2>3. CASE ~(a.key = "isDir" /\ a.value = <<"false">>)
    <3>1. (\E i \in 1..n : attr[i].key = "isDir" /\ attr[i].value = <<"false">>)
            <=> (\E i \in 1 .. n - 1 : attr[i].key = "isDir" /\ attr[i].value = <<"false">>)
      BY <1>2, <2>3
    <3>2. made.type = link.type
      BY <1>1, <2>3
    <3> QED
      BY <2>1, <3>1, <3>2
  <2> QED
    BY <2>2, <2>3
<1>12. made.depth = new.depth /\ made.next_table = new.next_table /\ made.f_url = new.f_url
  BY <1>1 DEF ReadSoFar
<1>13. DOMAIN made = Fields
  BY <1>1
<1> HIDE DEF a
<1> QED
  BY <1>5, <1>6, <1>7, <1>8, <1>9, <1>10, <1>11, <1>12, <1>13 DEF ReadSoFar

Untouched(new) ==
  DOMAIN new = Fields /\ new.id = None /\ new.linkname = None

LEMMA ReadsAll ==
  ASSUME NEW X, None \notin Seq(X), NEW attr, AttrsOK(attr, X), NEW new, Untouched(new)
  PROVE  ReadSoFar(new, attr, Len(attr), AttributesRead(new, attr))
<1> DEFINE end == Len(attr)
<1>1. end \in Nat
  BY DEF AttrsOK
<1>2. PICK f : Reads(f, new, attr, end) /\ AttributesRead(new, attr) = f[end]
  BY <1>1, ReadIs
<1>3. \A n \in 0..end : f[n] = IF n = 0 THEN new ELSE Attribute(f[n - 1], attr[n])
  BY <1>2 DEF Reads
<1> DEFINE S == {n \in 0..end : ReadSoFar(new, attr, n, f[n])}
<1>4. 0 \in S
  <2>1. f[0] = new /\ 0 \in 0..end
    BY <1>1, <1>3
  <2>2. ReadSoFar(new, attr, 0, new)
    BY DEF ReadSoFar, Untouched
  <2> QED
    BY <2>1, <2>2
<1>5. ASSUME NEW n \in 1..end, n - 1 \in S PROVE n \in S
  <2>1. n \in 0..end /\ n # 0
    BY <1>1
  <2>2. f[n] = Attribute(f[n - 1], attr[n])
    BY <1>3, <2>1
  <2>3. ReadSoFar(new, attr, n - 1, f[n - 1])
    BY <1>5
  <2>4. ReadSoFar(new, attr, n, f[n])
    BY <2>2, <2>3, ReadsOne
  <2> QED
    BY <2>1, <2>4
<1>6. 0..end \subseteq S
  <2> HIDE DEF S, end
  <2> QED
    BY <1>1, <1>4, <1>5, Upwards
<1>7. end \in 0..end
  BY <1>1
<1> QED
  BY <1>2, <1>6, <1>7

\* What is set has one value.
LEMMA ValueIs ==
  ASSUME NEW X, NEW attr, AttrsOK(attr, X), NEW key
  PROVE  /\ Set(attr, key) <=> \E i \in 1 .. Len(attr) : attr[i].key = key
         /\ \A i \in 1 .. Len(attr) : attr[i].key = key => Value(attr, key) = attr[i].value
<1>1. DOMAIN attr = 1 .. Len(attr)
  BY DEF AttrsOK
<1>2. ASSUME NEW i \in 1 .. Len(attr), attr[i].key = key PROVE Value(attr, key) = attr[i].value
  <2> DEFINE j == CHOOSE j \in DOMAIN attr : attr[j].key = key
  <2>1. j \in 1 .. Len(attr) /\ attr[j].key = key
    BY <1>1, <1>2
  <2> HIDE DEF j
  <2>2. j = i
    BY <1>2, <2>1 DEF AttrsOK, Distinct
  <2> QED
    BY <2>2 DEF Value, j
<1> QED
  BY <1>1, <1>2 DEF Set

\* The elements that become links, and which link they become.
Listable(elem, depth, attr) ==
  /\ elem \in Members(depth) /\ Set(attr, "id")
  /\ \E i \in DOMAIN attr : attr[i].key \in NameKeys

Made(elem, depth, attr) ==
  LET link == AttributesRead(NewLink(elem, depth), attr)
  IN  IF link.type = "LINK_FILE"
      THEN [link EXCEPT !.f_url = sonic_stream_link(link.id)] ELSE link

LEMMA NewIs ==
  ASSUME NEW elem, NEW depth \in Id3Depths, NEW new, new = NewLink(elem, depth)
  PROVE  /\ Untouched(new) /\ new.next_table = NoTable
         /\ new.type # None <=> elem \in Members(depth)
         /\ elem \in Members(depth) =>
              new.type = IF elem = "song" THEN "LINK_FILE" ELSE "LINK_DIR"
         /\ elem = "album" /\ elem \in Members(depth) => new.depth = 4
<1>1. /\ None \notin {"LINK_DIR", "LINK_FILE"}
      /\ depth = 0 \/ depth = 3 \/ depth = 4
  BY NoneAssumption DEF NoneAssumption, Id3Depths
<1>2. Untouched(new) /\ new.next_table = NoTable
  BY DEF NewLink, Blank, Untouched, Fields
<1>3. new.type = IF elem = "child" \/ (elem = "artist" /\ depth # 3) THEN "LINK_DIR"
                 ELSE IF elem = "album" /\ depth = 3 THEN "LINK_DIR"
                 ELSE IF elem = "song" /\ depth = 4 THEN "LINK_FILE" ELSE None
  BY DEF NewLink, Blank
<1>4. elem = "album" /\ depth = 3 => new.depth = 4
  BY DEF NewLink, Blank
<1>5. elem \in Members(depth) <=> \/ elem = "child"
                                  \/ elem = "artist" /\ depth # 3
                                  \/ elem = "album" /\ depth = 3
                                  \/ elem = "song" /\ depth = 4
  <2>1. CASE depth = 0
    <3>1. Members(depth) = {"child", "artist"}
      BY <2>1 DEF Members
    <3> QED
      BY <2>1, <3>1
  <2>2. CASE depth = 3
    <3>1. Members(depth) = {"child", "album"}
      BY <2>2 DEF Members
    <3> QED
      BY <2>2, <3>1
  <2>3. CASE depth = 4
    <3>1. Members(depth) = {"child", "artist", "song"}
      BY <2>3 DEF Members
    <3> QED
      BY <2>3, <3>1
  <2> QED
    BY <1>1, <2>1, <2>2, <2>3
<1>6. new.type # None <=> elem \in Members(depth)
  BY <1>1, <1>3, <1>5
<1>7. elem \in Members(depth) => new.type = IF elem = "song" THEN "LINK_FILE" ELSE "LINK_DIR"
  BY <1>1, <1>3, <1>5
<1>8. elem = "album" /\ elem \in Members(depth) => new.depth = 4
  BY <1>1, <1>4, <1>5
<1> QED
  BY <1>2, <1>6, <1>7, <1>8

\* What one event does to the table.
LEMMA ParsesElement ==
  ASSUME NEW X, None \notin Seq(X), NEW depth \in Id3Depths, NEW table, table.depth = depth,
         NEW event, event.kind # "end", AttrsOK(event.attr, X)
  PROVE  XML_parser_general(table, event) =
           IF Listable(event.elem, depth, event.attr)
           THEN LinkTable_add(table, Made(event.elem, depth, event.attr)) ELSE table
<1> DEFINE new == NewLink(event.elem, depth)
           attr == event.attr
           link == AttributesRead(new, attr)
<1>1. /\ Untouched(new)
      /\ new.type # None <=> event.elem \in Members(depth)
  BY NewIs
<1>2. ReadSoFar(new, attr, Len(attr), link)
  <2>1. AttrsOK(attr, X)
    OBVIOUS
  <2> HIDE DEF new, attr
  <2> QED
    BY <1>1, <2>1, ReadsAll
<1>3. DOMAIN attr = 1 .. Len(attr) /\ \A i \in 1 .. Len(attr) : attr[i].value \in Seq(X)
  BY DEF AttrsOK
<1>4. Set(attr, "id") <=> link.id # None
  <2> HIDE DEF attr, link
  <2>1. \A i \in 1 .. Len(attr) : attr[i].key = "id" => link.id = attr[i].value /\ link.id # None
    BY <1>2, <1>3 DEF ReadSoFar
  <2>2. (\A i \in 1 .. Len(attr) : attr[i].key # "id") => link.id = None
    BY <1>2 DEF ReadSoFar
  <2> QED
    BY <1>3, <2>1, <2>2 DEF Set
<1>5. (\E i \in DOMAIN attr : attr[i].key \in NameKeys) <=> link.linkname # None
  <2> HIDE DEF attr, link
  <2>1. (\A i \in 1 .. Len(attr) : attr[i].key \notin NameKeys) => link.linkname = None
    BY <1>2 DEF ReadSoFar
  <2>2. (\E i \in 1 .. Len(attr) : attr[i].key \in NameKeys) => link.linkname # None
    BY <1>2 DEF ReadSoFar
  <2> QED
    BY <1>3, <2>1, <2>2
<1>6. Listable(event.elem, depth, attr) <=>
        new.type # None /\ link.id # None /\ link.linkname # None
  <2> HIDE DEF new, link
  <2> QED
    BY <1>1, <1>4, <1>5 DEF Listable
<1>7. XML_parser_general(table, event) =
        IF new.type = None \/ link.linkname = None \/ link.id = None THEN table
        ELSE IF link.type = "LINK_FILE"
        THEN LinkTable_add(table, [link EXCEPT !.f_url = sonic_stream_link(link.id)])
        ELSE LinkTable_add(table, link)
  BY DEF XML_parser_general
<1>8. Made(event.elem, depth, attr) =
        IF link.type = "LINK_FILE"
        THEN [link EXCEPT !.f_url = sonic_stream_link(link.id)] ELSE link
  BY DEF Made
<1> DEFINE made == Made(event.elem, depth, attr)
<1>9. CASE link.type = "LINK_FILE"
  <2>1. made = [link EXCEPT !.f_url = sonic_stream_link(link.id)]
    BY <1>8, <1>9
  <2> HIDE DEF new, link, made, attr
  <2> QED
    BY <1>6, <1>7, <1>9, <2>1, Zenon DEF made, attr
<1>10. CASE link.type # "LINK_FILE"
  <2>1. made = link
    BY <1>8, <1>10
  <2> HIDE DEF new, link, made, attr
  <2> QED
    BY <1>6, <1>7, <1>10, <2>1, Zenon DEF made, attr
<1> QED
  BY <1>9, <1>10

\* A name without a slash, that is not ".".
LEMMA SanitisedIs ==
  ASSUME NEW X, NEW name \in Seq(X)
  PROVE  Slashes(SanitisedName(name)) = {} /\ SanitisedName(name) # <<".">>
<1> DEFINE replaced == [i \in DOMAIN name |-> IF name[i] = "/" THEN "-" ELSE name[i]]
<1>1. CASE name = <<".">>
  BY <1>1 DEF SanitisedName, Slashes
<1>2. CASE name = <<"/">>
  BY <1>2 DEF SanitisedName, Slashes
<1>3. CASE name # <<".">> /\ name # <<"/">>
  <2>1. SanitisedName(name) = replaced
    BY <1>3 DEF SanitisedName
  <2>2. Slashes(replaced) = {}
    BY DEF Slashes
  <2>3. ASSUME replaced = <<".">> PROVE FALSE
    <3>1. DOMAIN name = 1 .. Len(name) /\ Len(name) \in Nat
      BY LenProperties
    <3>2. Len(<<".">>) = 1 /\ DOMAIN <<".">> = 1..1 /\ <<".">>[1] = "."
      OBVIOUS
    <3>3. DOMAIN name = DOMAIN <<".">>
      BY <2>3
    <3>4. 1 \in DOMAIN name /\ Len(name) = 1
      <4>1. \A i : i \in 1 .. Len(name) <=> i \in 1..1
        BY <3>1, <3>2, <3>3
      <4>2. 1 \in 1 .. Len(name)
        BY <4>1
      <4>3. Len(name) \in 1..1
        BY <3>1, <4>1, <4>2
      <4> QED
        <5>1. 1 \in DOMAIN name
          BY <3>1, <4>2, Zenon
        <5>2. Len(name) = 1
          BY <4>3
        <5> QED
          BY <5>1, <5>2
    <3>5. name[1] = "."
      BY <2>3, <3>2, <3>4
    <3>6. name = <<".">>
      BY <3>4, <3>5
    <3> QED
      BY <1>3, <3>6
  <2> QED
    BY <2>1, <2>2, <2>3
<1> QED
  BY <1>1, <1>2, <1>3

\* The attribute an element's name comes from: its path, or the first name.
Source(attr) ==
  LET named == {i \in DOMAIN attr : attr[i].key \in NameKeys}
      paths == {i \in named : attr[i].key = "path"}
  IN  IF paths # {} THEN Earliest(paths) ELSE Earliest(named)

\* What a link has of its element.
Told(link, elem, attr) ==
  /\ LET name == attr[Source(attr)].value
     IN  link.linkname = IF attr[Source(attr)].key = "path" THEN LastComponent(name) ELSE name
  /\ link.type = "LINK_FILE" <=>
       \/ elem = "song"
       \/ \E i \in DOMAIN attr : attr[i].key = "isDir" /\ attr[i].value = <<"false">>
  /\ link.id = Value(attr, "id")
  /\ link.type = "LINK_FILE" => link.f_url = sonic_stream_link(link.id)
  /\ elem = "album" => link.depth = 4
  /\ link.next_table = NoTable /\ DOMAIN link = Fields

LEMMA SourceIs ==
  ASSUME NEW X, NEW attr, AttrsOK(attr, X), \E i \in DOMAIN attr : attr[i].key \in NameKeys,
         NEW i, i = Source(attr)
  PROVE  /\ i \in 1 .. Len(attr) /\ attr[i].key \in NameKeys
         /\ \/ attr[i].key = "path"
            \/ /\ \A j \in 1 .. Len(attr) : attr[j].key # "path"
               /\ \A j \in 1 .. i - 1 : attr[j].key \notin NameKeys
<1> DEFINE named == {j \in DOMAIN attr : attr[j].key \in NameKeys}
           paths == {j \in named : attr[j].key = "path"}
<1>1. DOMAIN attr = 1 .. Len(attr) /\ Len(attr) \in Nat
  BY DEF AttrsOK
<1>2. named \subseteq Nat /\ paths \subseteq Nat /\ named # {}
  BY <1>1
<1>3. i = IF paths # {} THEN Earliest(paths) ELSE Earliest(named)
  BY DEF Source
<1>4. CASE paths # {}
  <2> HIDE DEF paths
  <2>1. i \in paths
    BY <1>2, <1>3, <1>4, EarliestIs
  <2> QED
    BY <1>1, <2>1 DEF paths
<1>5. CASE paths = {}
  <2>1. i \in named /\ \A j \in named : i <= j
    <3> HIDE DEF named, paths
    <3>1. i = Earliest(named)
      BY <1>3, <1>5
    <3>2. Earliest(named) \in named /\ \A j \in named : Earliest(named) <= j
      BY <1>2, EarliestIs
    <3> QED
      BY <3>1, <3>2
  <2>2. \A j \in 1 .. Len(attr) : attr[j].key # "path"
    BY <1>1, <1>5 DEF NameKeys
  <2>3. ASSUME NEW j \in 1 .. i - 1, attr[j].key \in NameKeys PROVE FALSE
    <3>1. i \in 1 .. Len(attr)
      BY <1>1, <2>1
    <3>2. j \in named
      BY <1>1, <2>3, <3>1
    <3>3. i <= j
      BY <2>1, <3>2
    <3> QED
      BY <3>1, <3>3
  <2> QED
    BY <1>1, <2>1, <2>2, <2>3
<1> QED
  BY <1>4, <1>5

LEMMA MadeTold ==
  ASSUME NEW X, None \notin Seq(X), NEW elem, NEW depth \in Id3Depths, NEW attr,
         AttrsOK(attr, X), Listable(elem, depth, attr)
  PROVE  Told(Made(elem, depth, attr), elem, attr)
<1> DEFINE new == NewLink(elem, depth)
           link == AttributesRead(new, attr)
           made == Made(elem, depth, attr)
<1>1. /\ Untouched(new) /\ new.next_table = NoTable /\ elem \in Members(depth)
      /\ new.type = IF elem = "song" THEN "LINK_FILE" ELSE "LINK_DIR"
      /\ elem = "album" => new.depth = 4
  <2>1. elem \in Members(depth)
    BY DEF Listable
  <2> QED
    BY <2>1, NewIs
<1> HIDE DEF new
<1>2. ReadSoFar(new, attr, Len(attr), link)
  BY <1>1, ReadsAll
<1> HIDE DEF link
<1>3. DOMAIN attr = 1 .. Len(attr)
  BY DEF AttrsOK
<1>4. link.id = Value(attr, "id")
  <2>1. PICK i \in 1 .. Len(attr) : attr[i].key = "id"
    BY ValueIs DEF Listable
  <2>2. link.id = attr[i].value
    BY <1>2, <2>1 DEF ReadSoFar
  <2>3. Value(attr, "id") = attr[i].value
    BY <2>1, ValueIs
  <2> QED
    BY <2>2, <2>3
<1> DEFINE at == Source(attr)
<1>5. /\ at \in 1 .. Len(attr) /\ attr[at].key \in NameKeys
      /\ \/ attr[at].key = "path"
         \/ /\ \A j \in 1 .. Len(attr) : attr[j].key # "path"
            /\ \A j \in 1 .. at - 1 : attr[j].key \notin NameKeys
  <2>1. \E i \in DOMAIN attr : attr[i].key \in NameKeys
    BY DEF Listable
  <2> QED
    BY <2>1, SourceIs
<1> HIDE DEF at
<1>6. link.linkname = IF attr[at].key = "path" THEN LastComponent(attr[at].value)
                      ELSE attr[at].value
  <2>1. CASE attr[at].key = "path"
    BY <1>2, <1>5, <2>1 DEF ReadSoFar
  <2>2. CASE attr[at].key # "path"
    BY <1>2, <1>5, <2>2 DEF ReadSoFar
  <2> QED
    BY <2>1, <2>2
<1>7. link.type = "LINK_FILE" <=>
        \/ elem = "song"
        \/ \E i \in DOMAIN attr : attr[i].key = "isDir" /\ attr[i].value = <<"false">>
  <2>1. link.type = IF \E i \in 1 .. Len(attr) : attr[i].key = "isDir" /\ attr[i].value = <<"false">>
                    THEN "LINK_FILE" ELSE new.type
    BY <1>2 DEF ReadSoFar
  <2> QED
    BY <1>1, <1>3, <2>1
<1>8. /\ link.next_table = NoTable /\ DOMAIN link = Fields
      /\ elem = "album" => link.depth = 4
  BY <1>1, <1>2 DEF ReadSoFar
<1>9. made = IF link.type = "LINK_FILE"
             THEN [link EXCEPT !.f_url = sonic_stream_link(link.id)] ELSE link
  BY DEF Made, link, new
<1> HIDE DEF made
<1>10. /\ made.linkname = link.linkname /\ made.type = link.type /\ made.id = link.id
       /\ made.depth = link.depth /\ made.next_table = link.next_table
       /\ DOMAIN made = Fields
       /\ link.type = "LINK_FILE" => made.f_url = sonic_stream_link(link.id)
  <2>1. CASE link.type = "LINK_FILE"
    <3>1. made = [link EXCEPT !.f_url = sonic_stream_link(link.id)]
      BY <1>9, <2>1
    <3> QED
      BY <1>8, <3>1 DEF Fields
  <2>2. CASE link.type # "LINK_FILE"
    <3>1. made = link
      BY <1>9, <2>2
    <3> QED
      BY <1>8, <2>2, <3>1
  <2> QED
    BY <2>1, <2>2
<1>11. Told(made, elem, attr)
  <2>1. /\ made.linkname = IF attr[at].key = "path" THEN LastComponent(attr[at].value)
                           ELSE attr[at].value
        /\ made.id = Value(attr, "id")
        /\ made.next_table = NoTable /\ DOMAIN made = Fields
        /\ elem = "album" => made.depth = 4
    BY <1>4, <1>6, <1>8, <1>10
  <2>2. made.type = "LINK_FILE" <=>
          \/ elem = "song"
          \/ \E i \in DOMAIN attr : attr[i].key = "isDir" /\ attr[i].value = <<"false">>
    BY <1>7, <1>10
  <2>3. made.type = "LINK_FILE" => made.f_url = sonic_stream_link(made.id)
    BY <1>10
  <2> QED
    BY <2>1, <2>2, <2>3 DEF Told, at
<1> QED
  BY <1>11 DEF made

-----------------------------------------------------------------------------
(* What is collected on the way through a sequence. *)

PlaceGrows(S, n) ==
  /\ Place(S, n - 1) \in Nat /\ Place(S, n) \in Nat
  /\ n \in S => Place(S, n) = Place(S, n - 1) + 1
  /\ n \notin S => Place(S, n) = Place(S, n - 1)
  /\ \A i \in S : i <= n - 1 => Place(S, i) \in 1 .. Place(S, n - 1)

LEMMA PlaceIs ==
  ASSUME NEW N \in Nat, NEW S, S \subseteq 1..N, NEW n \in 1..N
  PROVE  PlaceGrows(S, n)
<1> DEFINE Below(k) == {j \in S : j <= k}
<1>1. \A k \in 0..N : IsFiniteSet(Below(k)) /\ Cardinality(Below(k)) \in Nat
  <2> SUFFICES ASSUME NEW k \in 0..N PROVE IsFiniteSet(Below(k)) /\ Cardinality(Below(k)) \in Nat
    OBVIOUS
  <2>1. 1 \in Int /\ N \in Int
    OBVIOUS
  <2>2. IsFiniteSet(1..N)
    BY <2>1, FS_Interval
  <2>3. Below(k) \subseteq 1..N
    OBVIOUS
  <2>4. IsFiniteSet(Below(k))
    BY <2>2, <2>3, FS_Subset
  <2> QED
    BY <2>4, FS_CardinalityType
<1>2. n - 1 \in 0..N /\ n \in 0..N
  OBVIOUS
<1>9. \A j \in S : j \in 1..N /\ (j <= n <=> j <= n - 1 \/ j = n)
  <2> SUFFICES ASSUME NEW j \in S PROVE j \in 1..N /\ (j <= n <=> j <= n - 1 \/ j = n)
    OBVIOUS
  <2>1. j \in 1..N
    OBVIOUS
  <2> QED
    BY <2>1
<1>3. ASSUME n \in S PROVE Cardinality(Below(n)) = Cardinality(Below(n - 1)) + 1
  <2>1. Below(n) = Below(n - 1) \cup {n}
    <3>1. n <= n
      OBVIOUS
    <3> QED
      BY <1>9, <1>3, <3>1
  <2>3. n \notin Below(n - 1)
    <3>1. ~(n <= n - 1)
      OBVIOUS
    <3> QED
      BY <3>1
  <2>2. IsFiniteSet(Below(n - 1))
    BY <1>1, <1>2
  <2> HIDE DEF Below
  <2> QED
    BY <2>1, <2>2, <2>3, FS_AddElement
<1>4. ASSUME n \notin S PROVE Cardinality(Below(n)) = Cardinality(Below(n - 1))
  <2>1. Below(n) = Below(n - 1)
    BY <1>9, <1>4
  <2> HIDE DEF Below
  <2> QED
    BY <2>1
<1>5. ASSUME NEW i \in S, i <= n - 1
      PROVE  Cardinality(Below(i)) \in 1 .. Cardinality(Below(n - 1))
  <2>1. i \in 0..N /\ i \in Below(i) /\ Below(i) \subseteq Below(n - 1)
    <3>1. i \in 1..N /\ i \in 0..N /\ i <= i
      BY <1>9, <1>5
    <3>2. ASSUME NEW j \in S, j <= i PROVE j <= n - 1
      <4>1. j \in 1..N
        BY <1>9
      <4> QED
        BY <1>5, <3>1, <3>2, <4>1
    <3> QED
      BY <1>5, <3>1, <3>2
  <2> HIDE DEF Below
  <2>2. IsFiniteSet(Below(i)) /\ IsFiniteSet(Below(n - 1)) /\ Below(i) # {}
        /\ Cardinality(Below(i)) \in Nat /\ Cardinality(Below(n - 1)) \in Nat
    BY <1>1, <1>2, <2>1
  <2>3. Cardinality(Below(i)) <= Cardinality(Below(n - 1))
    BY <2>1, <2>2, FS_Subset
  <2>4. Cardinality(Below(i)) # 0
    BY <2>2, FS_EmptySet
  <2> QED
    BY <2>2, <2>3, <2>4
<1>6. \A k : Place(S, k) = Cardinality(Below(k))
  BY DEF Place
<1> HIDE DEF Below
<1> QED
  BY <1>1, <1>2, <1>3, <1>4, <1>5, <1>6 DEF PlaceGrows

LEMMA PlaceEnds ==
  ASSUME NEW N \in Nat, NEW S, S \subseteq 1..N
  PROVE  Place(S, 0) = 0 /\ Place(S, N) = Cardinality(S)
<1>1. {j \in S : j <= 0} = {} /\ {j \in S : j <= N} = S
  <2>1. ASSUME NEW j \in S PROVE j <= N /\ ~(j <= 0)
    <3>1. j \in 1..N
      OBVIOUS
    <3> QED
      BY <3>1
  <2> QED
    BY <2>1
<1>2. Cardinality({}) = 0
  BY FS_EmptySet
<1> QED
  BY <1>1, <1>2, Zenon DEF Place

\* One of items[i] for each i of S up to n, in their order.
Collected(S, items, n, seq) ==
  /\ seq \in Seq(UNION {items[i] : i \in S}) /\ Len(seq) = Place(S, n)
  /\ \A i \in S : i <= n => seq[Place(S, i)] \in items[i]

LEMMA Collects ==
  ASSUME NEW N \in Nat, NEW S, S \subseteq 1..N, NEW n \in 1..N, NEW items, NEW seq,
         Collected(S, items, n - 1, seq)
  PROVE  /\ n \notin S => Collected(S, items, n, seq)
         /\ n \in S => \A x \in items[n] : Collected(S, items, n, Append(seq, x))
<1>1. PlaceGrows(S, n)
  BY PlaceIs
<1>2. \A i \in S : i <= n <=> i <= n - 1 \/ i = n
  <2> SUFFICES ASSUME NEW i \in S PROVE i <= n <=> i <= n - 1 \/ i = n
    OBVIOUS
  <2>1. i \in 1..N
    OBVIOUS
  <2> QED
    BY <2>1
<1>3. ASSUME n \notin S PROVE Collected(S, items, n, seq)
  <2>1. \A i \in S : i <= n => i <= n - 1
    BY <1>2, <1>3
  <2>2. Place(S, n) = Place(S, n - 1)
    BY <1>1, <1>3 DEF PlaceGrows
  <2> QED
    BY <2>1, <2>2 DEF Collected
<1>4. ASSUME n \in S, NEW x \in items[n]
      PROVE  Collected(S, items, n, Append(seq, x))
  <2> DEFINE T == UNION {items[i] : i \in S}
             more == Append(seq, x)
  <2>1. x \in T /\ seq \in Seq(T)
    BY <1>4 DEF Collected
  <2> HIDE DEF T
  <2>2. /\ more \in Seq(T) /\ Len(more) = Len(seq) + 1
        /\ \A i \in 1 .. Len(seq) : more[i] = seq[i]
        /\ more[Len(seq) + 1] = x
    BY <2>1, AppendProperties
  <2> HIDE DEF more
  <2>3. Len(seq) = Place(S, n - 1) /\ Len(seq) + 1 = Place(S, n)
    BY <1>1, <1>4 DEF PlaceGrows, Collected
  <2>4. ASSUME NEW i \in S, i <= n PROVE more[Place(S, i)] \in items[i]
    <3>1. CASE i = n
      BY <1>4, <2>2, <2>3, <3>1
    <3>2. CASE i <= n - 1
      <4>1. Place(S, i) \in 1 .. Len(seq)
        BY <1>1, <2>3, <3>2 DEF PlaceGrows
      <4>2. seq[Place(S, i)] \in items[i]
        BY <3>2 DEF Collected
      <4> QED
        BY <2>2, <4>1, <4>2
    <3> QED
      BY <1>2, <2>4, <3>1, <3>2
  <2> QED
    BY <2>2, <2>3, <2>4 DEF Collected, more, T
<1> QED
  BY <1>3, <1>4

LEMMA CollectsNone ==
  ASSUME NEW N \in Nat, NEW S, S \subseteq 1..N, NEW items
  PROVE  Collected(S, items, 0, <<>>)
<1>1. Place(S, 0) = 0
  BY PlaceEnds
<1>2. <<>> \in Seq(UNION {items[i] : i \in S}) /\ Len(<<>>) = 0
  BY EmptySeq
<1>3. \A i \in S : ~(i <= 0)
  OBVIOUS
<1> QED
  BY <1>1, <1>2, <1>3 DEF Collected

-----------------------------------------------------------------------------
(* The listing of a directory, an artist or an album. *)

Lists(f, table, doc, k) ==
  f = [n \in 0..k |-> IF n = 0 THEN table ELSE XML_parser_general(f[n - 1], doc[n])]

LEMMA ListsExist ==
  ASSUME NEW table, NEW doc, NEW end \in Nat
  PROVE  \E f : Lists(f, table, doc, end)
<1> DEFINE S == {k \in 0..end : \E f : Lists(f, table, doc, k)}
<1>1. 0 \in S
  <2>1. Lists([n \in 0..0 |-> table], table, doc, 0)
    BY DEF Lists
  <2> QED
    BY <2>1
<1>2. ASSUME NEW k \in 1..end, k - 1 \in S PROVE k \in S
  <2>1. PICK f : Lists(f, table, doc, k - 1)
    BY <1>2
  <2> DEFINE next == XML_parser_general(f[k - 1], doc[k])
             g == [n \in 0..k |-> IF n = k THEN next ELSE f[n]]
  <2>2. ASSUME NEW n \in 0..k
        PROVE  g[n] = IF n = 0 THEN table ELSE XML_parser_general(g[n - 1], doc[n])
    <3>1. CASE n = k
      <4>1. n # 0 /\ g[n - 1] = f[n - 1]
        BY <3>1
      <4> QED
        BY <3>1, <4>1
    <3>2. CASE n # k
      <4>1. n \in 0 .. k - 1 /\ g[n] = f[n] /\ (n # 0 => g[n - 1] = f[n - 1])
        BY <3>2
      <4>2. f[n] = IF n = 0 THEN table ELSE XML_parser_general(f[n - 1], doc[n])
        BY <2>1, <4>1 DEF Lists
      <4> QED
        BY <4>1, <4>2
    <3> QED
      BY <3>1, <3>2
  <2>3. Lists(g, table, doc, k)
    <3>1. g = [n \in 0..k |-> g[n]]
      OBVIOUS
    <3> HIDE DEF g
    <3> QED
      BY <2>2, <3>1 DEF Lists
  <2> QED
    BY <2>3
<1>3. 0..end \subseteq S
  <2> HIDE DEF S
  <2> QED
    BY <1>1, <1>2, Upwards
<1> QED
  BY <1>3

\* Events of an answer whose elements have values of the characters X.
DocOK(doc, X) ==
  /\ Len(doc) \in Nat /\ DOMAIN doc = 1 .. Len(doc)
  /\ \A i \in 1 .. Len(doc) : doc[i].kind # "end" => AttrsOK(doc[i].attr, X)

\* Where the elements begin that become links, and their links.
Elements(doc, depth) ==
  {i \in DOMAIN doc : doc[i].kind # "end" /\ Listable(doc[i].elem, depth, doc[i].attr)}
ElementLinks(doc, depth) ==
  [i \in Elements(doc, depth) |-> {Made(doc[i].elem, depth, doc[i].attr)}]

Table(depth, links) == [depth |-> depth, links |-> links]

LEMMA ParsesEvent ==
  ASSUME NEW X, None \notin Seq(X), NEW depth \in Id3Depths, NEW doc, DocOK(doc, X),
         NEW n \in 1 .. Len(doc), NEW links,
         Collected(Elements(doc, depth), ElementLinks(doc, depth), n - 1, links)
  PROVE  \E more : /\ XML_parser_general(Table(depth, links), doc[n]) = Table(depth, more)
                   /\ Collected(Elements(doc, depth), ElementLinks(doc, depth), n, more)
<1> DEFINE S == Elements(doc, depth)
           items == ElementLinks(doc, depth)
           made == Made(doc[n].elem, depth, doc[n].attr)
           table == Table(depth, links)
<1>1. Len(doc) \in Nat /\ S \subseteq 1 .. Len(doc)
  BY DEF DocOK, Elements
<1>2. n \in S <=> doc[n].kind # "end" /\ Listable(doc[n].elem, depth, doc[n].attr)
  BY DEF DocOK, Elements
<1>3. n \in S => made \in items[n]
  BY DEF ElementLinks
<1>4. table.depth = depth /\ LinkTable_add(table, made) = Table(depth, Append(links, made))
  BY DEF Table, LinkTable_add
<1>5. XML_parser_general(table, doc[n]) = IF n \in S THEN LinkTable_add(table, made) ELSE table
  <2>1. CASE doc[n].kind = "end"
    <3>1. XML_parser_general(table, doc[n]) = table
      BY <2>1 DEF XML_parser_general
    <3> QED
      BY <1>2, <2>1, <3>1
  <2>2. CASE doc[n].kind # "end"
    <3>1. AttrsOK(doc[n].attr, X)
      BY <2>2 DEF DocOK
    <3> DEFINE event == doc[n]
    <3>2. event.kind # "end" /\ AttrsOK(event.attr, X)
      BY <2>2, <3>1
    <3> HIDE DEF event, table
    <3>3. XML_parser_general(table, event) =
            IF Listable(event.elem, depth, event.attr)
            THEN LinkTable_add(table, Made(event.elem, depth, event.attr)) ELSE table
      BY <1>4, <3>2, ParsesElement
    <3> QED
      BY <1>2, <2>2, <3>3 DEF event
  <2> QED
    BY <2>1, <2>2
<1>6. /\ n \notin S => Collected(S, items, n, links)
      /\ n \in S => \A x \in items[n] : Collected(S, items, n, Append(links, x))
  <2> HIDE DEF S, items
  <2>1. Collected(S, items, n - 1, links)
    BY DEF S, items
  <2> QED
    BY <1>1, <2>1, Collects
<1> HIDE DEF S, items, made
<1>7. CASE n \in S
  <2>1. Collected(S, items, n, Append(links, made))
    BY <1>3, <1>6, <1>7
  <2>2. XML_parser_general(table, doc[n]) = Table(depth, Append(links, made))
    BY <1>4, <1>5, <1>7
  <2> QED
    BY <2>1, <2>2 DEF S, items
<1>8. CASE n \notin S
  <2>1. XML_parser_general(table, doc[n]) = Table(depth, links)
    BY <1>5, <1>8
  <2> QED
    BY <1>6, <1>8, <2>1 DEF S, items
<1> QED
  BY <1>7, <1>8

\* The table before its names are sanitised.
LEMMA TableParsed ==
  ASSUME NEW X, None \notin Seq(X), NEW depth \in Id3Depths, NEW doc, DocOK(doc, X)
  PROVE  \E links : /\ GeneralParsed(LinkTable_alloc(depth), doc) = Table(depth, links)
                    /\ Collected(Elements(doc, depth), ElementLinks(doc, depth), Len(doc), links)
<1> DEFINE end == Len(doc)
           E == Elements(doc, depth)
           items == ElementLinks(doc, depth)
           start == LinkTable_alloc(depth)
           after[n \in 0 .. Len(doc)] ==
             IF n = 0 THEN start ELSE XML_parser_general(after[n - 1], doc[n])
<1>1. end \in Nat
  BY DEF DocOK
<1>2. Lists(after, start, doc, end)
  <2>1. \E f : Lists(f, start, doc, end)
    BY <1>1, ListsExist
  <2> QED
    BY <2>1 DEF Lists
<1>3. GeneralParsed(start, doc) = after[end]
  BY DEF GeneralParsed
<1> HIDE DEF after
<1>4. \A n \in 0..end :
        after[n] = IF n = 0 THEN start ELSE XML_parser_general(after[n - 1], doc[n])
  BY <1>2 DEF Lists
<1> DEFINE S == {n \in 0..end : \E links : after[n] = Table(depth, links)
                                           /\ Collected(E, items, n, links)}
<1>5. 0 \in S
  <2>1. after[0] = start /\ 0 \in 0..end
    BY <1>1, <1>4
  <2>2. start = Table(depth, <<>>)
    BY DEF LinkTable_alloc, Table
  <2>3. Collected(E, items, 0, <<>>)
    <3>1. E \subseteq 1..end
      BY DEF Elements, DocOK
    <3> HIDE DEF E, items, end
    <3> QED
      BY <1>1, <3>1, CollectsNone
  <2> HIDE DEF E, items
  <2> QED
    BY <2>1, <2>2, <2>3
<1>6. ASSUME NEW n \in 1..end, n - 1 \in S PROVE n \in S
  <2>1. PICK links : after[n - 1] = Table(depth, links) /\ Collected(E, items, n - 1, links)
    BY <1>6
  <2>2. n \in 0..end /\ n # 0
    BY <1>1
  <2>3. after[n] = XML_parser_general(Table(depth, links), doc[n])
    BY <1>4, <2>1, <2>2
  <2>4. \E more : /\ XML_parser_general(Table(depth, links), doc[n]) = Table(depth, more)
                  /\ Collected(E, items, n, more)
    BY <2>1, ParsesEvent
  <2> HIDE DEF E, items
  <2> QED
    BY <2>2, <2>3, <2>4
<1>7. 0..end \subseteq S
  <2> HIDE DEF S, end
  <2> QED
    BY <1>1, <1>5, <1>6, Upwards
<1>8. end \in 0..end
  BY <1>1
<1> HIDE DEF E, items, start
<1>9. PICK links : after[end] = Table(depth, links) /\ Collected(E, items, end, links)
  BY <1>7, <1>8
<1> QED
  BY <1>3, <1>9 DEF E, items, start

\* A name of sequence form, as every element's is.
LEMMA ToldName ==
  ASSUME NEW X, NEW elem, NEW depth, NEW attr, AttrsOK(attr, X), Listable(elem, depth, attr),
         NEW link, Told(link, elem, attr)
  PROVE  link.linkname \in Seq(X)
<1> DEFINE at == Source(attr)
<1>1. \E i \in DOMAIN attr : attr[i].key \in NameKeys
  BY DEF Listable
<1>2. at \in 1 .. Len(attr)
  BY <1>1, SourceIs
<1>3. attr[at].value \in Seq(X)
  BY <1>2 DEF AttrsOK
<1>4. LastComponent(attr[at].value) \in Seq(X)
  BY <1>3, LastIs
<1> QED
  BY <1>3, <1>4 DEF Told, at

\* What a reader of the mount sees of an element.
Shown(link, elem, attr) ==
  /\ LET name == attr[Source(attr)].value
     IN  link.linkname = SanitisedName(IF attr[Source(attr)].key = "path"
                                       THEN LastComponent(name) ELSE name)
  /\ Slashes(link.linkname) = {} /\ link.linkname # <<".">>
  /\ link.type = "LINK_FILE" <=>
       \/ elem = "song"
       \/ \E i \in DOMAIN attr : attr[i].key = "isDir" /\ attr[i].value = <<"false">>
  /\ link.type = "LINK_FILE" => link.f_url = <<"stream", Value(attr, "id")>>
  /\ elem = "album" => Id3Request(link.depth, link.id) = <<"getAlbum", Value(attr, "id")>>

LEMMA SanitisedShown ==
  ASSUME NEW X, NEW elem, NEW depth, NEW attr, AttrsOK(attr, X), Listable(elem, depth, attr),
         NEW link, Told(link, elem, attr)
  PROVE  Shown(SanitisedLink(link), elem, attr)
<1> DEFINE clean == SanitisedLink(link)
<1>1. link.linkname \in Seq(X)
  BY ToldName
<1>2. Slashes(SanitisedName(link.linkname)) = {} /\ SanitisedName(link.linkname) # <<".">>
  BY <1>1, SanitisedIs
<1>3. DOMAIN link = Fields
  BY DEF Told
<1>4. /\ clean.linkname = SanitisedName(link.linkname) /\ clean.type = link.type
      /\ clean.id = link.id /\ clean.depth = link.depth /\ clean.f_url = link.f_url
  <2> DEFINE named == Renamed(link)
  <2>1. /\ DOMAIN named = Fields /\ named.linkname = SanitisedName(link.linkname)
        /\ named.type = link.type /\ named.id = link.id
        /\ named.depth = link.depth /\ named.f_url = link.f_url
    BY <1>3 DEF Renamed, Fields
  <2> HIDE DEF named
  <2>2. clean = [named EXCEPT !.next_table = [i \in DOMAIN @ |-> Renamed(@[i])]]
    BY DEF SanitisedLink, named
  <2> HIDE DEF clean
  <2> QED
    BY <2>1, <2>2 DEF Fields
<1> HIDE DEF clean
<1>5. clean.type = "LINK_FILE" => clean.f_url = <<"stream", Value(attr, "id")>>
  BY <1>4 DEF Told, sonic_stream_link
<1>6. elem = "album" => Id3Request(clean.depth, clean.id) = <<"getAlbum", Value(attr, "id")>>
  BY <1>4 DEF Told, Id3Request
<1>7. clean.type = "LINK_FILE" <=>
        \/ elem = "song"
        \/ \E i \in DOMAIN attr : attr[i].key = "isDir" /\ attr[i].value = <<"false">>
  BY <1>4 DEF Told
<1>8. LET name == attr[Source(attr)].value
      IN  clean.linkname = SanitisedName(IF attr[Source(attr)].key = "path"
                                         THEN LastComponent(name) ELSE name)
  BY <1>4 DEF Told
<1>9. Shown(clean, elem, attr)
  BY <1>2, <1>4, <1>5, <1>6, <1>7, <1>8 DEF Shown
<1> QED
  BY <1>9 DEF clean

\* Sanitising keeps the number of links and their places.
LEMMA SanitisedTable ==
  ASSUME NEW T, NEW links \in Seq(T), NEW depth
  PROVE  LET clean == sanitise_LinkTable(Table(depth, links)).links
         IN  /\ Len(clean) = Len(links) /\ DOMAIN clean = 1 .. Len(links)
             /\ \A i \in 1 .. Len(links) : clean[i] = SanitisedLink(links[i])
<1> DEFINE clean == [i \in DOMAIN links |-> SanitisedLink(links[i])]
           U == {SanitisedLink(links[i]) : i \in DOMAIN links}
<1>1. sanitise_LinkTable(Table(depth, links)).links = clean
  BY DEF sanitise_LinkTable, Table
<1>2. Len(links) \in Nat /\ DOMAIN links = 1 .. Len(links)
  BY LenProperties
<1>3. clean \in [1 .. Len(links) -> U]
  BY <1>2
<1>4. clean \in Seq(U) /\ Len(clean) = Len(links)
  <2> HIDE DEF clean, U
  <2> QED
    BY <1>2, <1>3
<1> QED
  BY <1>1, <1>2, <1>4

(* A listing of a Subsonic server (XML_parser_general, sanitise_LinkTable)    *)
(* has one link for each element that has an id and a name, in the answer's   *)
(* order, whatever other events come between and whatever the order of an     *)
(* element's attributes: under the last part of its path, else its first      *)
(* title or name, with no slash in it; a song with the address it is streamed *)
(* from, an album with the request for its songs.                             *)
THEOREM TablesTellElements ==
  ASSUME NEW X, None \notin Seq(X), NEW depth \in Id3Depths, NEW doc, DocOK(doc, X)
  PROVE  LET links == sanitise_LinkTable(GeneralParsed(LinkTable_alloc(depth), doc)).links
         IN  /\ Len(links) = Cardinality(Elements(doc, depth))
             /\ DOMAIN links = 1 .. Len(links)
             /\ \A i \in Elements(doc, depth) :
                  Shown(links[Place(Elements(doc, depth), i)], doc[i].elem, doc[i].attr)
<1> DEFINE E == Elements(doc, depth)
           items == ElementLinks(doc, depth)
           end == Len(doc)
           clean == sanitise_LinkTable(GeneralParsed(LinkTable_alloc(depth), doc)).links
<1>1. PICK links : /\ GeneralParsed(LinkTable_alloc(depth), doc) = Table(depth, links)
                   /\ Collected(E, items, end, links)
  BY TableParsed
<1>2. end \in Nat /\ E \subseteq 1..end
  BY DEF DocOK, Elements
<1>3. Place(E, end) = Cardinality(E)
  <2> HIDE DEF E, end
  <2> QED
    BY <1>2, PlaceEnds
<1>4. links \in Seq(UNION {items[i] : i \in E}) /\ Len(links) = Cardinality(E)
  BY <1>1, <1>3 DEF Collected
<1>5. /\ Len(clean) = Len(links) /\ DOMAIN clean = 1 .. Len(links)
      /\ \A i \in 1 .. Len(links) : clean[i] = SanitisedLink(links[i])
  <2> DEFINE T == UNION {items[i] : i \in E}
             parsed == sanitise_LinkTable(Table(depth, links)).links
  <2>1. links \in Seq(T)
    BY <1>4
  <2> HIDE DEF T
  <2>2. /\ Len(parsed) = Len(links) /\ DOMAIN parsed = 1 .. Len(links)
        /\ \A i \in 1 .. Len(links) : parsed[i] = SanitisedLink(links[i])
    BY <2>1, SanitisedTable
  <2>3. clean = parsed
    BY <1>1
  <2> HIDE DEF clean, parsed
  <2> QED
    BY <2>2, <2>3
<1>6. ASSUME NEW i \in E
      PROVE  Shown(clean[Place(E, i)], doc[i].elem, doc[i].attr)
  <2> DEFINE elem == doc[i].elem
             attr == doc[i].attr
             link == links[Place(E, i)]
  <2>1. AttrsOK(attr, X) /\ Listable(elem, depth, attr)
    BY DEF DocOK, Elements
  <2>2. link = Made(elem, depth, attr)
    <3>1. i <= end
      <4> HIDE DEF E, end
      <4>1. i \in 1..end
        BY <1>2
      <4> QED
        BY <1>2, <4>1
    <3>2. link \in items[i]
      <4> HIDE DEF E, items, end
      <4> QED
        BY <1>1, <3>1 DEF Collected
    <3>3. items[i] = {Made(elem, depth, attr)}
      BY DEF ElementLinks
    <3> HIDE DEF link, items, elem, attr
    <3> QED
      BY <3>2, <3>3
  <2>3. Told(link, elem, attr)
    <3> HIDE DEF link, elem, attr
    <3>1. Told(Made(elem, depth, attr), elem, attr)
      BY <2>1, MadeTold
    <3> QED
      BY <2>2, <3>1
  <2>4. Shown(SanitisedLink(link), elem, attr)
    <3> HIDE DEF link, elem, attr
    <3> QED
      BY <2>1, <2>3, SanitisedShown
  <2>5. Place(E, i) \in 1 .. Len(links)
    <3> HIDE DEF E, end
    <3>1. i \in 1..end /\ end \in 1..end
      BY <1>2
    <3>2. PlaceGrows(E, i)
      BY <1>2, <3>1, PlaceIs
    <3>3. PlaceGrows(E, end)
      BY <1>2, <3>1, PlaceIs
    <3>4. Place(E, end) = Len(links)
      BY <1>3, <1>4
    <3> QED
      BY <3>1, <3>2, <3>3, <3>4 DEF PlaceGrows
  <2>6. clean[Place(E, i)] = SanitisedLink(link)
    BY <1>5, <2>5
  <2> HIDE DEF clean, link, elem, attr
  <2> QED
    BY <2>4, <2>6 DEF elem, attr
<1> HIDE DEF clean, E
<1> QED
  BY <1>4, <1>5, <1>6 DEF clean, E

-----------------------------------------------------------------------------
(* The answers of run algorithms. *)

LEMMA AttrsAre ==
  ASSUME NEW a \in Attrs
  PROVE  a.key \in Keys /\ a.value \in Seq(Letters)
<1>1. a.key \in Keys
  BY DEF Attrs, Attr, Keys
<1>2. a.value \in {<<"1">>, <<"x", "/", "y">>, <<".">>, <<"/">>, <<"t">>, <<"a", "/", "c">>,
                  <<"false">>, <<"true">>}
  BY DEF Attrs, Attr
<1>3. {"1", "x", "/", "y", ".", "t", "a", "c", "false", "true"} \subseteq Letters
  BY DEF Letters
<1>4. /\ <<"1">> \in Seq(Letters) /\ <<".">> \in Seq(Letters) /\ <<"/">> \in Seq(Letters)
      /\ <<"t">> \in Seq(Letters) /\ <<"false">> \in Seq(Letters) /\ <<"true">> \in Seq(Letters)
      /\ <<"x", "/", "y">> \in Seq(Letters) /\ <<"a", "/", "c">> \in Seq(Letters)
  BY <1>3
<1> QED
  BY <1>1, <1>2, <1>4, Zenon

LEMMA AttrListsOK ==
  ASSUME NEW attr \in AttrLists
  PROVE  /\ AttrsOK(attr, Letters) /\ attr \in Seq([key : Keys, value : Seq(Letters)])
         /\ \A i \in DOMAIN attr : attr[i] \in Attrs
<1>1. PICK n \in 0..4 : attr \in [1..n -> Attrs]
  BY DEF AttrLists
<1>2. n \in Nat /\ Len(attr) = n /\ DOMAIN attr = 1..n
  <2>1. n \in Nat
    OBVIOUS
  <2>2. attr \in Seq(Attrs)
    BY <1>1, <2>1
  <2> QED
    BY <1>1, <2>1, <2>2, LenProperties
<1>3. \A i \in 1..n : attr[i] \in Attrs
  BY <1>1
<1>4. \A i \in 1..n : attr[i].value \in Seq(Letters)
  BY <1>3, AttrsAre
<1>5. \A i, j \in 1..n : attr[i].key = attr[j].key => i = j
  BY <1>2 DEF AttrLists
<1>6. AttrsOK(attr, Letters)
  BY <1>2, <1>4, <1>5 DEF AttrsOK, Distinct
<1>7. attr \in Seq([key : Keys, value : Seq(Letters)])
  <2> DEFINE T == [key : Keys, value : Seq(Letters)]
  <2>1. \A a \in Attrs : a \in T
    <3> SUFFICES ASSUME NEW a \in Attrs PROVE a \in T
      OBVIOUS
    <3>1. a = [key |-> a.key, value |-> a.value]
      BY DEF Attrs, Attr
    <3> QED
      BY <3>1, AttrsAre
  <2> HIDE DEF T
  <2>2. attr \in [1..n -> T]
    BY <1>1, <2>1
  <2>3. attr \in Seq(T)
    BY <1>2, <2>2
  <2> QED
    BY <2>3 DEF T
<1> QED
  BY <1>2, <1>3, <1>6, <1>7

\* The names that these answers give, as they are shown.
LEMMA CleanNames ==
  /\ SanitisedName(<<".">>) = <<"__DOT__">>
  /\ SanitisedName(<<"/">>) = <<"__FORWARD-SLASH__">>
  /\ SanitisedName(<<"t">>) = <<"t">> /\ SanitisedName(<<"y">>) = <<"y">>
  /\ SanitisedName(<<"a", "/", "c">>) = <<"a", "-", "c">>
  /\ LastComponent(<<".">>) = <<".">> /\ LastComponent(<<"x", "/", "y">>) = <<"y">>
<1>1. SanitisedName(<<".">>) = <<"__DOT__">>
  BY DEF SanitisedName
<1>2. SanitisedName(<<"/">>) = <<"__FORWARD-SLASH__">>
  BY DEF SanitisedName
<1>3. SanitisedName(<<"t">>) = <<"t">>
  BY DEF SanitisedName
<1>4. SanitisedName(<<"y">>) = <<"y">>
  BY DEF SanitisedName
<1>5. SanitisedName(<<"a", "/", "c">>) = <<"a", "-", "c">>
  BY DEF SanitisedName
<1>6. LastComponent(<<".">>) = <<".">>
  <2> DEFINE text == <<".">>
             slashes == {i \in DOMAIN text : text[i] = "/"}
  <2>1. slashes = {}
    OBVIOUS
  <2>2. LastComponent(text) = SubSeq(text, 1, 1)
    BY <2>1 DEF LastComponent
  <2> QED
    BY <2>2
<1>7. LastComponent(<<"x", "/", "y">>) = <<"y">>
  <2> DEFINE text == <<"x", "/", "y">>
             slashes == {i \in DOMAIN text : text[i] = "/"}
             last == CHOOSE i \in slashes : \A j \in slashes : j <= i
  <2>1. slashes = {2}
    OBVIOUS
  <2>2. last = 2
    <3> HIDE DEF slashes
    <3> QED
      BY <2>1
  <2>3. LastComponent(text) = SubSeq(text, 3, 3)
    BY <2>1, <2>2 DEF LastComponent
  <2> QED
    BY <2>3
<1> QED
  BY <1>1, <1>2, <1>3, <1>4, <1>5, <1>6, <1>7

LEMMA ElementDoc ==
  ASSUME NEW depth \in Id3Depths, NEW elem \in Elems, NEW attr \in AttrLists,
         NEW doc, doc = <<Start(elem, attr), End(elem)>>
  PROVE  /\ DocOK(doc, Letters) /\ doc # None
         /\ doc[1].elem = elem /\ doc[1].attr = attr
         /\ Elements(doc, depth) = IF Listable(elem, depth, attr) THEN {1} ELSE {}
<1>1. /\ Len(doc) = 2 /\ DOMAIN doc = 1..2
      /\ doc[1] = Start(elem, attr) /\ doc[2] = End(elem)
  OBVIOUS
<1>2. /\ doc[1].kind = "start" /\ doc[1].elem = elem /\ doc[1].attr = attr
      /\ doc[2].kind = "end"
  BY <1>1 DEF Start, End
<1>3. AttrsOK(attr, Letters) /\ attr \in Seq([key : Keys, value : Seq(Letters)])
  BY AttrListsOK
<1>4. \A i \in 1..2 : i = 1 \/ i = 2
  OBVIOUS
<1>5. DocOK(doc, Letters)
  BY <1>1, <1>2, <1>3, <1>4 DEF DocOK
<1>6. doc # None
  <2> DEFINE T == [key : Keys, value : Seq(Letters)]
  <2>1. attr \in Seq(T) /\ <<>> \in Seq(T)
    BY <1>3, EmptySeq
  <2> HIDE DEF T
  <2>2. Start(elem, attr) \in [kind : {"start", "end"}, elem : Elems, attr : Seq(T)]
    BY <2>1 DEF Start
  <2>3. End(elem) \in [kind : {"start", "end"}, elem : Elems, attr : Seq(T)]
    BY <2>1 DEF End
  <2>4. Start(elem, attr) \in Event /\ End(elem) \in Event
    BY <2>2, <2>3 DEF Event, T
  <2>5. <<Start(elem, attr), End(elem)>> \in Seq(Event)
    BY <2>4
  <2> QED
    BY <2>5, AnswersAssumption, Zenon DEF AnswersAssumption
<1>7. Elements(doc, depth) = IF Listable(elem, depth, attr) THEN {1} ELSE {}
  <2>1. \A i : i \in Elements(doc, depth) <=>
                 i \in 1..2 /\ doc[i].kind # "end" /\ Listable(doc[i].elem, depth, doc[i].attr)
    BY <1>1 DEF Elements
  <2>2. \A i : i \in Elements(doc, depth) <=> i = 1 /\ Listable(elem, depth, attr)
    BY <1>2, <1>4, <2>1
  <2> QED
    BY <2>2
<1> QED
  BY <1>2, <1>5, <1>6, <1>7

\* How run algorithms says which name an element of these is shown with.
CleanName(name) ==
  CASE name = <<".">> -> <<"__DOT__">>
    [] name = <<"/">> -> <<"__FORWARD-SLASH__">>
    [] name = <<"x", "/", "y">> -> <<"y">>
    [] name = <<"a", "/", "c">> -> <<"a", "-", "c">>
    [] OTHER -> name

LEMMA CleanIs ==
  ASSUME NEW a \in Attrs, a.key \in NameKeys
  PROVE  SanitisedName(IF a.key = "path" THEN LastComponent(a.value) ELSE a.value)
           = CleanName(a.value)
<1>1. \/ a.key = "path" /\ a.value = <<"x", "/", "y">>
      \/ a.key = "path" /\ a.value = <<".">>
      \/ a.key = "title" /\ a.value = <<"/">>
      \/ a.key = "title" /\ a.value = <<"t">>
      \/ a.key = "name" /\ a.value = <<"a", "/", "c">>
  BY DEF Attrs, Attr, NameKeys
<1>2. /\ CleanName(<<"x", "/", "y">>) = <<"y">> /\ CleanName(<<".">>) = <<"__DOT__">>
      /\ CleanName(<<"/">>) = <<"__FORWARD-SLASH__">> /\ CleanName(<<"t">>) = <<"t">>
      /\ CleanName(<<"a", "/", "c">>) = <<"a", "-", "c">>
  BY DEF CleanName
<1>3. CASE a.key = "path" /\ a.value = <<"x", "/", "y">>
  BY <1>2, <1>3, CleanNames
<1>4. CASE a.key = "path" /\ a.value = <<".">>
  BY <1>2, <1>4, CleanNames
<1>5. CASE a.key = "title" /\ a.value = <<"/">>
  BY <1>2, <1>5, CleanNames
<1>6. CASE a.key = "title" /\ a.value = <<"t">>
  BY <1>2, <1>6, CleanNames
<1>7. CASE a.key = "name" /\ a.value = <<"a", "/", "c">>
  BY <1>2, <1>7, CleanNames
<1> QED
  BY <1>1, <1>3, <1>4, <1>5, <1>6, <1>7

\* The inputs with elements.
PickedElement ==
  /\ input.depth \in Id3Depths /\ input.elem \in Elems /\ input.attr \in AttrLists

LEMMA ElementsListed == ASSUME PickedElement PROVE ElementListed
<1> DEFINE depth == input.depth
           elem == input.elem
           attr == input.attr
           doc == <<Start(elem, attr), End(elem)>>
           parsed == sanitise_LinkTable(GeneralParsed(LinkTable_alloc(depth), doc))
           table == IF depth = 0 THEN sonic_LinkTable_new_index(doc)
                    ELSE sonic_LinkTable_new_id3(depth, doc)
           named == {i \in DOMAIN attr : attr[i].key \in {"path", "title", "name"}}
           paths == {i \in named : attr[i].key = "path"}
           source == IF paths # {} THEN Earliest(paths) ELSE Earliest(named)
           link == table.links[1]
           E == Elements(doc, depth)
<1>1. depth \in Id3Depths /\ elem \in Elems /\ attr \in AttrLists
  BY DEF PickedElement
<1>2. /\ DocOK(doc, Letters) /\ doc # None /\ doc[1].elem = elem /\ doc[1].attr = attr
      /\ E = IF Listable(elem, depth, attr) THEN {1} ELSE {}
  <2> HIDE DEF depth, elem, attr
  <2>1. doc = <<Start(elem, attr), End(elem)>>
    OBVIOUS
  <2> HIDE DEF doc
  <2> QED
    BY <1>1, <2>1, ElementDoc
<1>3. table = parsed
  <2> HIDE DEF elem, attr, doc
  <2>1. CASE depth = 0
    BY <1>2, <2>1 DEF sonic_LinkTable_new_index
  <2>2. CASE depth # 0
    BY <1>2, <2>2 DEF sonic_LinkTable_new_id3
  <2> QED
    BY <2>1, <2>2
<1>4. None \notin Seq(Letters)
  BY AnswersAssumption DEF AnswersAssumption
<1>5. /\ Len(parsed.links) = Cardinality(E) /\ DOMAIN parsed.links = 1 .. Len(parsed.links)
      /\ \A i \in E : Shown(parsed.links[Place(E, i)], doc[i].elem, doc[i].attr)
  <2> HIDE DEF depth, elem, attr, doc
  <2> QED
    BY <1>1, <1>2, <1>4, TablesTellElements
<1>6. Listable(elem, depth, attr) <=> elem \in Members(depth) /\ Set(attr, "id") /\ named # {}
  BY DEF Listable, NameKeys
<1>7. CASE Listable(elem, depth, attr)
  <2>1. E = {1} /\ Place(E, 1) = 1 /\ Cardinality(E) = 1
    <3>1. E = {1}
      BY <1>2, <1>7
    <3>2. {j \in {1} : j <= 1} = {1} /\ Cardinality({1}) = 1
      BY FS_Singleton
    <3> HIDE DEF E
    <3> QED
      BY <3>1, <3>2 DEF Place
  <2>2. Len(table.links) = 1 /\ Shown(link, elem, attr)
    <3> HIDE DEF E, parsed, table, doc, elem, attr
    <3>1. Len(table.links) = 1
      BY <1>3, <1>5, <2>1
    <3>2. Shown(parsed.links[Place(E, 1)], doc[1].elem, doc[1].attr)
      BY <1>5, <2>1
    <3>3. parsed.links[Place(E, 1)] = link
      BY <1>3, <2>1
    <3> HIDE DEF link
    <3> QED
      BY <1>2, <3>1, <3>2, <3>3
  <2>3. source = Source(attr)
    BY DEF Source, NameKeys
  <2>4. source \in 1 .. Len(attr) /\ attr[source].key \in NameKeys /\ attr[source] \in Attrs
    <3> HIDE DEF source, attr, elem, depth, named, paths
    <3>1. AttrsOK(attr, Letters) /\ (\A i \in DOMAIN attr : attr[i] \in Attrs)
      BY <1>1, AttrListsOK
    <3>2. \E i \in DOMAIN attr : attr[i].key \in NameKeys
      BY <1>7 DEF Listable
    <3>3. source \in 1 .. Len(attr) /\ attr[source].key \in NameKeys
      BY <2>3, <3>1, <3>2, SourceIs
    <3>4. attr[source] \in Attrs
      BY <3>1, <3>3 DEF AttrsOK
    <3> QED
      BY <3>3, <3>4
  <2> HIDE DEF table, link, source, named, paths, attr, elem, depth
  <2>5. link.linkname = CleanName(attr[source].value)
    <3>1. link.linkname = SanitisedName(IF attr[source].key = "path"
                                        THEN LastComponent(attr[source].value)
                                        ELSE attr[source].value)
      BY <2>2, <2>3 DEF Shown
    <3> DEFINE a == attr[source]
    <3>2. a \in Attrs /\ a.key \in NameKeys
      BY <2>4
    <3>3. link.linkname = SanitisedName(IF a.key = "path" THEN LastComponent(a.value) ELSE a.value)
      BY <3>1
    <3> HIDE DEF a
    <3>4. link.linkname = CleanName(a.value)
      BY <3>2, <3>3, CleanIs
    <3> QED
      BY <3>4 DEF a
  <2>6. link.type = "LINK_FILE" <=>
          \/ elem = "song"
          \/ \E i \in DOMAIN attr : attr[i] = Attr("isDir", <<"false">>)
    <3>1. \A i \in DOMAIN attr : attr[i].key = "isDir" /\ attr[i].value = <<"false">>
                                  <=> attr[i] = Attr("isDir", <<"false">>)
      <4> SUFFICES ASSUME NEW i \in DOMAIN attr
                   PROVE  attr[i].key = "isDir" /\ attr[i].value = <<"false">>
                            <=> attr[i] = Attr("isDir", <<"false">>)
        OBVIOUS
      <4>1. attr[i] \in Attrs
        BY <1>1, AttrListsOK
      <4> DEFINE a == attr[i]
      <4>2. a = [key |-> a.key, value |-> a.value]
        <5> HIDE DEF a
        <5>1. \E key, value : a = [key |-> key, value |-> value]
          BY <4>1 DEF Attrs, Attr, a
        <5> QED
          BY <5>1
      <4> HIDE DEF a
      <4>3. a.key = "isDir" /\ a.value = <<"false">> <=> a = Attr("isDir", <<"false">>)
        BY <4>2 DEF Attr
      <4> QED
        BY <4>3 DEF a
    <3> QED
      BY <2>2, <3>1 DEF Shown
  <2>7. /\ link.type = "LINK_FILE" => link.f_url = <<"stream", Value(attr, "id")>>
        /\ elem = "album" => Id3Request(link.depth, link.id) = <<"getAlbum", Value(attr, "id")>>
    BY <2>2 DEF Shown
  <2>8. elem \in Members(depth) /\ Set(attr, "id") /\ named # {}
    BY <1>6, <1>7
  <2> QED
    BY <2>2, <2>5, <2>6, <2>7, <2>8, Zenon
    DEF ElementListed, CleanName, table, link, source, named, paths, attr, elem, depth
<1>8. CASE ~Listable(elem, depth, attr)
  <2>1. ~(elem \in Members(depth) /\ Set(attr, "id") /\ named # {})
    BY <1>6, <1>8
  <2>2. table.links = <<>>
    <3>1. Cardinality(E) = 0
      BY <1>2, <1>8, FS_EmptySet
    <3> HIDE DEF E, parsed, table
    <3>2. Len(table.links) = 0 /\ DOMAIN table.links = 1 .. Len(table.links)
      BY <1>3, <1>5, <3>1
    <3> QED
      BY <3>2
  <2> HIDE DEF table, named, attr, elem, depth
  <2> QED
    BY <2>1, <2>2, Zenon DEF ElementListed, table, named, attr, elem, depth
<1> QED
  BY <1>7, <1>8

-----------------------------------------------------------------------------
(* The root of ID3 mode: events one after the other. *)

Follows(f, root, doc, k) ==
  f = [n \in 0..k |-> IF n = 0 THEN root ELSE XML_parser_id3_root(f[n - 1], doc[n])]

LEMMA FollowsExist ==
  ASSUME NEW root, NEW doc, NEW end \in Nat
  PROVE  \E f : Follows(f, root, doc, end)
<1> DEFINE S == {k \in 0..end : \E f : Follows(f, root, doc, k)}
<1>1. 0 \in S
  <2>1. Follows([n \in 0..0 |-> root], root, doc, 0)
    BY DEF Follows
  <2> QED
    BY <2>1
<1>2. ASSUME NEW k \in 1..end, k - 1 \in S PROVE k \in S
  <2>1. PICK f : Follows(f, root, doc, k - 1)
    BY <1>2
  <2> DEFINE next == XML_parser_id3_root(f[k - 1], doc[k])
             g == [n \in 0..k |-> IF n = k THEN next ELSE f[n]]
  <2>2. ASSUME NEW n \in 0..k
        PROVE  g[n] = IF n = 0 THEN root ELSE XML_parser_id3_root(g[n - 1], doc[n])
    <3>1. CASE n = k
      <4>1. n # 0 /\ g[n - 1] = f[n - 1]
        BY <3>1
      <4> QED
        BY <3>1, <4>1
    <3>2. CASE n # k
      <4>1. n \in 0 .. k - 1 /\ g[n] = f[n] /\ (n # 0 => g[n - 1] = f[n - 1])
        BY <3>2
      <4>2. f[n] = IF n = 0 THEN root ELSE XML_parser_id3_root(f[n - 1], doc[n])
        BY <2>1, <4>1 DEF Follows
      <4> QED
        BY <4>1, <4>2
    <3> QED
      BY <3>1, <3>2
  <2>3. Follows(g, root, doc, k)
    <3>1. g = [n \in 0..k |-> g[n]]
      OBVIOUS
    <3> HIDE DEF g
    <3> QED
      BY <2>2, <3>1 DEF Follows
  <2> QED
    BY <2>3
<1>3. 0..end \subseteq S
  <2> HIDE DEF S
  <2> QED
    BY <1>1, <1>2, Upwards
<1> QED
  BY <1>3

\* The roots f after each of the events.
Passes(f, root, doc) ==
  /\ f[0] = root /\ f[Len(doc)] = RootParsed(root, doc)
  /\ \A n \in 1 .. Len(doc) : f[n] = XML_parser_id3_root(f[n - 1], doc[n])

LEMMA PassesIs ==
  ASSUME NEW root, NEW doc, Len(doc) \in Nat
  PROVE  \E f : Passes(f, root, doc)
<1> DEFINE after[n \in 0 .. Len(doc)] ==
             IF n = 0 THEN root ELSE XML_parser_id3_root(after[n - 1], doc[n])
<1>1. \E f : Follows(f, root, doc, Len(doc))
  BY FollowsExist
<1>2. Follows(after, root, doc, Len(doc))
  BY <1>1 DEF Follows
<1>3. RootParsed(root, doc) = after[Len(doc)]
  BY DEF RootParsed
<1> HIDE DEF after
<1>4. \A n \in 0 .. Len(doc) :
        after[n] = IF n = 0 THEN root ELSE XML_parser_id3_root(after[n - 1], doc[n])
  BY <1>2 DEF Follows
<1>5. after[0] = root
  BY <1>4
<1>6. \A n \in 1 .. Len(doc) : after[n] = XML_parser_id3_root(after[n - 1], doc[n])
  <2> SUFFICES ASSUME NEW n \in 1 .. Len(doc)
               PROVE  after[n] = XML_parser_id3_root(after[n - 1], doc[n])
    OBVIOUS
  <2>1. n \in 0 .. Len(doc) /\ n # 0
    OBVIOUS
  <2> QED
    BY <1>4, <2>1
<1> QED
  BY <1>3, <1>5, <1>6 DEF Passes

\* Two stretches of an answer one after the other.
LEMMA TwoStretches ==
  ASSUME NEW T, NEW a \in Seq(T), NEW b \in Seq(T), NEW root
  PROVE  RootParsed(root, a \o b) = RootParsed(RootParsed(root, a), b)
<1> DEFINE m == Len(a)
           n == Len(b)
           c == a \o b
           middle == RootParsed(root, a)
<1>1. /\ m \in Nat /\ n \in Nat /\ Len(c) = m + n
      /\ \A i \in 1 .. m + n : c[i] = IF i <= m THEN a[i] ELSE b[i - m]
  <2>1. m \in Nat /\ n \in Nat
    BY LenProperties
  <2> QED
    BY <2>1, ConcatProperties
<1>0. Len(c) \in Nat
  BY <1>1
<1> HIDE DEF c
<1>2. PICK f : Passes(f, root, a)
  BY <1>1, PassesIs
<1>3. PICK g : Passes(g, middle, b)
  BY <1>1, PassesIs
<1>4. PICK h : Passes(h, root, c)
  BY <1>0, PassesIs
<1> HIDE DEF m, n, middle
<1> DEFINE S == {i \in 0..m : h[i] = f[i]}
           U == {i \in 0..n : h[m + i] = g[i]}
<1>5. 0..m \subseteq S
  <2>1. 0 \in S
    BY <1>1, <1>2, <1>4 DEF Passes
  <2>2. ASSUME NEW i \in 1..m, i - 1 \in S PROVE i \in S
    <3>1. i \in 0..m /\ i \in 1 .. m + n /\ i <= m
      BY <1>1
    <3>2. h[i] = XML_parser_id3_root(h[i - 1], c[i])
      BY <1>1, <1>4, <3>1 DEF Passes
    <3>3. f[i] = XML_parser_id3_root(f[i - 1], a[i])
      BY <1>2 DEF Passes, m
    <3>4. h[i - 1] = f[i - 1] /\ c[i] = a[i]
      BY <1>1, <2>2, <3>1
    <3> QED
      BY <3>1, <3>2, <3>3, <3>4
  <2> HIDE DEF S
  <2> QED
    BY <1>1, <2>1, <2>2, Upwards
<1>6. f[m] = middle
  BY <1>2 DEF Passes, m, middle
<1>7. 0..n \subseteq U
  <2>1. 0 \in U
    <3>1. m \in S /\ m + 0 = m /\ 0 \in 0..n
      BY <1>1, <1>5
    <3>2. g[0] = middle
      BY <1>3 DEF Passes
    <3> QED
      BY <1>6, <3>1, <3>2
  <2>2. ASSUME NEW i \in 1..n, i - 1 \in U PROVE i \in U
    <3>1. /\ i \in 0..n /\ m + i \in 1 .. m + n /\ ~(m + i <= m)
          /\ (m + i) - m = i /\ (m + i) - 1 = m + (i - 1)
      BY <1>1
    <3>2. h[m + i] = XML_parser_id3_root(h[m + (i - 1)], c[m + i])
      BY <1>1, <1>4, <3>1 DEF Passes
    <3>3. g[i] = XML_parser_id3_root(g[i - 1], b[i])
      BY <1>3 DEF Passes, n
    <3>4. h[m + (i - 1)] = g[i - 1]
      BY <2>2
    <3>5. c[m + i] = b[i]
      BY <1>1, <3>1
    <3> QED
      BY <3>1, <3>2, <3>3, <3>4, <3>5
  <2> HIDE DEF U
  <2> QED
    BY <1>1, <2>1, <2>2, Upwards
<1>8. h[m + n] = g[n]
  <2>1. n \in 0..n
    BY <1>1
  <2> QED
    BY <1>7, <2>1
<1>9. g[n] = RootParsed(middle, b) /\ h[m + n] = RootParsed(root, c)
  BY <1>1, <1>3, <1>4 DEF Passes, n
<1> QED
  BY <1>8, <1>9 DEF c, middle

LEMMA OneEvent ==
  ASSUME NEW root, NEW e
  PROVE  RootParsed(root, <<e>>) = XML_parser_id3_root(root, e)
<1> DEFINE doc == <<e>>
<1>1. Len(doc) = 1 /\ doc[1] = e /\ Len(doc) \in Nat
  OBVIOUS
<1> HIDE DEF doc
<1>2. PICK f : Passes(f, root, doc)
  BY <1>1, PassesIs
<1>3. f[0] = root /\ f[1] = XML_parser_id3_root(f[1 - 1], e) /\ f[1] = RootParsed(root, doc)
  BY <1>1, <1>2 DEF Passes
<1>4. 1 - 1 = 0
  OBVIOUS
<1>5. RootParsed(root, doc) = XML_parser_id3_root(root, e)
  BY <1>3, <1>4
<1> QED
  BY <1>5 DEF doc

LEMMA TwoEvents ==
  ASSUME NEW root, NEW e, NEW g
  PROVE  RootParsed(root, <<e, g>>) = XML_parser_id3_root(XML_parser_id3_root(root, e), g)
<1> DEFINE T == {e, g}
<1>1. <<e>> \in Seq(T) /\ <<g>> \in Seq(T) /\ <<e>> \o <<g>> = <<e, g>>
  <2>1. e \in T /\ g \in T
    OBVIOUS
  <2> HIDE DEF T
  <2>2. <<e>> \in Seq(T) /\ <<g>> \in Seq(T)
    BY <2>1
  <2>3. <<e>> \o <<g>> = <<e, g>>
    <3> DEFINE a == <<e>>
               b == <<g>>
               c == a \o b
    <3>1. Len(a) = 1 /\ Len(b) = 1 /\ a[1] = e /\ b[1] = g /\ a \in Seq(T) /\ b \in Seq(T)
      BY <2>2
    <3> HIDE DEF a, b
    <3>2. /\ c \in Seq(T) /\ Len(c) = Len(a) + Len(b)
          /\ \A i \in 1 .. Len(a) + Len(b) : c[i] = IF i <= Len(a) THEN a[i] ELSE b[i - Len(a)]
      BY <3>1, ConcatProperties
    <3>3. Len(c) = 2 /\ c[1] = e /\ c[2] = g
      BY <3>1, <3>2
    <3> HIDE DEF c
    <3>4. c = <<e, g>>
      <4>1. DOMAIN c = 1..2 /\ c = [i \in 1..2 |-> c[i]]
        <5>1. c \in [1 .. Len(c) -> T]
          BY <3>2, LenProperties
        <5> QED
          BY <3>3, <5>1
      <4>2. \A i \in 1..2 : c[i] = <<e, g>>[i]
        BY <3>3
      <4>3. <<e, g>> = [i \in 1..2 |-> <<e, g>>[i]]
        OBVIOUS
      <4> QED
        BY <4>1, <4>2, <4>3
    <3> QED
      BY <3>4 DEF a, b, c
  <2> QED
    BY <2>2, <2>3
<1> HIDE DEF T
<1>2. RootParsed(root, <<e>> \o <<g>>) = RootParsed(RootParsed(root, <<e>>), <<g>>)
  BY <1>1, TwoStretches
<1>3. RootParsed(root, <<e>>) = XML_parser_id3_root(root, e)
  BY OneEvent
<1> DEFINE middle == XML_parser_id3_root(root, e)
<1> HIDE DEF middle
<1>4. RootParsed(middle, <<g>>) = XML_parser_id3_root(middle, g)
  BY OneEvent
<1> QED
  BY <1>1, <1>2, <1>3, <1>4 DEF middle

LEMMA NoEvent == ASSUME NEW root PROVE RootParsed(root, <<>>) = root
<1> DEFINE doc == <<>>
<1>1. Len(doc) = 0 /\ Len(doc) \in Nat
  OBVIOUS
<1> HIDE DEF doc
<1>2. PICK f : Passes(f, root, doc)
  BY <1>1, PassesIs
<1>3. RootParsed(root, doc) = root
  BY <1>1, <1>2 DEF Passes
<1> QED
  BY <1>3 DEF doc

\* The roots g after each of the stretches.
Chained(g, root, seqs) ==
  /\ g[0] = root /\ g[Len(seqs)] = RootParsed(root, FlattenSeq(seqs))
  /\ \A i \in 1 .. Len(seqs) : g[i] = RootParsed(g[i - 1], seqs[i])

LEMMA Chains ==
  ASSUME NEW T, NEW seqs \in Seq(Seq(T)), NEW root
  PROVE  FlattenSeq(seqs) \in Seq(T) /\ \E g : Chained(g, root, seqs)
<1> DEFINE n == Len(seqs)
<1>1. n \in Nat /\ \A i \in 1..n : seqs[i] \in Seq(T)
  <2>1. n \in Nat
    BY LenProperties
  <2> QED
    BY <2>1, ElementOfSeq
<1>2. CASE n = 0
  <2>1. seqs = <<>>
    BY <1>2, EmptySeq
  <2>2. FlattenSeq(seqs) = <<>>
    BY <1>2, <2>1 DEF FlattenSeq
  <2>3. RootParsed(root, FlattenSeq(seqs)) = root
    BY <2>2, NoEvent
  <2>4. FlattenSeq(seqs) \in Seq(T)
    BY <2>2, EmptySeq
  <2> DEFINE g == [i \in 0..0 |-> root]
  <2>5. g[0] = root /\ \A i \in 1..n : g[i] = RootParsed(g[i - 1], seqs[i])
    BY <1>2
  <2> HIDE DEF g
  <2>6. Chained(g, root, seqs)
    BY <1>2, <2>3, <2>5 DEF Chained
  <2> QED
    BY <2>4, <2>6
<1>3. CASE n # 0
  <2> DEFINE flatten[i \in 1 .. Len(seqs)] ==
               IF i = 1 THEN seqs[i] ELSE flatten[i - 1] \o seqs[i]
  <2>1. \E f : Flattens(f, seqs, n)
    BY <1>1, FlattenEnds
  <2>2. Flattens(flatten, seqs, n)
    BY <2>1 DEF Flattens
  <2>3. FlattenSeq(seqs) = flatten[n]
    BY <1>3 DEF FlattenSeq
  <2> HIDE DEF flatten
  <2>4. \A i \in 1..n : flatten[i] = IF i = 1 THEN seqs[i] ELSE flatten[i - 1] \o seqs[i]
    BY <2>2 DEF Flattens
  <2> HIDE DEF n
  <2> DEFINE S == {i \in 0..n : i # 0 => flatten[i] \in Seq(T)}
             g == [i \in 0..n |-> IF i = 0 THEN root ELSE RootParsed(root, flatten[i])]
  <2>5. 0..n \subseteq S
    <3>1. 0 \in S
      BY <1>1
    <3>2. ASSUME NEW i \in 1..n, i - 1 \in S PROVE i \in S
      <4>1. i \in 0..n /\ seqs[i] \in Seq(T)
        BY <1>1
      <4>2. CASE i = 1
        <5>1. flatten[i] = seqs[i]
          BY <2>4, <4>2
        <5> QED
          BY <4>1, <5>1
      <4>3. CASE i # 1
        <5>1. flatten[i] = flatten[i - 1] \o seqs[i]
          BY <2>4, <4>3
        <5>2. flatten[i - 1] \in Seq(T)
          <6>1. i - 1 # 0
            BY <4>3
          <6> QED
            BY <3>2, <6>1
        <5>3. flatten[i - 1] \o seqs[i] \in Seq(T)
          BY <4>1, <5>2, ConcatProperties
        <5> QED
          BY <4>1, <5>1, <5>3
      <4> QED
        BY <4>2, <4>3
    <3> HIDE DEF S
    <3> QED
      BY <1>1, <3>1, <3>2, Upwards
  <2>6. \A i \in 1..n : flatten[i] \in Seq(T)
    BY <2>5
  <2>7. ASSUME NEW i \in 1..n PROVE g[i] = RootParsed(g[i - 1], seqs[i])
    <3>1. /\ i \in 0..n /\ i # 0 /\ i - 1 \in 0..n /\ (i # 1 => i - 1 # 0 /\ i - 1 \in 1..n)
          /\ (i = 1 => i - 1 = 0)
      BY <1>1
    <3>2. g[i] = RootParsed(root, flatten[i])
      BY <3>1
    <3>3. CASE i = 1
      <4>1. g[i - 1] = root
        BY <3>1, <3>3
      <4>2. flatten[i] = seqs[i]
        BY <2>4, <3>3
      <4> QED
        BY <3>2, <4>1, <4>2
    <3>4. CASE i # 1
      <4>1. g[i - 1] = RootParsed(root, flatten[i - 1])
        BY <3>1, <3>4
      <4>2. flatten[i] = flatten[i - 1] \o seqs[i]
        BY <2>4, <3>4
      <4>3. flatten[i - 1] \in Seq(T) /\ seqs[i] \in Seq(T)
        BY <1>1, <2>6, <3>1, <3>4
      <4> HIDE DEF g
      <4>4. RootParsed(root, flatten[i - 1] \o seqs[i])
              = RootParsed(RootParsed(root, flatten[i - 1]), seqs[i])
        BY <4>3, TwoStretches
      <4> QED
        BY <3>2, <4>1, <4>2, <4>4
    <3> QED
      BY <3>3, <3>4
  <2>8. n \in 1..n /\ n \in 0..n /\ 0 \in 0..n
    BY <1>1, <1>3
  <2>9. g[0] = root /\ g[n] = RootParsed(root, FlattenSeq(seqs))
    BY <1>3, <2>3, <2>8
  <2> HIDE DEF g
  <2>10. Chained(g, root, seqs)
    BY <2>7, <2>9 DEF Chained, n
  <2>11. FlattenSeq(seqs) \in Seq(T)
    BY <2>3, <2>6, <2>8
  <2> QED
    BY <2>10, <2>11
<1> QED
  BY <1>2, <1>3

\* The links of an artist and of an index with these artists, and the roots
\* between indexes and in the last one.
ArtistLink(attr) ==
  [id |-> Value(attr, "id"), linkname |-> Value(attr, "name"), type |-> "LINK_DIR", depth |-> 3,
   content_length |-> 0, f_url |-> None, next_table |-> NoTable]
IndexLink(artists) ==
  [id |-> None, linkname |-> <<"I">>, type |-> "LINK_DIR", depth |-> 0,
   content_length |-> 0, f_url |-> None, next_table |-> artists]
Closed(links) == [table |-> Table(0, links), current |-> 0]
Open(links, artists) ==
  [table |-> Table(0, Append(links, IndexLink(artists))), current |-> Len(links) + 1]
NamedAttr == <<Attr("name", <<"I">>)>>
Kept(attr) == Set(attr, "id") /\ Set(attr, "name")

LEMMA EventKinds ==
  ASSUME NEW root, NEW attr
  PROVE  /\ XML_parser_id3_root(root, Start("index", attr)) = StartIndex(root, attr)
         /\ XML_parser_id3_root(root, Start("artist", attr)) = StartArtist(root, attr)
         /\ XML_parser_id3_root(root, End("index")) = [root EXCEPT !.current = 0]
         /\ XML_parser_id3_root(root, End("artist")) = root
<1>1. /\ Start("index", attr).kind = "start" /\ Start("index", attr).elem = "index"
      /\ Start("artist", attr).kind = "start" /\ Start("artist", attr).elem = "artist"
      /\ Start("index", attr).attr = attr /\ Start("artist", attr).attr = attr
      /\ End("index").kind = "end" /\ End("index").elem = "index"
      /\ End("artist").kind = "end" /\ End("artist").elem = "artist"
  BY DEF Start, End
<1>2. XML_parser_id3_root(root, Start("index", attr)) = StartIndex(root, attr)
  <2> DEFINE e == Start("index", attr)
  <2>1. e.kind = "start" /\ e.elem = "index" /\ e.attr = attr
    BY <1>1
  <2> HIDE DEF e
  <2>2. XML_parser_id3_root(root, e) = StartIndex(root, attr)
    BY <2>1 DEF XML_parser_id3_root
  <2> QED
    BY <2>2 DEF e
<1>3. XML_parser_id3_root(root, Start("artist", attr)) = StartArtist(root, attr)
  <2> DEFINE e == Start("artist", attr)
  <2>1. e.kind = "start" /\ e.elem = "artist" /\ e.attr = attr
    BY <1>1
  <2> HIDE DEF e
  <2>2. XML_parser_id3_root(root, e) = StartArtist(root, attr)
    BY <2>1 DEF XML_parser_id3_root
  <2> QED
    BY <2>2 DEF e
<1>4. XML_parser_id3_root(root, End("index")) = [root EXCEPT !.current = 0]
  <2> DEFINE e == End("index")
  <2>1. e.kind = "end" /\ e.elem = "index"
    BY <1>1
  <2> HIDE DEF e
  <2>2. XML_parser_id3_root(root, e) = [root EXCEPT !.current = 0]
    BY <2>1 DEF XML_parser_id3_root
  <2> QED
    BY <2>2 DEF e
<1>5. XML_parser_id3_root(root, End("artist")) = root
  <2> DEFINE e == End("artist")
  <2>1. e.kind = "end" /\ e.elem = "artist"
    BY <1>1
  <2> HIDE DEF e
  <2>2. XML_parser_id3_root(root, e) = root
    BY <2>1 DEF XML_parser_id3_root
  <2> QED
    BY <2>2 DEF e
<1> QED
  BY <1>2, <1>3, <1>4, <1>5

LEMMA NamedIs == Set(NamedAttr, "name") /\ Value(NamedAttr, "name") = <<"I">>
<1>1. Len(NamedAttr) = 1 /\ DOMAIN NamedAttr = 1..1 /\ NamedAttr[1] = Attr("name", <<"I">>)
  BY DEF NamedAttr
<1>2. Attr("name", <<"I">>).key = "name" /\ Attr("name", <<"I">>).value = <<"I">>
  BY DEF Attr
<1>3. \A i : i \in DOMAIN NamedAttr <=> i = 1
  BY <1>1
<1>4. Set(NamedAttr, "name")
  BY <1>1, <1>2, <1>3 DEF Set
<1>5. (CHOOSE i \in DOMAIN NamedAttr : NamedAttr[i].key = "name") = 1
  BY <1>1, <1>2, <1>3
<1>6. Value(NamedAttr, "name") = <<"I">>
  BY <1>1, <1>2, <1>5 DEF Value
<1> QED
  BY <1>4, <1>6

\* An index with a name opens, one without changes nothing.
LEMMA IndexStarts ==
  ASSUME NEW links
  PROVE  /\ StartIndex(Closed(links), NamedAttr) = Open(links, <<>>)
         /\ StartIndex(Closed(links), <<>>) = Closed(links)
<1> DEFINE index == [Blank("LINK_DIR", 0) EXCEPT !.linkname = Value(NamedAttr, "name")]
<1>1. index = IndexLink(<<>>)
  BY NamedIs DEF Blank, IndexLink, NoTable
<1>2. LinkTable_add(Table(0, links), index) = Table(0, Append(links, index))
  BY DEF LinkTable_add, Table
<1>3. Closed(links).table = Table(0, links) /\ Table(0, links).links = links
  BY DEF Closed, Table
<1> HIDE DEF index
<1>4. StartIndex(Closed(links), NamedAttr) = Open(links, <<>>)
  BY <1>1, <1>2, <1>3, NamedIs DEF StartIndex, Open, index
<1>5. ~ Set(<<>>, "name")
  BY DEF Set
<1>6. StartIndex(Closed(links), <<>>) = Closed(links)
  BY <1>5 DEF StartIndex
<1> QED
  BY <1>4, <1>6

LEMMA IndexEnds ==
  ASSUME NEW links, NEW artists
  PROVE  /\ [Open(links, artists) EXCEPT !.current = 0] = Closed(Append(links, IndexLink(artists)))
         /\ [Closed(links) EXCEPT !.current = 0] = Closed(links)
BY DEF Open, Closed

\* An artist goes into the index that is open, if it has an id and a name.
LEMMA ArtistStarts ==
  ASSUME NEW L, NEW links \in Seq(L), NEW artists, NEW attr
  PROVE  /\ StartArtist(Closed(links), attr) = Closed(links)
         /\ ~Kept(attr) => StartArtist(Open(links, artists), attr) = Open(links, artists)
         /\ Kept(attr) => StartArtist(Open(links, artists), attr)
                            = Open(links, Append(artists, ArtistLink(attr)))
<1> DEFINE artist == [Blank("LINK_DIR", 3) EXCEPT !.id = Value(attr, "id"),
                                                  !.linkname = Value(attr, "name")]
           n == Len(links)
           root == Open(links, artists)
           all == Append(links, IndexLink(artists))
           more == Append(artists, artist)
<1>1. artist = ArtistLink(attr)
  <2> DEFINE id == Value(attr, "id")
             name == Value(attr, "name")
             blank == Blank("LINK_DIR", 3)
             told == [blank EXCEPT !.id = id]
  <2> HIDE DEF id, name
  <2>1. blank = [id |-> None, linkname |-> None, type |-> "LINK_DIR", depth |-> 3,
                 content_length |-> 0, f_url |-> None, next_table |-> NoTable]
    BY DEF Blank
  <2> HIDE DEF blank
  <2>2. told = [id |-> id, linkname |-> None, type |-> "LINK_DIR", depth |-> 3,
                content_length |-> 0, f_url |-> None, next_table |-> NoTable]
    BY <2>1
  <2>3. artist = [told EXCEPT !.linkname = name]
    <3>1. artist = [blank EXCEPT !.id = id, !.linkname = name]
      BY DEF blank, name, id
    <3> HIDE DEF artist
    <3> QED
      BY <2>1, <3>1
  <2> HIDE DEF told
  <2>4. [told EXCEPT !.linkname = name] = ArtistLink(attr)
    BY <2>2 DEF ArtistLink, name, id
  <2> QED
    BY <2>3, <2>4
<1>2. Closed(links).current = 0
  BY DEF Closed
<1>3. n \in Nat /\ n + 1 # 0
  <2>1. n \in Nat
    BY LenProperties
  <2> QED
    BY <2>1
<1>4. /\ root.current = n + 1 /\ root.table = Table(0, all) /\ root.table.links = all
      /\ root = [table |-> Table(0, all), current |-> n + 1]
  BY DEF Open, Table
<1>5. StartArtist(Closed(links), attr) = Closed(links)
  BY <1>2 DEF StartArtist
<1> HIDE DEF root, artist
<1>6. ASSUME ~Kept(attr) PROVE StartArtist(root, attr) = root
  BY <1>6 DEF StartArtist, Kept
<1>7. ASSUME Kept(attr) PROVE StartArtist(root, attr) = AddArtist(root, n + 1, artist)
  <2>1. ~(root.current = 0 \/ ~Set(attr, "id") \/ ~Set(attr, "name"))
    BY <1>3, <1>4, <1>7 DEF Kept
  <2> QED
    BY <1>4, <2>1 DEF StartArtist, artist
<1>8. [all EXCEPT ![n + 1] = IndexLink(more)] = Append(links, IndexLink(more))
  <2> DEFINE T == L \cup {IndexLink(artists), IndexLink(more)}
             x == IndexLink(artists)
             y == IndexLink(more)
  <2>1. links \in Seq(T) /\ x \in T /\ y \in T
    <3>1. L \subseteq T
      OBVIOUS
    <3>2. x \in T /\ y \in T
      OBVIOUS
    <3> HIDE DEF T, x, y, all, n
    <3>3. links \in Seq(T)
      BY <3>1
    <3> QED
      BY <3>2, <3>3
  <2> HIDE DEF T, x, y
  <2>2. /\ Append(links, x) \in Seq(T) /\ Len(Append(links, x)) = n + 1
        /\ \A i \in 1..n : Append(links, x)[i] = links[i]
    BY <2>1, AppendProperties
  <2>3. /\ Append(links, y) \in Seq(T) /\ Len(Append(links, y)) = n + 1
        /\ (\A i \in 1..n : Append(links, y)[i] = links[i]) /\ Append(links, y)[n + 1] = y
    BY <2>1, AppendProperties
  <2> DEFINE s == Append(links, x)
             t == Append(links, y)
             u == [s EXCEPT ![n + 1] = y]
  <2>4. DOMAIN s = 1 .. n + 1 /\ DOMAIN t = 1 .. n + 1
    <3>1. s \in Seq(T) /\ t \in Seq(T) /\ Len(s) = n + 1 /\ Len(t) = n + 1
      BY <2>2, <2>3
    <3> HIDE DEF s, t, n
    <3> QED
      BY <3>1, LenProperties
  <2>5. s \in [1 .. n + 1 -> T] /\ t \in [1 .. n + 1 -> T]
    <3>1. s \in Seq(T) /\ t \in Seq(T) /\ Len(s) = n + 1 /\ Len(t) = n + 1
      BY <2>2, <2>3
    <3> HIDE DEF s, t, n
    <3> QED
      BY <3>1, LenProperties
  <2>6. \A i \in 1 .. n + 1 : i \in 1..n \/ i = n + 1
    BY <1>3
  <2> HIDE DEF n
  <2>7. \A i \in 1 .. n + 1 : s[i] = IF i = n + 1 THEN s[n + 1] ELSE links[i]
    BY <2>2, <2>6
  <2>8. \A i \in 1 .. n + 1 : t[i] = IF i = n + 1 THEN y ELSE links[i]
    BY <2>3, <2>6
  <2> HIDE DEF s, t
  <2>9. \A i \in 1 .. n + 1 : u[i] = t[i]
    <3> SUFFICES ASSUME NEW i \in 1 .. n + 1 PROVE u[i] = t[i]
      OBVIOUS
    <3>1. u[i] = IF i = n + 1 THEN y ELSE s[i]
      BY <2>4
    <3> QED
      BY <2>7, <2>8, <3>1
  <2>10. u = t
    <3>1. DOMAIN u = 1 .. n + 1 /\ u = [i \in 1 .. n + 1 |-> u[i]]
      BY <2>4
    <3>2. t = [i \in 1 .. n + 1 |-> t[i]]
      BY <2>5
    <3> HIDE DEF u
    <3> QED
      BY <2>9, <3>1, <3>2
  <2> QED
    BY <2>10 DEF u, s, t, x, y, n
<1>9. [root EXCEPT !.table.links[n + 1].next_table = Append(@, artist)]
        = Open(links, more)
  <2> DEFINE old == all[n + 1]
             new == [old EXCEPT !.next_table = Append(@, artist)]
             links2 == [all EXCEPT ![n + 1] = new]
             table2 == [Table(0, all) EXCEPT !.links = links2]
  <2>1. old = IndexLink(artists)
    <3> DEFINE T == L \cup {IndexLink(artists)}
               x == IndexLink(artists)
    <3>1. L \subseteq T /\ x \in T
      OBVIOUS
    <3> HIDE DEF T, x
    <3>2. links \in Seq(T)
      BY <3>1
    <3>3. Append(links, x)[n + 1] = x
      BY <3>1, <3>2, AppendProperties
    <3> QED
      BY <3>3 DEF x
  <2>2. new = IndexLink(more)
    <3> HIDE DEF old
    <3>1. old.next_table = artists
      BY <2>1 DEF IndexLink
    <3>2. new = [old EXCEPT !.next_table = more]
      BY <3>1
    <3> HIDE DEF more, new
    <3>3. [IndexLink(artists) EXCEPT !.next_table = more] = IndexLink(more)
      BY DEF IndexLink
    <3> QED
      BY <2>1, <3>2, <3>3
  <2> HIDE DEF new
  <2>3. links2 = Append(links, IndexLink(more))
    BY <1>8, <2>2
  <2> HIDE DEF links2
  <2>4. table2 = Table(0, links2)
    BY DEF Table
  <2>5. [root EXCEPT !.table = table2] = [table |-> table2, current |-> n + 1]
    <3> HIDE DEF table2
    <3> QED
      BY <1>4
  <2>6. [root EXCEPT !.table.links[n + 1].next_table = Append(@, artist)]
          = [root EXCEPT !.table = table2]
    <3>1. root.table = Table(0, all) /\ Table(0, all).links = all
      BY <1>4 DEF Table
    <3> HIDE DEF all, more
    <3> QED
      BY <3>1 DEF table2, links2, new, old
  <2> QED
    BY <2>3, <2>4, <2>5, <2>6 DEF Open
<1>10. ASSUME Kept(attr) PROVE StartArtist(root, attr) = Open(links, Append(artists, ArtistLink(attr)))
  BY <1>1, <1>7, <1>9, <1>10 DEF AddArtist
<1> QED
  BY <1>5, <1>6, <1>10 DEF root

\* What a block's artists become: one link for each that has an id and a name.
Keeps(attrs) == {i \in DOMAIN attrs : Kept(attrs[i])}
ArtistItems(attrs) == [i \in DOMAIN attrs |-> {ArtistLink(attrs[i])}]
Fills(attrs, artists) == Collected(Keeps(attrs), ArtistItems(attrs), Len(attrs), artists)

\* The events of artists, and those of a root whose artists have attributes of A.
Pair(attr) == <<Start("artist", attr), End("artist")>>
ArtistEvents(attrs) == FlattenSeq([i \in DOMAIN attrs |-> Pair(attrs[i])])
Happening(A) == [kind : {"start", "end"}, elem : {"artist", "index"},
                 attr : A \cup {NamedAttr, <<>>}]

LEMMA HappeningIs ==
  ASSUME NEW A, NEW attr \in A \cup {NamedAttr, <<>>}, NEW elem \in {"artist", "index"}
  PROVE  /\ Start(elem, attr) \in Happening(A) /\ End(elem) \in Happening(A)
         /\ <<Start(elem, attr)>> \in Seq(Happening(A)) /\ <<End(elem)>> \in Seq(Happening(A))
         /\ <<Start(elem, attr), End(elem)>> \in Seq(Happening(A))
<1> DEFINE B == A \cup {NamedAttr, <<>>}
<1>1. <<>> \in B /\ attr \in B
  OBVIOUS
<1> HIDE DEF B
<1>2. /\ Start(elem, attr) \in [kind : {"start", "end"}, elem : {"artist", "index"}, attr : B]
      /\ End(elem) \in [kind : {"start", "end"}, elem : {"artist", "index"}, attr : B]
  BY <1>1 DEF Start, End
<1>3. Start(elem, attr) \in Happening(A) /\ End(elem) \in Happening(A)
  BY <1>2 DEF Happening, B
<1> QED
  BY <1>3

LEMMA ArtistParsed ==
  ASSUME NEW L, NEW links \in Seq(L), NEW artists, NEW attr
  PROVE  /\ RootParsed(Closed(links), Pair(attr)) = Closed(links)
         /\ ~Kept(attr) => RootParsed(Open(links, artists), Pair(attr)) = Open(links, artists)
         /\ Kept(attr) => RootParsed(Open(links, artists), Pair(attr))
                            = Open(links, Append(artists, ArtistLink(attr)))
<1>1. ASSUME NEW root PROVE RootParsed(root, Pair(attr)) = StartArtist(root, attr)
  <2> DEFINE e == Start("artist", attr)
             g == End("artist")
             next == XML_parser_id3_root(root, e)
  <2>1. Pair(attr) = <<e, g>>
    BY DEF Pair
  <2>2. next = StartArtist(root, attr)
    BY EventKinds
  <2> HIDE DEF e, g
  <2>3. RootParsed(root, <<e, g>>) = XML_parser_id3_root(next, g)
    BY TwoEvents
  <2> HIDE DEF next
  <2>4. XML_parser_id3_root(next, g) = next
    BY EventKinds DEF g
  <2> QED
    BY <2>1, <2>2, <2>3, <2>4
<1>2. /\ StartArtist(Closed(links), attr) = Closed(links)
      /\ ~Kept(attr) => StartArtist(Open(links, artists), attr) = Open(links, artists)
      /\ Kept(attr) => StartArtist(Open(links, artists), attr)
                         = Open(links, Append(artists, ArtistLink(attr)))
  BY ArtistStarts
<1> QED
  BY <1>1, <1>2

LEMMA ArtistsParsed ==
  ASSUME NEW A, NEW attrs \in Seq(A), NEW L, NEW links \in Seq(L)
  PROVE  /\ ArtistEvents(attrs) \in Seq(Happening(A))
         /\ RootParsed(Closed(links), ArtistEvents(attrs)) = Closed(links)
         /\ \E artists : /\ Fills(attrs, artists)
                         /\ RootParsed(Open(links, <<>>), ArtistEvents(attrs))
                              = Open(links, artists)
<1> DEFINE n == Len(attrs)
           seqs == [i \in DOMAIN attrs |-> Pair(attrs[i])]
           K == Keeps(attrs)
           items == ArtistItems(attrs)
           T == Happening(A)
<1>1. n \in Nat /\ DOMAIN attrs = 1..n /\ \A i \in 1..n : attrs[i] \in A
  <2>1. n \in Nat /\ DOMAIN attrs = 1..n
    BY LenProperties
  <2> QED
    BY <2>1, ElementOfSeq
<1>2. \A i \in 1..n : seqs[i] = Pair(attrs[i])
  BY <1>1
<1>3. seqs \in Seq(Seq(T)) /\ Len(seqs) = n
  <2>1. \A i \in 1..n : Pair(attrs[i]) \in Seq(T)
    <3> SUFFICES ASSUME NEW i \in 1..n PROVE Pair(attrs[i]) \in Seq(T)
      OBVIOUS
    <3> DEFINE attr == attrs[i]
    <3>1. attr \in A \cup {NamedAttr, <<>>} /\ "artist" \in {"artist", "index"}
      BY <1>1
    <3> HIDE DEF attr
    <3>2. <<Start("artist", attr), End("artist")>> \in Seq(T)
      BY <3>1, HappeningIs
    <3> QED
      BY <3>2 DEF Pair, attr
  <2>2. seqs \in [1..n -> Seq(T)]
    <3> HIDE DEF T, n
    <3> QED
      BY <1>1, <2>1
  <2> HIDE DEF seqs, T, n
  <2> QED
    BY <1>1, <2>2
<1> HIDE DEF seqs, T
<1>4. ArtistEvents(attrs) = FlattenSeq(seqs)
  BY DEF ArtistEvents, seqs
<1>5. FlattenSeq(seqs) \in Seq(T)
  BY <1>3, Chains
<1>6. RootParsed(Closed(links), FlattenSeq(seqs)) = Closed(links)
  <2> DEFINE root == Closed(links)
  <2>1. \A i \in 1..n : RootParsed(root, Pair(attrs[i])) = root
    BY ArtistParsed
  <2> HIDE DEF root
  <2>2. PICK g : Chained(g, root, seqs)
    BY <1>3, Chains
  <2> HIDE DEF n
  <2> DEFINE S == {i \in 0..n : g[i] = root}
  <2>3. 0 \in S
    BY <1>1, <2>2 DEF Chained
  <2>4. ASSUME NEW i \in 1..n, i - 1 \in S PROVE i \in S
    <3>1. g[i] = RootParsed(g[i - 1], Pair(attrs[i]))
      BY <1>2, <1>3, <2>2 DEF Chained
    <3>2. g[i - 1] = root /\ i \in 0..n
      BY <2>4
    <3> QED
      BY <2>1, <3>1, <3>2
  <2>5. 0..n \subseteq S
    <3> HIDE DEF S
    <3> QED
      BY <1>1, <2>3, <2>4, Upwards
  <2>6. n \in 0..n
    BY <1>1
  <2>7. g[n] = root
    BY <2>5, <2>6
  <2>8. g[n] = RootParsed(root, FlattenSeq(seqs))
    BY <1>3, <2>2 DEF Chained
  <2> QED
    BY <2>7, <2>8 DEF root
<1>7. K \subseteq 1..n
  BY <1>1 DEF Keeps
<1>8. \A i \in 1..n : (i \in K <=> Kept(attrs[i])) /\ items[i] = {ArtistLink(attrs[i])}
  BY <1>1 DEF Keeps, ArtistItems
<1>9. \E artists : /\ Fills(attrs, artists)
                   /\ RootParsed(Open(links, <<>>), FlattenSeq(seqs)) = Open(links, artists)
  <2> DEFINE root == Open(links, <<>>)
  <2> HIDE DEF root, K, items
  <2>1. PICK g : Chained(g, root, seqs)
    BY <1>3, Chains
  <2> HIDE DEF n
  <2> DEFINE S == {i \in 0..n : \E artists : /\ g[i] = Open(links, artists)
                                             /\ Collected(K, items, i, artists)}
  <2>2. 0 \in S
    <3>1. g[0] = Open(links, <<>>)
      BY <2>1 DEF Chained, root
    <3>2. Collected(K, items, 0, <<>>)
      BY <1>1, <1>7, CollectsNone
    <3>3. 0 \in 0..n
      BY <1>1
    <3> QED
      BY <3>1, <3>2, <3>3
  <2>3. ASSUME NEW i \in 1..n, i - 1 \in S PROVE i \in S
    <3>1. PICK artists : g[i - 1] = Open(links, artists) /\ Collected(K, items, i - 1, artists)
      BY <2>3
    <3> DEFINE attr == attrs[i]
               more == Append(artists, ArtistLink(attr))
    <3>2. g[i] = RootParsed(Open(links, artists), Pair(attr)) /\ i \in 0..n
      <4>1. g[i] = RootParsed(g[i - 1], seqs[i])
        BY <1>3, <2>1 DEF Chained
      <4> QED
        BY <1>2, <3>1, <4>1
    <3>3. /\ i \notin K => Collected(K, items, i, artists)
          /\ i \in K => \A x \in items[i] : Collected(K, items, i, Append(artists, x))
      BY <1>1, <1>7, <3>1, Collects
    <3>4. (i \in K <=> Kept(attr)) /\ ArtistLink(attr) \in items[i]
      BY <1>8
    <3> HIDE DEF attr
    <3>5. /\ ~Kept(attr) => RootParsed(Open(links, artists), Pair(attr)) = Open(links, artists)
          /\ Kept(attr) => RootParsed(Open(links, artists), Pair(attr)) = Open(links, more)
      BY ArtistParsed
    <3>6. CASE Kept(attr)
      <4>1. g[i] = Open(links, more) /\ Collected(K, items, i, more)
        BY <3>2, <3>3, <3>4, <3>5, <3>6
      <4> HIDE DEF more
      <4> QED
        BY <3>2, <4>1
    <3>7. CASE ~Kept(attr)
      <4>1. g[i] = Open(links, artists) /\ Collected(K, items, i, artists)
        BY <3>2, <3>3, <3>4, <3>5, <3>7
      <4> QED
        BY <3>2, <4>1
    <3> QED
      BY <3>6, <3>7
  <2>4. 0..n \subseteq S
    <3> HIDE DEF S
    <3> QED
      BY <1>1, <2>2, <2>3, Upwards
  <2>5. n \in 0..n
    BY <1>1
  <2>6. PICK artists : g[n] = Open(links, artists) /\ Collected(K, items, n, artists)
    BY <2>4, <2>5
  <2>7. g[n] = RootParsed(root, FlattenSeq(seqs))
    BY <1>3, <2>1 DEF Chained
  <2>8. Fills(attrs, artists)
    BY <2>6 DEF Fills, K, items, n
  <2> QED
    BY <2>6, <2>7, <2>8 DEF root
<1> QED
  BY <1>4, <1>5, <1>6, <1>9 DEF T

LEMMA BlockParsed ==
  ASSUME NEW A, NEW block, block.artists \in Seq(A),
         block.index \in {"named", "unnamed", "outside"}, NEW L, NEW links \in Seq(L)
  PROVE  /\ Events(block) \in Seq(Happening(A))
         /\ block.index # "named" => RootParsed(Closed(links), Events(block)) = Closed(links)
         /\ block.index = "named" =>
              \E artists : /\ Fills(block.artists, artists)
                           /\ RootParsed(Closed(links), Events(block))
                                = Closed(Append(links, IndexLink(artists)))
<1> DEFINE middle == ArtistEvents(block.artists)
           attr == IF block.index = "named" THEN NamedAttr ELSE <<>>
           first == Start("index", attr)
           last == End("index")
           T == Happening(A)
           root == Closed(links)
           next == StartIndex(root, attr)
<1>1. /\ block.index = "outside" => Events(block) = middle
      /\ block.index # "outside" => Events(block) = <<first>> \o middle \o <<last>>
  BY DEF Events, ArtistEvents, Pair, NamedAttr
<1>2. /\ middle \in Seq(T) /\ RootParsed(Closed(links), middle) = Closed(links)
      /\ \E artists : /\ Fills(block.artists, artists)
                      /\ RootParsed(Open(links, <<>>), middle) = Open(links, artists)
  BY ArtistsParsed
<1>3. <<first>> \in Seq(T) /\ <<last>> \in Seq(T)
  <2>1. attr \in A \cup {NamedAttr, <<>>} /\ "index" \in {"artist", "index"}
    OBVIOUS
  <2> HIDE DEF attr
  <2> QED
    BY <2>1, HappeningIs
<1> HIDE DEF T, middle
<1>4. <<first>> \o middle \in Seq(T) /\ <<first>> \o middle \o <<last>> \in Seq(T)
  <2> HIDE DEF first, last
  <2>1. <<first>> \o middle \in Seq(T)
    BY <1>2, <1>3, ConcatProperties
  <2> QED
    BY <1>3, <2>1, ConcatProperties
<1>5. RootParsed(root, <<first>> \o middle \o <<last>>)
        = [RootParsed(next, middle) EXCEPT !.current = 0]
  <2> DEFINE both == <<first>> \o middle
             end == RootParsed(next, middle)
  <2>1. RootParsed(root, <<first>>) = next
    <3>1. XML_parser_id3_root(root, first) = next
      BY EventKinds
    <3> HIDE DEF first, next
    <3> QED
      BY <3>1, OneEvent
  <2>2. RootParsed(root, both) = RootParsed(RootParsed(root, <<first>>), middle)
    <3> HIDE DEF first, root
    <3> QED
      BY <1>2, <1>3, TwoStretches
  <2>3. RootParsed(root, both) = end
    BY <2>1, <2>2, Zenon
  <2>4. RootParsed(end, <<last>>) = [end EXCEPT !.current = 0]
    <3> HIDE DEF end
    <3>1. XML_parser_id3_root(end, last) = [end EXCEPT !.current = 0]
      BY EventKinds
    <3> HIDE DEF last
    <3> QED
      BY <3>1, OneEvent
  <2>5. RootParsed(root, both \o <<last>>) = RootParsed(RootParsed(root, both), <<last>>)
    <3>1. both \in Seq(T) /\ <<last>> \in Seq(T)
      BY <1>3, <1>4
    <3> HIDE DEF both, last, root
    <3> QED
      BY <3>1, TwoStretches
  <2> HIDE DEF end, root, last
  <2> QED
    BY <2>3, <2>4, <2>5, Zenon DEF both, end
<1>6. Events(block) \in Seq(T)
  BY <1>1, <1>2, <1>4
<1>7. CASE block.index = "outside"
  BY <1>1, <1>2, <1>6, <1>7 DEF T
<1>8. CASE block.index = "unnamed"
  <2>1. attr = <<>> /\ next = Closed(links)
    BY <1>8, IndexStarts
  <2>2. RootParsed(next, middle) = Closed(links)
    BY <1>2, <2>1
  <2>3. RootParsed(root, Events(block)) = [Closed(links) EXCEPT !.current = 0]
    BY <1>1, <1>5, <1>8, <2>2
  <2>4. RootParsed(root, Events(block)) = Closed(links)
    BY <2>3, IndexEnds
  <2> QED
    BY <1>6, <1>8, <2>4 DEF T
<1>9. CASE block.index = "named"
  <2>1. attr = NamedAttr /\ next = Open(links, <<>>)
    BY <1>9, IndexStarts
  <2>2. PICK artists : /\ Fills(block.artists, artists)
                       /\ RootParsed(Open(links, <<>>), middle) = Open(links, artists)
    BY <1>2
  <2>3. RootParsed(root, Events(block)) = [Open(links, artists) EXCEPT !.current = 0]
    BY <1>1, <1>5, <1>9, <2>1, <2>2
  <2>4. RootParsed(root, Events(block)) = Closed(Append(links, IndexLink(artists)))
    BY <2>3, IndexEnds
  <2> QED
    BY <1>6, <1>9, <2>2, <2>4 DEF T
<1> QED
  BY <1>7, <1>8, <1>9

\* Roots of any number of parts, and the links their parts give.
BlocksOK(blocks, A) ==
  /\ Len(blocks) \in Nat /\ DOMAIN blocks = 1 .. Len(blocks)
  /\ \A k \in 1 .. Len(blocks) : /\ blocks[k].index \in {"named", "unnamed", "outside"}
                                 /\ blocks[k].artists \in Seq(A)
RootEvents(blocks) == FlattenSeq([k \in DOMAIN blocks |-> Events(blocks[k])])
Named(blocks) == {k \in DOMAIN blocks : blocks[k].index = "named"}
IndexesOf(attrs) ==
  LET links == UNION {ArtistItems(attrs)[i] : i \in Keeps(attrs)}
  IN  {IndexLink(artists) : artists \in {a \in Seq(links) : Fills(attrs, a)}}
RootItems(blocks) == [k \in DOMAIN blocks |-> IndexesOf(blocks[k].artists)]

LEMMA IndexesAre ==
  ASSUME NEW attrs, NEW link
  PROVE  link \in IndexesOf(attrs) <=> \E a : Fills(attrs, a) /\ link = IndexLink(a)
<1> DEFINE links == UNION {ArtistItems(attrs)[i] : i \in Keeps(attrs)}
<1>1. \A a : Fills(attrs, a) => a \in Seq(links)
  BY DEF Fills, Collected
<1>2. IndexesOf(attrs) = {IndexLink(artists) : artists \in {a \in Seq(links) : Fills(attrs, a)}}
  BY DEF IndexesOf
<1> HIDE DEF links
<1> QED
  BY <1>1, <1>2, Zenon

LEMMA BlocksParsed ==
  ASSUME NEW A, NEW blocks, BlocksOK(blocks, A)
  PROVE  /\ RootEvents(blocks) \in Seq(Happening(A))
         /\ \E links : /\ RootParsed(Closed(<<>>), RootEvents(blocks)) = Closed(links)
                       /\ Collected(Named(blocks), RootItems(blocks), Len(blocks), links)
<1> DEFINE n == Len(blocks)
           seqs == [k \in DOMAIN blocks |-> Events(blocks[k])]
           S == Named(blocks)
           items == RootItems(blocks)
           T == Happening(A)
           root == Closed(<<>>)
<1>1. /\ n \in Nat /\ DOMAIN blocks = 1..n
      /\ \A k \in 1..n : /\ blocks[k].index \in {"named", "unnamed", "outside"}
                         /\ blocks[k].artists \in Seq(A)
  BY DEF BlocksOK
<1>2. \A k \in 1..n : seqs[k] = Events(blocks[k])
  BY <1>1
<1>3. ASSUME NEW k \in 1..n, NEW L, NEW links \in Seq(L)
      PROVE  /\ Events(blocks[k]) \in Seq(T)
             /\ k \notin S => RootParsed(Closed(links), Events(blocks[k])) = Closed(links)
             /\ k \in S => \E x \in items[k] :
                  RootParsed(Closed(links), Events(blocks[k])) = Closed(Append(links, x))
  <2> DEFINE block == blocks[k]
  <2>1. block.artists \in Seq(A) /\ block.index \in {"named", "unnamed", "outside"}
    BY <1>1
  <2>2. (k \in S <=> block.index = "named") /\ items[k] = IndexesOf(block.artists)
    BY <1>1 DEF Named, RootItems
  <2> HIDE DEF block, S, items, T
  <2>3. /\ Events(block) \in Seq(T)
        /\ block.index # "named" => RootParsed(Closed(links), Events(block)) = Closed(links)
        /\ block.index = "named" =>
             \E artists : /\ Fills(block.artists, artists)
                          /\ RootParsed(Closed(links), Events(block))
                               = Closed(Append(links, IndexLink(artists)))
    BY <2>1, BlockParsed DEF T
  <2>4. ASSUME k \in S
        PROVE  \E x \in items[k] :
                 RootParsed(Closed(links), Events(block)) = Closed(Append(links, x))
    <3>1. PICK artists : /\ Fills(block.artists, artists)
                         /\ RootParsed(Closed(links), Events(block))
                              = Closed(Append(links, IndexLink(artists)))
      BY <2>2, <2>3, <2>4
    <3>2. IndexLink(artists) \in IndexesOf(block.artists)
      BY <3>1, IndexesAre
    <3> QED
      BY <2>2, <3>1, <3>2
  <2> QED
    BY <2>2, <2>3, <2>4 DEF block
<1>4. seqs \in Seq(Seq(T)) /\ Len(seqs) = n
  <2>1. \A k \in 1..n : Events(blocks[k]) \in Seq(T)
    <3>1. <<>> \in Seq({})
      BY EmptySeq
    <3> HIDE DEF S, items, T, n
    <3> QED
      BY <1>3, <3>1
  <2>2. seqs \in [1..n -> Seq(T)]
    <3> HIDE DEF T, n
    <3> QED
      BY <1>1, <2>1
  <2> HIDE DEF seqs, T, n
  <2> QED
    BY <1>1, <2>2
<1> HIDE DEF seqs, T
<1>5. RootEvents(blocks) = FlattenSeq(seqs)
  BY DEF RootEvents, seqs
<1>6. FlattenSeq(seqs) \in Seq(T)
  BY <1>4, Chains
<1>7. S \subseteq 1..n
  BY <1>1 DEF Named
<1>8. PICK g : Chained(g, root, seqs)
  BY <1>4, Chains
<1> HIDE DEF n, S, items
<1> DEFINE Good == {k \in 0..n : \E links : g[k] = Closed(links) /\ Collected(S, items, k, links)}
<1>9. 0 \in Good
  <2>1. g[0] = Closed(<<>>)
    BY <1>8 DEF Chained
  <2>2. Collected(S, items, 0, <<>>)
    BY <1>1, <1>7, CollectsNone
  <2>3. 0 \in 0..n
    BY <1>1
  <2> QED
    BY <2>1, <2>2, <2>3
<1>10. ASSUME NEW k \in 1..n, k - 1 \in Good PROVE k \in Good
  <2>1. PICK links : g[k - 1] = Closed(links) /\ Collected(S, items, k - 1, links)
    BY <1>10
  <2>2. g[k] = RootParsed(Closed(links), Events(blocks[k])) /\ k \in 0..n
    <3>1. g[k] = RootParsed(g[k - 1], seqs[k])
      BY <1>4, <1>8 DEF Chained
    <3> QED
      BY <1>2, <2>1, <3>1
  <2>3. /\ k \notin S => Collected(S, items, k, links)
        /\ k \in S => \A x \in items[k] : Collected(S, items, k, Append(links, x))
    BY <1>1, <1>7, <2>1, Collects
  <2> DEFINE L == UNION {items[i] : i \in S}
  <2>4. links \in Seq(L)
    BY <2>1 DEF Collected
  <2> HIDE DEF L
  <2>5. /\ k \notin S => RootParsed(Closed(links), Events(blocks[k])) = Closed(links)
        /\ k \in S => \E x \in items[k] :
             RootParsed(Closed(links), Events(blocks[k])) = Closed(Append(links, x))
    BY <1>3, <2>4
  <2>6. CASE k \in S
    <3>1. PICK x \in items[k] : g[k] = Closed(Append(links, x))
      BY <2>2, <2>5, <2>6
    <3> DEFINE more == Append(links, x)
    <3>2. g[k] = Closed(more) /\ Collected(S, items, k, more)
      BY <2>3, <2>6, <3>1
    <3> HIDE DEF more
    <3> QED
      BY <2>2, <3>2
  <2>7. CASE k \notin S
    BY <2>2, <2>3, <2>5, <2>7
  <2> QED
    BY <2>6, <2>7
<1>11. 0..n \subseteq Good
  <2> HIDE DEF Good
  <2> QED
    BY <1>1, <1>9, <1>10, Upwards
<1>12. n \in 0..n
  BY <1>1
<1>13. PICK links : g[n] = Closed(links) /\ Collected(S, items, n, links)
  BY <1>11, <1>12
<1>14. g[n] = RootParsed(root, FlattenSeq(seqs))
  BY <1>4, <1>8 DEF Chained
<1> QED
  BY <1>5, <1>6, <1>13, <1>14 DEF n, S, items, T

LEMMA IndexCleaned ==
  ASSUME NEW T, NEW artists \in Seq(T)
  PROVE  LET clean == SanitisedLink(IndexLink(artists)).next_table
         IN  /\ Len(clean) = Len(artists)
             /\ \A i \in 1 .. Len(artists) : clean[i] = Renamed(artists[i])
<1> DEFINE clean == [i \in DOMAIN artists |-> Renamed(artists[i])]
           U == {Renamed(artists[i]) : i \in DOMAIN artists}
<1>1. SanitisedLink(IndexLink(artists)).next_table = clean
  <2> DEFINE link == IndexLink(artists)
             named == Renamed(link)
  <2>1. link.next_table = artists /\ "next_table" \in DOMAIN link
    BY DEF IndexLink
  <2> HIDE DEF link
  <2>2. named.next_table = artists /\ "next_table" \in DOMAIN named
    BY <2>1 DEF Renamed
  <2> HIDE DEF named
  <2>3. SanitisedLink(link) = [named EXCEPT !.next_table = [i \in DOMAIN @ |-> Renamed(@[i])]]
    BY DEF SanitisedLink, named
  <2> QED
    BY <2>2, <2>3 DEF link
<1>2. Len(artists) \in Nat /\ DOMAIN artists = 1 .. Len(artists)
  BY LenProperties
<1>3. clean \in [1 .. Len(artists) -> U]
  BY <1>2
<1>4. clean \in Seq(U) /\ Len(clean) = Len(artists)
  <2> HIDE DEF clean, U
  <2> QED
    BY <1>2, <1>3
<1>5. \A i \in 1 .. Len(artists) : clean[i] = Renamed(artists[i])
  BY <1>2
<1> HIDE DEF clean
<1> QED
  BY <1>1, <1>4, <1>5

LEMMA ArtistsTold ==
  ASSUME NEW X, NEW A, \A attr \in A : AttrsOK(attr, X), NEW attrs \in Seq(A),
         NEW artists, Fills(attrs, artists)
  PROVE  ArtistsFilled(SanitisedLink(IndexLink(artists)).next_table, attrs)
<1> DEFINE n == Len(attrs)
           K == Keeps(attrs)
           items == ArtistItems(attrs)
           clean == SanitisedLink(IndexLink(artists)).next_table
<1>1. n \in Nat /\ DOMAIN attrs = 1..n /\ \A i \in 1..n : attrs[i] \in A
  <2>1. n \in Nat /\ DOMAIN attrs = 1..n
    BY LenProperties
  <2> QED
    BY <2>1, ElementOfSeq
<1>2. K \subseteq 1..n
  BY <1>1 DEF Keeps
<1>3. /\ artists \in Seq(UNION {items[i] : i \in K}) /\ Len(artists) = Place(K, n)
      /\ \A i \in K : i <= n => artists[Place(K, i)] \in items[i]
  BY DEF Fills, Collected
<1> HIDE DEF n, K, clean
<1>4. Len(artists) = Cardinality(K)
  <2>1. Place(K, n) = Cardinality(K)
    BY <1>1, <1>2, PlaceEnds
  <2> QED
    BY <1>3, <2>1
<1>5. /\ Len(clean) = Len(artists)
      /\ \A i \in 1 .. Len(artists) :
           clean[i] = Renamed(artists[i])
  <2> DEFINE T == UNION {items[i] : i \in K}
  <2>1. artists \in Seq(T)
    BY <1>3
  <2> HIDE DEF T
  <2> QED
    BY <2>1, IndexCleaned DEF clean
<1>6. ASSUME NEW i \in K
      PROVE  /\ Slashes(clean[Place(K, i)].linkname) = {}
             /\ Id3Request(clean[Place(K, i)].depth, clean[Place(K, i)].id)
                  = <<"getArtist", Value(attrs[i], "id")>>
  <2> DEFINE attr == attrs[i]
             at == Place(K, i)
             link == Renamed(ArtistLink(attr))
  <2>1. i \in 1..n /\ Kept(attr)
    <3>1. i \in 1..n
      BY <1>2
    <3>2. Kept(attr)
      BY DEF K, Keeps
    <3> QED
      BY <3>1, <3>2
  <2>2. i <= n /\ n \in 1..n
    BY <1>1, <2>1
  <2>3. at \in 1 .. Len(artists)
    <3>1. PlaceGrows(K, i)
      BY <1>1, <1>2, <2>1, PlaceIs
    <3>2. PlaceGrows(K, n)
      BY <1>1, <1>2, <2>2, PlaceIs
    <3>3. Place(K, n) = Len(artists)
      BY <1>3
    <3> QED
      BY <1>1, <2>1, <2>2, <3>1, <3>2, <3>3 DEF PlaceGrows
  <2>4. artists[at] = ArtistLink(attr)
    <3>1. items[i] = {ArtistLink(attr)}
      BY <1>1, <2>1 DEF ArtistItems
    <3>2. artists[at] \in items[i]
      BY <1>3, <2>2
    <3> HIDE DEF items, at, attr
    <3> QED
      BY <3>1, <3>2
  <2>5. clean[at] = link
    <3> HIDE DEF at, attr
    <3> QED
      BY <1>5, <2>3, <2>4
  <2>6. AttrsOK(attr, X)
    BY <1>1, <2>1
  <2> HIDE DEF attr
  <2>7. Value(attr, "name") \in Seq(X)
    <3> DEFINE key == "name"
    <3>1. Set(attr, key)
      BY <2>1 DEF Kept
    <3> HIDE DEF key
    <3>2. /\ Set(attr, key) <=> \E j \in 1 .. Len(attr) : attr[j].key = key
          /\ \A j \in 1 .. Len(attr) : attr[j].key = key => Value(attr, key) = attr[j].value
      BY <2>6, ValueIs
    <3>3. PICK j \in 1 .. Len(attr) : attr[j].key = key
      BY <3>1, <3>2
    <3>4. Value(attr, key) = attr[j].value /\ attr[j].value \in Seq(X)
      BY <2>6, <3>2, <3>3 DEF AttrsOK
    <3> QED
      BY <3>4 DEF key
  <2>8. Slashes(SanitisedName(Value(attr, "name"))) = {}
    <3> DEFINE name == Value(attr, "name")
    <3>1. name \in Seq(X)
      BY <2>7
    <3> HIDE DEF name
    <3>2. Slashes(SanitisedName(name)) = {}
      BY <3>1, SanitisedIs
    <3> QED
      BY <3>2 DEF name
  <2>9. /\ link.linkname = SanitisedName(Value(attr, "name")) /\ link.depth = 3
        /\ link.id = Value(attr, "id")
    BY DEF ArtistLink, Renamed
  <2>10. Id3Request(3, Value(attr, "id")) = <<"getArtist", Value(attr, "id")>>
    BY DEF Id3Request
  <2> HIDE DEF link, at
  <2> QED
    BY <2>5, <2>8, <2>9, <2>10 DEF at, attr
<1>7. K = {i \in DOMAIN attrs : Set(attrs[i], "id") /\ Set(attrs[i], "name")}
  BY DEF K, Keeps, Kept
<1> HIDE DEF items
<1>8. Len(clean) = Cardinality(K)
  BY <1>4, <1>5
<1>9. ArtistsFilled(clean, attrs)
  BY <1>6, <1>7, <1>8, Zenon DEF ArtistsFilled
<1> QED
  BY <1>9 DEF clean

(* The root of ID3 mode (XML_parser_id3_root, sanitise_LinkTable), for any    *)
(* number of indexes, named or not, and stretches outside of any, each with   *)
(* any number of artists: the table has the named indexes in the answer's     *)
(* order, and each has under it the artists written inside it that have an id *)
(* and a name, in their order, with no slash in a name and with the request   *)
(* for their albums; an artist of no named index is nowhere.                  *)
THEOREM RootTellsArtists ==
  ASSUME NEW X, NEW A, \A attr \in A : AttrsOK(attr, X), NEW blocks, BlocksOK(blocks, A)
  PROVE  LET links == sanitise_LinkTable(RootParsed(Closed(<<>>), RootEvents(blocks)).table).links
         IN  /\ Len(links) = Cardinality(Named(blocks))
             /\ \A k \in Named(blocks) :
                  ArtistsFilled(links[Place(Named(blocks), k)].next_table, blocks[k].artists)
<1> DEFINE n == Len(blocks)
           S == Named(blocks)
           items == RootItems(blocks)
           clean == sanitise_LinkTable(RootParsed(Closed(<<>>), RootEvents(blocks)).table).links
<1>1. /\ n \in Nat /\ DOMAIN blocks = 1..n
      /\ \A k \in 1..n : blocks[k].artists \in Seq(A)
  BY DEF BlocksOK
<1>2. S \subseteq 1..n
  BY <1>1 DEF Named
<1>3. PICK links : /\ RootParsed(Closed(<<>>), RootEvents(blocks)) = Closed(links)
                   /\ Collected(S, items, n, links)
  BY BlocksParsed
<1> HIDE DEF n, S
<1>4. Len(links) = Cardinality(S)
  <2>1. Place(S, n) = Cardinality(S)
    BY <1>1, <1>2, PlaceEnds
  <2> QED
    BY <1>3, <2>1 DEF Collected
<1>5. /\ Len(clean) = Len(links)
      /\ \A i \in 1 .. Len(links) : clean[i] = SanitisedLink(links[i])
  <2> DEFINE T == UNION {items[i] : i \in S}
             parsed == sanitise_LinkTable(Table(0, links)).links
  <2>1. links \in Seq(T)
    BY <1>3 DEF Collected
  <2>2. clean = parsed
    BY <1>3 DEF Closed
  <2> HIDE DEF T
  <2>3. /\ Len(parsed) = Len(links) /\ DOMAIN parsed = 1 .. Len(links)
        /\ \A i \in 1 .. Len(links) : parsed[i] = SanitisedLink(links[i])
    BY <2>1, SanitisedTable
  <2> HIDE DEF clean, parsed
  <2> QED
    BY <2>2, <2>3
<1> HIDE DEF clean
<1>6. ASSUME NEW k \in S
      PROVE  ArtistsFilled(clean[Place(S, k)].next_table, blocks[k].artists)
  <2> DEFINE at == Place(S, k)
             attrs == blocks[k].artists
  <2>1. k \in 1..n
    BY <1>2
  <2>2. k <= n /\ n \in 1..n
    BY <1>1, <2>1
  <2>3. at \in 1 .. Len(links)
    <3>1. PlaceGrows(S, k)
      BY <1>1, <1>2, <2>1, PlaceIs
    <3>2. PlaceGrows(S, n)
      BY <1>1, <1>2, <2>2, PlaceIs
    <3>3. Place(S, n) = Len(links)
      BY <1>3 DEF Collected
    <3> QED
      BY <1>1, <2>1, <2>2, <3>1, <3>2, <3>3 DEF PlaceGrows
  <2>4. links[at] \in items[k]
    BY <1>3, <2>2 DEF Collected
  <2>5. items[k] = IndexesOf(attrs)
    BY <1>1, <2>1 DEF RootItems
  <2> HIDE DEF at, attrs, items
  <2>6. PICK artists : Fills(attrs, artists) /\ links[at] = IndexLink(artists)
    BY <2>4, <2>5, IndexesAre
  <2>7. attrs \in Seq(A)
    BY <1>1, <2>1 DEF attrs
  <2>8. ArtistsFilled(SanitisedLink(IndexLink(artists)).next_table, attrs)
    BY <2>6, <2>7, ArtistsTold
  <2>9. clean[at] = SanitisedLink(IndexLink(artists))
    BY <1>5, <2>3, <2>6
  <2> QED
    BY <2>8, <2>9 DEF at, attrs
<1> QED
  BY <1>4, <1>5, <1>6 DEF S, clean

LEMMA ArtistAttrsOK ==
  ASSUME NEW attr \in ArtistAttrs
  PROVE  AttrsOK(attr, Letters) /\ attr \in Seq([key : Keys, value : Seq(Letters)])
<1> DEFINE T == [key : Keys, value : Seq(Letters)]
<1>1. /\ <<"1">> \in Seq(Letters) /\ <<"2">> \in Seq(Letters) /\ <<".">> \in Seq(Letters)
      /\ <<"t">> \in Seq(Letters) /\ <<"a", "/", "c">> \in Seq(Letters)
  <2>1. {"1", "2", ".", "t", "a", "/", "c"} \subseteq Letters
    BY DEF Letters
  <2> QED
    BY <2>1
<1>2. \A key \in {"id", "name"}, value \in Seq(Letters) :
        /\ Attr(key, value) \in T
        /\ Attr(key, value).key = key /\ Attr(key, value).value = value
  BY DEF Attr, Keys
<1> DEFINE OK(a) == AttrsOK(a, Letters) /\ a \in Seq(T)
<1>3. ASSUME NEW x \in Seq(Letters) PROVE OK(<<Attr("name", x)>>)
  <2> DEFINE e == Attr("name", x)
             a == <<e>>
  <2>1. e \in T /\ e.value \in Seq(Letters)
    BY <1>2, <1>3
  <2> HIDE DEF e, T
  <2>2. a \in Seq(T) /\ Len(a) = 1 /\ DOMAIN a = 1..1 /\ a[1] = e
    BY <2>1
  <2>3. \A i \in 1..1 : i = 1
    OBVIOUS
  <2> HIDE DEF a
  <2>4. AttrsOK(a, Letters)
    BY <2>1, <2>2, <2>3 DEF AttrsOK, Distinct
  <2> QED
    BY <2>2, <2>4 DEF a, e, T
<1>4. ASSUME NEW k \in {"id", "name"}, NEW l \in {"id", "name"}, k # l,
             NEW x \in Seq(Letters), NEW y \in Seq(Letters)
      PROVE  OK(<<Attr(k, x), Attr(l, y)>>)
  <2> DEFINE e == Attr(k, x)
             g == Attr(l, y)
             a == <<e, g>>
  <2>1. /\ e \in T /\ e.value \in Seq(Letters) /\ g \in T /\ g.value \in Seq(Letters)
        /\ e.key # g.key
    BY <1>2, <1>4
  <2> HIDE DEF e, g, T
  <2>2. a \in Seq(T) /\ Len(a) = 2 /\ DOMAIN a = 1..2 /\ a[1] = e /\ a[2] = g
    BY <2>1
  <2>3. \A i \in 1..2 : i = 1 \/ i = 2
    OBVIOUS
  <2> HIDE DEF a
  <2>4. AttrsOK(a, Letters)
    BY <2>1, <2>2, <2>3 DEF AttrsOK, Distinct
  <2> QED
    BY <2>2, <2>4 DEF a, e, g, T
<1> HIDE DEF OK
<1>5. OK(<<Attr("id", <<"1">>), Attr("name", <<"a", "/", "c">>)>>)
  BY <1>1, <1>4
<1>6. OK(<<Attr("name", <<".">>), Attr("id", <<"2">>)>>)
  BY <1>1, <1>4
<1>7. OK(<<Attr("name", <<"t">>)>>)
  BY <1>1, <1>3
<1>8. OK(attr)
  BY <1>5, <1>6, <1>7 DEF ArtistAttrs
<1> QED
  BY <1>8 DEF OK, T

\* The inputs with roots, of any number of parts.
PickedRoot == \E n \in Nat : input.blocks \in [1..n -> Blocks]

LEMMA PickedBlocks == ASSUME PickedRoot PROVE BlocksOK(input.blocks, ArtistAttrs)
<1> DEFINE blocks == input.blocks
<1>1. PICK n \in Nat : blocks \in [1..n -> Blocks]
  BY DEF PickedRoot
<1>2. Len(blocks) = n /\ DOMAIN blocks = 1..n
  <2> HIDE DEF blocks
  <2>1. blocks \in Seq(Blocks)
    BY <1>1
  <2> QED
    BY <1>1, <2>1, LenProperties
<1>3. ASSUME NEW k \in 1..n
      PROVE  blocks[k].index \in {"named", "unnamed", "outside"} /\ blocks[k].artists \in Seq(ArtistAttrs)
  <2> DEFINE block == blocks[k]
             Tuples == UNION {[1..m -> ArtistAttrs] : m \in 0..2}
  <2>1. block \in Blocks
    BY <1>1
  <2> HIDE DEF block, blocks
  <2>2. block \in [index : {"named", "unnamed", "outside"}, artists : Tuples]
    BY <2>1 DEF Blocks
  <2>3. block.index \in {"named", "unnamed", "outside"} /\ block.artists \in Tuples
    <3> HIDE DEF Tuples
    <3> QED
      BY <2>2
  <2>4. PICK m \in 0..2 : block.artists \in [1..m -> ArtistAttrs]
    BY <2>3
  <2>5. block.artists \in Seq(ArtistAttrs)
    <3>1. m \in Nat
      OBVIOUS
    <3> QED
      BY <2>4, <3>1
  <2> QED
    BY <2>3, <2>5 DEF block
<1> HIDE DEF blocks
<1>4. BlocksOK(blocks, ArtistAttrs)
  BY <1>1, <1>2, <1>3 DEF BlocksOK
<1> QED
  BY <1>4 DEF blocks

LEMMA IndexesListed == ASSUME PickedRoot PROVE IndexesFilled
<1> DEFINE blocks == input.blocks
           doc == RootEvents(blocks)
           start == [table |-> LinkTable_alloc(0), current |-> 0]
           table == sonic_LinkTable_new_id3(0, doc)
           S == Named(blocks)
           clean == sanitise_LinkTable(RootParsed(Closed(<<>>), doc).table)
<1>1. BlocksOK(blocks, ArtistAttrs)
  BY PickedBlocks
<1>2. \A attr \in ArtistAttrs : AttrsOK(attr, Letters)
  BY ArtistAttrsOK
<1>3. doc \in Seq(Happening(ArtistAttrs))
  <2> HIDE DEF blocks
  <2> QED
    BY <1>1, BlocksParsed
<1>4. doc # None
  <2> DEFINE T == [key : Keys, value : Seq(Letters)]
             B == ArtistAttrs \cup {NamedAttr, <<>>}
  <2>1. B \subseteq Seq(T)
    <3>1. \A attr \in ArtistAttrs : attr \in Seq(T)
      BY ArtistAttrsOK
    <3>2. NamedAttr \in Seq(T)
      <4>1. <<"I">> \in Seq(Letters) /\ "name" \in Keys
        <5>1. "I" \in Letters
          BY DEF Letters
        <5> QED
          BY <5>1 DEF Keys
      <4>2. Attr("name", <<"I">>) \in T
        <5> DEFINE W == Seq(Letters)
                   v == <<"I">>
        <5>1. v \in W
          BY <4>1
        <5> HIDE DEF W, v
        <5>2. [key |-> "name", value |-> v] \in [key : Keys, value : W]
          BY <4>1, <5>1
        <5> QED
          BY <5>2 DEF Attr, W, v
      <4> HIDE DEF T
      <4> QED
        BY <4>2 DEF NamedAttr
    <3>3. <<>> \in Seq(T)
      <4> HIDE DEF T
      <4> QED
        BY EmptySeq
    <3> HIDE DEF T
    <3> QED
      BY <3>1, <3>2, <3>3
  <2>2. Happening(ArtistAttrs) \subseteq Event
    <3> HIDE DEF T
    <3>1. "artist" \in Elems /\ "index" \in Elems
      BY DEF Elems
    <3> HIDE DEF B
    <3>2. [kind : {"start", "end"}, elem : {"artist", "index"}, attr : B]
            \subseteq [kind : {"start", "end"}, elem : Elems, attr : Seq(T)]
      BY <2>1, <3>1
    <3> QED
      BY <3>2 DEF Happening, Event, B, T
  <2>3. doc \in Seq(Event)
    <3> HIDE DEF doc
    <3> DEFINE H == Happening(ArtistAttrs)
    <3>1. doc \in Seq(H) /\ H \subseteq Event
      BY <1>3, <2>2
    <3> HIDE DEF H
    <3> QED
      BY <3>1
  <2> QED
    BY <2>3, AnswersAssumption, Zenon DEF AnswersAssumption
<1>5. table = clean
  <2>1. start = Closed(<<>>)
    BY DEF LinkTable_alloc, Closed, Table
  <2> HIDE DEF doc
  <2>2. table = sanitise_LinkTable(RootParsed(start, doc).table)
    BY <1>4 DEF sonic_LinkTable_new_id3
  <2> HIDE DEF start
  <2> QED
    BY <2>1, <2>2
<1>6. /\ Len(clean.links) = Cardinality(S)
      /\ \A k \in S : ArtistsFilled(clean.links[Place(S, k)].next_table, blocks[k].artists)
  <2> HIDE DEF blocks
  <2> QED
    BY <1>1, <1>2, RootTellsArtists
<1>7. doc = FlattenSeq([k \in DOMAIN blocks |-> Events(blocks[k])])
  BY DEF RootEvents
<1>8. S = {k \in DOMAIN blocks : blocks[k].index = "named"}
  BY DEF Named
<1> DEFINE links == table.links
<1>9. /\ Len(links) = Cardinality(S)
      /\ \A k \in S : ArtistsFilled(links[Place(S, k)].next_table, blocks[k].artists)
  <2> HIDE DEF table, clean, S, blocks
  <2> QED
    BY <1>5, <1>6
<1> HIDE DEF doc, S, blocks
<1> QED
  BY <1>7, <1>8, <1>9, Zenon DEF IndexesFilled, blocks

\* What is picked is such an answer.
SonicOK == input # None => /\ input.kind = "element" => PickedElement
                           /\ input.kind = "root" => PickedRoot

LEMMA SonicOKStep == ASSUME SonicOK, [Next]_input PROVE SonicOK'
<1>1. ASSUME PickElement PROVE SonicOK'
  <2>1. PICK depth \in Id3Depths, elem \in {"child", "artist", "album", "song", "genre"},
             attr \in AttrLists :
          input' = [kind |-> "element", depth |-> depth, elem |-> elem, attr |-> attr]
    BY <1>1, Zenon DEF PickElement
  <2>2. elem \in Elems
    BY DEF Elems
  <2> QED
    BY <2>1, <2>2 DEF SonicOK, PickedElement
<1>2. ASSUME PickRoot PROVE SonicOK'
  <2>1. PICK n \in 1..3 : \E blocks \in [1..n -> Blocks] :
          input' = [kind |-> "root", blocks |-> blocks]
    BY <1>2, Zenon DEF PickRoot
  <2>2. PICK blocks \in [1..n -> Blocks] : input' = [kind |-> "root", blocks |-> blocks]
    BY <2>1, Zenon
  <2>3. n \in Nat
    OBVIOUS
  <2>4. PickedRoot'
    BY <2>2, <2>3 DEF PickedRoot
  <2> QED
    BY <2>2, <2>4 DEF SonicOK
<1>3. ASSUME PickPage PROVE SonicOK'
  BY <1>3 DEF PickPage, SonicOK
<1>4. ASSUME PickRead PROVE SonicOK'
  BY <1>4 DEF PickRead, SonicOK
<1>5. CASE UNCHANGED input
  BY <1>5 DEF SonicOK, PickedElement, PickedRoot
<1>6. CASE input' = None
  BY <1>6 DEF SonicOK
<1> QED
  BY <1>1, <1>2, <1>3, <1>4, <1>5, <1>6 DEF Next

(* The tables of a Subsonic server are what its answers say (SonicListings):  *)
(* an element in every order of its attributes, a root of any number of parts. *)
THEOREM SonicTablesTell == Spec => []SonicListings
<1>1. Init => SonicOK
  BY DEF Init, SonicOK
<1>2. SonicOK => SonicListings
  <2> SUFFICES ASSUME SonicOK, input # None
               PROVE  /\ input.kind = "element" => ElementListed
                      /\ input.kind = "root" => IndexesFilled
    BY DEF SonicListings
  <2>1. PickedElement => ElementListed
    BY ElementsListed
  <2>2. PickedRoot => IndexesFilled
    BY IndexesListed
  <2> QED
    BY <2>1, <2>2 DEF SonicOK
<1> QED
  BY <1>1, <1>2, SonicOKStep, PTL DEF Spec
=============================================================================
