----------------------------- MODULE MCAlgorithms -----------------------------
(***************************************************************************)
(* The program's pure parts on every small input: how a read is cut and    *)
(* its ranges asked for (ReadSplit), which links a page gives (LinkNames), *)
(* which tables a Subsonic server's answers give (SonicParse).  A step     *)
(* picks an input; the properties say of it what must come out.            *)
(***************************************************************************)
EXTENDS ReadSplit, LinkNames, SonicParse

CONSTANTS MaxSize, MaxHrefs

VARIABLE input

-----------------------------------------------------------------------------
(* Constants' values. *)

MCByte == "a" :> 97 @@ "b" :> 98 @@ "e" :> 101 @@ "d" :> 100 @@ "_" :> 95
            @@ "host" :> 3 @@ "other" :> 4 @@ "." :> 46 @@ "/" :> 47 @@ "?" :> 63 @@ "%61" :> 7 @@ "%2F" :> 8
            @@ "http:" :> 9 @@ "https:" :> 10 @@ "\t" :> 11
MCUnescape == "%61" :> "a" @@ "%2F" :> "/"
MCUnprintable == {"\t"}
MCPage == <<"http:", "/", "/", "host", "/", "d", "/">>

-----------------------------------------------------------------------------
(* Reads. *)

Fine(body) == [body |-> body, ranged |-> TRUE]
Bare(body) == [body |-> body, ranged |-> FALSE]

ReplySeqs == {<<Fine("range")>>, <<Fine("temp"), Fine("range")>>,
              <<Fine("short"), Fine("whole"), Fine("range")>>, <<Fine("whole")>>,
              <<Fine("unsat"), Fine("range")>>,
              <<Fine("gone")>>, <<Bare("temp")>>, <<Bare("whole")>>}

\* What another thread meets, with any of its answers copied early, or none.
EarlySeqs == {<<Fine("range")>>, <<Fine("short"), Fine("whole"), Fine("range")>>,
              <<Fine("unsat"), Fine("temp"), Fine("range")>>, <<Fine("gone")>>}

Segments ==
  [stored : {"whole", "torn", "broken"}] \cup [replies : ReplySeqs]
    \cup [replies : EarlySeqs, early : 0..3, again : {<<Fine("range")>>}]

Configs == {[cached |-> FALSE, min |-> -1, max |-> -1],
            [cached |-> TRUE, min |-> -1, max |-> -1],
            [cached |-> TRUE, min |-> 2, max |-> 4]}

\* Without a cache of the file one sequence of replies is enough, with one the
\* segments are.
PickRead ==
  \E size \in 0..MaxSize, config \in Configs :
  \E len \in 0 .. MaxSize + 1, offset \in 0 .. MaxSize :
  \E replies \in IF fs_open(size, config) = "bypass" THEN ReplySeqs
                 ELSE {<<Fine("range")>>} :
  \E segs \in IF fs_open(size, config) = "cache"
              THEN [0 .. Segbc(size) - 1 -> Segments] ELSE {<<>>} :
    /\ offset + len <= MaxSize + 2
    /\ input' = [kind |-> "read", size |-> size, len |-> len, offset |-> offset,
                 config |-> config, replies |-> replies, segs |-> segs]

\* The positions a read is about.
Wanted(in) == {p \in in.offset .. in.offset + in.len - 1 : p < in.size}

\* The server comes to send the range after answers that count for nothing.
Answered(replies) ==
  \E i \in DOMAIN replies :
    /\ replies[i].body = "range"
    /\ \A j \in 1..i : NoRangeCheck \/ replies[j].ranged
    /\ \A j \in 1 .. i - 1 : replies[j].body # "gone"

Sound(in) ==
  IF fs_open(in.size, in.config) = "bypass" THEN Answered(in.replies)
  ELSE \A p \in Wanted(in) :
         LET seg == in.segs[p \div Blk]
         IN  IF Seg_exist(seg) THEN seg.stored = "whole" ELSE Answered(seg.replies)

\* No 416 has a page of just the length asked for, which Link_download takes for
\* the range.
NoLookalike(n, replies) ==
  \A i \in DOMAIN replies : replies[i].body = "unsat" => ErrorPage # n

\* What is copied early is the range's, or its beginning: error pages and whole
\* files copied early are the subject of run error_bodies.
FileCopied(start, segment) ==
  segment.early \in DOMAIN segment.replies =>
    \/ segment.replies[segment.early].body \in {"range", "short"}
    \/ segment.replies[segment.early].body = "whole" /\ start = 0

Honest(in) ==
  IF fs_open(in.size, in.config) = "bypass"
  THEN NoLookalike(ReqSize(in.size, in.len, in.offset), in.replies)
  ELSE \A p \in Wanted(in) :
         LET seg == in.segs[p \div Blk]
             start == SegStart(p)
             n == ReqSize(in.size, Blk, start)
         IN  /\ ~Seg_exist(seg) => NoLookalike(n, seg.replies)
             /\ FetchedByOther(seg) => /\ FileCopied(start, seg)
                                      /\ NoLookalike(n, seg.again)

(* A read gives the bytes of the file from its offset on, however it is cut   *)
(* into segments, whichever of them are cached, also from a server that sends *)
(* the whole file for a range; it may stop early or fail, but only after a    *)
(* segment the disk does not give back or a range the server does not send.   *)
(* That holds whoever fetches and however much is copied before the transfer  *)
(* is over, unless what is copied, or taken for the range, is a page or a     *)
(* whole file.  About fs_read, Cache_read, Cache_read_segment, Link_download. *)
ReadIsSlice ==
  (input # None /\ input.kind = "read") =>
    LET read == fs_read(input.size, input.len, input.offset, input.config,
                        input.replies, input.segs)
        slice == Bytes(input.offset, Cardinality(Wanted(input)))
    IN  Honest(input) => /\ IsPrefix(read.bytes, slice)
                         /\ Sound(input) => read = Got(slice)

(* The ranges a read asks for lie inside the file, each begins at a segment's *)
(* start and stays in it, and they are exactly those of the segments read     *)
(* that are not cached, each once: Cache_read, Link_download's clamp.         *)
RequestsFit ==
  (input # None /\ input.kind = "read" /\ fs_open(input.size, input.config) = "cache") =>
    LET asked == Requested(input.size, input.len, input.offset, input.segs)
        missing == {p \div Blk : p \in Wanted(input)}
                     \cap {k \in DOMAIN input.segs : ~Seg_exist(input.segs[k])}
    IN  /\ Cardinality(DOMAIN asked) = Cardinality(missing)
        /\ \A k \in missing : \E i \in DOMAIN asked :
             /\ asked[i].first = k * Blk
             /\ asked[i].last >= asked[i].first
             /\ asked[i].last \in {p \in 0 .. input.size - 1 : p \div Blk = k}

-----------------------------------------------------------------------------
(* Pages. *)

Other(path) == <<"http:", "/", "/", "other", "/">> \o path

Hrefs == {<<"a">>, <<"a", "/">>, <<"e">>, <<"a", "b">>, <<"b", "a", "/">>, <<"%61">>,
          <<".", "/", "a">>, <<"/", "d", "/", "a", "/", "b">>, <<"/">>, <<"\t">>,
          <<"http:", "/", "/", "host", "/", "d", "/", "b">>,
          <<"https:", "/", "/", "host", "/", "d", "/", "e", "/", "?", "/">>,
          Other(<<"b", "/", "a">>), Other(<<"%2F">>), Other(<<"b", "/", ".", ".">>),
          Other(<<".", ".", "/", "e", "/">>),
          <<"http:", "/", "/", "other">>}

ASSUME HrefsAssumption == Hrefs \subseteq Seq(DOMAIN Byte)

PickPage == \E n \in 1..MaxHrefs : \E hrefs \in [1..n -> Hrefs] :
              input' = [kind |-> "page", hrefs |-> hrefs]

\* `listed' has those of these links that are valid and the first of their
\* names, a directory's slash aside.
FirstListed(link, listed) ==
  LET valid == {i \in DOMAIN link : link[i].type # "LINK_INVALID"}
      first == {i \in valid : \A j \in valid :
                  j < i => WithoutSlash(link[j].name) # WithoutSlash(link[i].name)}
  IN  /\ Len(listed) = Cardinality(first)
      /\ \A i \in first :
           LET at == listed[Cardinality({j \in first : j <= i})]
           IN  /\ at.linkname = WithoutSlash(link[i].name)
               /\ at.type = link[i].type /\ at.f_url = link[i].f_url

(* A page's listing has a link for each name the page's valid hrefs give, and *)
(* it is the first href's, whatever the hashes, the resizes of the set and    *)
(* the slash of a directory do: "First-wins: skip if a link with this name    *)
(* already exists" (link.c).  HTML_to_LinkTable, LinkHashSet.                 *)
FirstWins ==
  (input # None /\ input.kind = "page") =>
    FirstListed([i \in DOMAIN input.hrefs |-> HrefLink(input.hrefs[i])],
                LinkTable_parse_html(input.hrefs))

Component(text) == text \notin {<<>>, <<".">>, <<".", ".">>} /\ Slashes(text) = {}

ComponentsOnly(links) ==
  \A i \in DOMAIN links :
    is_cross_origin(Page, links[i].f_url) =>
      /\ Component(fs_readdir(links)[i + 2])
      /\ Component(url_to_cache_path(links[i].f_url))

(* The name an external link is listed with is one component of a path: not   *)
(* empty, not "." or "..", no slash, and so is the name its directory is      *)
(* cached under, whatever its URL escapes ("to prevent directory traversal or *)
(* invalid FUSE entry creations", "safely flattened", USAGE.md).              *)
(* external_url_to_filename, LinkTable_fill, fs_readdir, url_to_cache_path.   *)
ExternalNamesClean ==
  (input # None /\ input.kind = "page") =>
    ComponentsOnly(LinkTable_fill(LinkTable_parse_html(input.hrefs)))

-----------------------------------------------------------------------------
(* Answers of a Subsonic server. *)

Letters == {"1", "2", "x", "y", "/", ".", "t", "a", "c", "I", "false", "true"}

Keys == {"id", "path", "title", "name", "isDir"}
Elems == {"child", "artist", "album", "song", "genre", "index"}
Event == [kind : {"start", "end"}, elem : Elems,
          attr : Seq([key : Keys, value : Seq(Letters)])]

\* What is not there is no text and no answer.
ASSUME AnswersAssumption == None \notin Seq(Letters) /\ None \notin Seq(Event)

Attr(key, value) == [key |-> key, value |-> value]
Attrs == {Attr("id", <<"1">>), Attr("path", <<"x", "/", "y">>), Attr("path", <<".">>),
          Attr("title", <<"/">>), Attr("title", <<"t">>), Attr("name", <<"a", "/", "c">>),
          Attr("isDir", <<"false">>), Attr("isDir", <<"true">>)}

\* The attributes of an element, in any order, no key twice.
AttrLists == {attr \in UNION {[1..n -> Attrs] : n \in 0..4} :
                \A i, j \in DOMAIN attr : attr[i].key = attr[j].key => i = j}

Start(elem, attr) == [kind |-> "start", elem |-> elem, attr |-> attr]
End(elem) == [kind |-> "end", elem |-> elem, attr |-> <<>>]

PickElement ==
  \E depth \in Id3Depths, elem \in {"child", "artist", "album", "song", "genre"},
     attr \in AttrLists :
    input' = [kind |-> "element", depth |-> depth, elem |-> elem, attr |-> attr]

\* The elements a table of this depth is made of.
Members(depth) ==
  CASE depth = 0 -> {"child", "artist"}
    [] depth = 3 -> {"child", "album"}
    [] depth = 4 -> {"child", "artist", "song"}

(* An element is listed when it has an id and a name, under the last part of  *)
(* its path wherever the path comes among the attributes, else under the      *)
(* title or name that comes first; the name has no slash in it and is not ".";*)
(* a song is streamed by its id, and an album opens with a request for its    *)
(* songs.  XML_parser_general, sanitise_LinkTable.                            *)
ElementListed ==
  LET doc == <<Start(input.elem, input.attr), End(input.elem)>>
        \* In index mode every table has depth 0.
        table == IF input.depth = 0 THEN sonic_LinkTable_new_index(doc)
                 ELSE sonic_LinkTable_new_id3(input.depth, doc)
        named == {i \in DOMAIN input.attr : input.attr[i].key \in {"path", "title", "name"}}
        paths == {i \in named : input.attr[i].key = "path"}
        source == IF paths # {} THEN Earliest(paths) ELSE Earliest(named)
        name == input.attr[source].value
        clean == CASE name = <<".">> -> <<"__DOT__">>
                   [] name = <<"/">> -> <<"__FORWARD-SLASH__">>
                   [] name = <<"x", "/", "y">> -> <<"y">>
                   [] name = <<"a", "/", "c">> -> <<"a", "-", "c">>
                   [] OTHER -> name
        link == table.links[1]
    IN  IF input.elem \in Members(input.depth) /\ Set(input.attr, "id") /\ named # {}
        THEN /\ Len(table.links) = 1
             /\ link.linkname = clean
             /\ (link.type = "LINK_FILE") <=>
                  \/ input.elem = "song"
                  \/ \E i \in DOMAIN input.attr : input.attr[i] = Attr("isDir", <<"false">>)
             /\ link.type = "LINK_FILE" => link.f_url = <<"stream", Value(input.attr, "id")>>
             /\ input.elem = "album" =>
                  Id3Request(link.depth, link.id) = <<"getAlbum", Value(input.attr, "id")>>
        ELSE table.links = <<>>

\* A part of the root: an index, named or not, or artists outside of any.
ArtistAttrs == {<<Attr("id", <<"1">>), Attr("name", <<"a", "/", "c">>)>>,
                <<Attr("name", <<".">>), Attr("id", <<"2">>)>>,
                <<Attr("name", <<"t">>)>>}
Blocks == [index : {"named", "unnamed", "outside"},
           artists : UNION {[1..n -> ArtistAttrs] : n \in 0..2}]

PickRoot == \E n \in 1..3 : \E blocks \in [1..n -> Blocks] :
              input' = [kind |-> "root", blocks |-> blocks]

Events(block) ==
  LET artists == FlattenSeq([i \in DOMAIN block.artists |->
                   <<Start("artist", block.artists[i]), End("artist")>>])
      attr == IF block.index = "named" THEN <<Attr("name", <<"I">>)>> ELSE <<>>
  IN  IF block.index = "outside" THEN artists
      ELSE <<Start("index", attr)>> \o artists \o <<End("index")>>

\* Where the member i of these numbers comes among them.
Place(numbers, i) == Cardinality({j \in numbers : j <= i})

\* The links of artists with these attributes.
ArtistsFilled(artists, attrs) ==
  LET whole == {i \in DOMAIN attrs : Set(attrs[i], "id") /\ Set(attrs[i], "name")}
  IN  /\ Len(artists) = Cardinality(whole)
      /\ \A i \in whole :
           LET artist == artists[Place(whole, i)]
           IN  /\ Slashes(artist.linkname) = {}
               /\ Id3Request(artist.depth, artist.id) = <<"getArtist", Value(attrs[i], "id")>>

(* The root of ID3 mode has the named indexes in their order, and under each  *)
(* exactly the artists written inside it that have an id and a name, each to  *)
(* open with a request for its albums: none of another index, none from       *)
(* outside ("The previous ... heuristic mis-parents artists", sonic.c).       *)
IndexesFilled ==
  LET doc == FlattenSeq([i \in DOMAIN input.blocks |-> Events(input.blocks[i])])
      table == sonic_LinkTable_new_id3(0, doc)
      named == {k \in DOMAIN input.blocks : input.blocks[k].index = "named"}
  IN  /\ Len(table.links) = Cardinality(named)
      /\ \A k \in named :
           ArtistsFilled(table.links[Place(named, k)].next_table, input.blocks[k].artists)

(* The tables of a Subsonic server are what its answers say: every element,   *)
(* in every order of its attributes, and every root of up to three parts.     *)
(* sonic_LinkTable_new_index and _id3 with their handlers.                    *)
SonicListings ==
  input # None => /\ input.kind = "element" => ElementListed
                  /\ input.kind = "root" => IndexesFilled

-----------------------------------------------------------------------------

Init == input = None

\* Only one input is looked at, so the next is picked after it is put back.
Next == \/ input = None /\ (PickRead \/ PickPage \/ PickElement \/ PickRoot)
        \/ input # None /\ input' = None

Spec == Init /\ [][Next]_input
=============================================================================
