------------------------------ MODULE SonicParse ------------------------------
(***************************************************************************)
(* The listings of a Subsonic server (sonic.c): XML_parser_general and     *)
(* XML_parser_id3_root, the handlers expat calls for each element of an    *)
(* answer, and sanitise_LinkTable, run over the table they leave.          *)
(*                                                                         *)
(* A text is a sequence of characters.  An event is what expat reports:    *)
(* [kind |-> "start", elem, attr] or [kind |-> "end", elem], attr being    *)
(* the [key, value] of the element in their order.                         *)
(***************************************************************************)
EXTENDS Integers, Sequences

CONSTANT None    \* an id, a name, a type or a table that is not there

ASSUME NoneAssumption == None \notin {"LINK_DIR", "LINK_FILE"}

NoTable == <<>>

\* A link before any attribute is read.
Blank(type, depth) ==
  [id |-> None, linkname |-> None, type |-> type, depth |-> depth,
   content_length |-> 0, f_url |-> None, next_table |-> NoTable]

\* LinkTable_alloc, whose head link holds the depth; links[0] itself is left out.
LinkTable_alloc(depth) == [depth |-> depth, links |-> <<>>]

LinkTable_add(table, link) == [table EXCEPT !.links = Append(@, link)]

-----------------------------------------------------------------------------
(* XML_parser_general: everything but the root of ID3 mode. *)

\* The link an element may become; a type of None: it is not of the directory.
NewLink(elem, depth) ==
  IF elem = "child" \/ (elem = "artist" /\ depth # 3) THEN Blank("LINK_DIR", 0)
  ELSE IF elem = "album" /\ depth = 3 THEN Blank("LINK_DIR", 4)
  ELSE IF elem = "song" /\ depth = 4 THEN Blank("LINK_FILE", 0)
  ELSE Blank(None, 0)

\* What follows the last slash.
LastComponent(text) ==
  LET slashes == {i \in DOMAIN text : text[i] = "/"}
      start == IF slashes = {} THEN 0 ELSE CHOOSE i \in slashes : \A j \in slashes : j <= i
  IN  SubSeq(text, start + 1, Len(text))

\* One attribute of an element.  "created" sets a time that is left out.
\* "track" and "suffix" have no effect: the name they would make needs a title,
\* and a title has been the name by then.
Attribute(link, a) ==
  CASE a.key = "id" -> [link EXCEPT !.id = a.value]
    [] a.key = "path" -> [link EXCEPT !.linkname = LastComponent(a.value)]
    [] a.key \in {"title", "name"} /\ link.linkname = None ->
         [link EXCEPT !.linkname = a.value]
    [] a.key = "isDir" /\ a.value = <<"false">> -> [link EXCEPT !.type = "LINK_FILE"]
    [] a.key = "size" -> [link EXCEPT !.content_length = a.value]
    [] OTHER -> link

\* A song is played from the server's stream of its id.
sonic_stream_link(id) == <<"stream", id>>

\* What a link becomes by these attributes, in their order.
AttributesRead(new, attr) ==
  LET link[n \in 0 .. Len(attr)] ==
        IF n = 0 THEN new ELSE Attribute(link[n - 1], attr[n])
  IN  link[Len(attr)]

XML_parser_general(table, event) ==
  LET new == NewLink(event.elem, table.depth)
      link == AttributesRead(new, event.attr)
  IN  IF event.kind = "end" \/ new.type = None THEN table
      ELSE IF link.linkname = None \/ link.id = None THEN table
      ELSE IF link.type = "LINK_FILE"
      THEN LinkTable_add(table, [link EXCEPT !.f_url = sonic_stream_link(link.id)])
      ELSE LinkTable_add(table, link)

\* The table once expat has reported these events.
GeneralParsed(table, doc) ==
  LET after[n \in 0 .. Len(doc)] ==
        IF n = 0 THEN table ELSE XML_parser_general(after[n - 1], doc[n])
  IN  after[Len(doc)]

-----------------------------------------------------------------------------
(* XML_parser_id3_root: the root of ID3 mode, artists under their index. *)

Set(attr, key) == \E i \in DOMAIN attr : attr[i].key = key
Value(attr, key) == attr[CHOOSE i \in DOMAIN attr : attr[i].key = key].value

\* root.current is the link whose next_table is id3_current_index_table; 0: NULL.
AddArtist(root, current, artist) ==
  [root EXCEPT !.table.links[current].next_table = Append(@, artist)]

\* Mutant: an artist goes under the index added last, open or not.
StartArtist_last(root, attr) ==
  LET last == Len(root.table.links)
      artist == [Blank("LINK_DIR", 3) EXCEPT !.id = Value(attr, "id"),
                                             !.linkname = Value(attr, "name")]
  IN  IF last = 0 \/ ~Set(attr, "id") \/ ~Set(attr, "name") THEN root
      ELSE AddArtist(root, last, artist)

StartArtist(root, attr) ==
  LET artist == [Blank("LINK_DIR", 3) EXCEPT !.id = Value(attr, "id"),
                                             !.linkname = Value(attr, "name")]
  IN  IF root.current = 0 \/ ~Set(attr, "id") \/ ~Set(attr, "name") THEN root
      ELSE AddArtist(root, root.current, artist)

\* An index without a name is no directory, and leaves the current one alone.
StartIndex(root, attr) ==
  LET index == [Blank("LINK_DIR", 0) EXCEPT !.linkname = Value(attr, "name")]
  IN  IF ~Set(attr, "name") THEN root
      ELSE [table |-> LinkTable_add(root.table, index),
            current |-> Len(root.table.links) + 1]

XML_parser_id3_root(root, event) ==
  CASE event.kind = "start" /\ event.elem = "index" -> StartIndex(root, event.attr)
    [] event.kind = "start" /\ event.elem = "artist" -> StartArtist(root, event.attr)
    [] event.kind = "end" /\ event.elem = "index" -> [root EXCEPT !.current = 0]
    [] OTHER -> root

RootParsed(root, doc) ==
  LET after[n \in 0 .. Len(doc)] ==
        IF n = 0 THEN root ELSE XML_parser_id3_root(after[n - 1], doc[n])
  IN  after[Len(doc)]

-----------------------------------------------------------------------------
(* What the tables become. *)

SanitisedName(name) ==
  IF name = <<".">> THEN <<"__DOT__">>
  ELSE IF name = <<"/">> THEN <<"__FORWARD-SLASH__">>
  ELSE [i \in DOMAIN name |-> IF name[i] = "/" THEN "-" ELSE name[i]]

Renamed(link) == [link EXCEPT !.linkname = SanitisedName(@)]

SanitisedLink(link) ==
  [Renamed(link) EXCEPT !.next_table = [i \in DOMAIN @ |-> Renamed(@[i])]]

sanitise_LinkTable(table) ==
  [table EXCEPT !.links = [i \in DOMAIN @ |-> SanitisedLink(@[i])]]

\* What is asked of the server for a table.
RootId == <<"0">>
IndexRequest(id) == IF id = RootId THEN <<"getIndexes">> ELSE <<"getMusicDirectory", id>>

\* A depth other than these ends the program.
Id3Depths == {0, 3, 4}
Id3Request(depth, id) == CASE depth = 0 -> <<"getArtists">>
                           [] depth = 3 -> <<"getArtist", id>>
                           [] depth = 4 -> <<"getAlbum", id>>

\* doc: the events of an answer, up to where it is malformed if it is; None: the
\* download came back empty, and there is no table.
sonic_LinkTable_new_index(doc) ==
  IF doc = None THEN None
  ELSE sanitise_LinkTable(GeneralParsed(LinkTable_alloc(0), doc))

sonic_LinkTable_new_id3(depth, doc) ==
  IF doc = None THEN None
  ELSE IF depth = 0
  THEN LET start == [table |-> LinkTable_alloc(0), current |-> 0]
       IN  sanitise_LinkTable(RootParsed(start, doc).table)
  ELSE sanitise_LinkTable(GeneralParsed(LinkTable_alloc(depth), doc))
=============================================================================
