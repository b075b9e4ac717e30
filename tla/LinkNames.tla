------------------------------- MODULE LinkNames ------------------------------
(***************************************************************************)
(* From the hrefs of a page to the links of a directory: HTML_to_LinkTable *)
(* and the helpers it classifies and names a link with, LinkHashSet, which *)
(* drops a name that is there already, and the names LinkTable_fill gives  *)
(* in the end (link.c).                                                    *)
(*                                                                         *)
(* A text is a sequence of characters; an escape such as %61 is one, and   *)
(* so are "http:" and a host.                                              *)
(***************************************************************************)
EXTENDS Integers, FiniteSets, Sequences, SequencesExt

CONSTANTS Byte,            \* the character codes, a function
          Unescape,        \* what curl_easy_unescape makes of an escape
          Unprintable,     \* the characters isprint() refuses
          Page,            \* the page's URL, a text
          ExternalLinks,   \* CONFIG.external_links
          FirstCapacity    \* what LinkHashSet_new is given, 4096 in the code

Underscore == "_"

ASSUME NamesAssumption ==
  /\ \A char \in DOMAIN Byte : Byte[char] \in Nat
  /\ \A escape \in DOMAIN Unescape : Unescape[escape] \in DOMAIN Byte
  /\ Underscore \in DOMAIN Byte
  /\ DOMAIN Unescape \cap {"http:", "https:"} = {}
  /\ FirstCapacity \in 1..4096
  /\ ExternalLinks \in BOOLEAN

\* A page is got by HTTP from some host.
ASSUME PageAssumption ==
  /\ Page \in Seq(DOMAIN Byte) /\ Len(Page) >= 4
  /\ Page[1] \in {"http:", "https:"} /\ Page[2] = "/" /\ Page[3] = "/"
  /\ Page[4] \notin {"/", "?", "#"}

\* The low bits of a hash that are kept: enough for as many buckets.
HashSpan == 65536
HashSeed == 5381

Decoded(char) == IF char \in DOMAIN Unescape THEN Unescape[char] ELSE char
curl_easy_unescape(text) == [i \in DOMAIN text |-> Decoded(text[i])]

EndsInSlash(text) == text # <<>> /\ Last(text) = "/"
Slashes(text) == {i \in DOMAIN text : text[i] = "/"}
Earliest(S) == CHOOSE i \in S : \A j \in S : i <= j
Latest(S) == CHOOSE i \in S : \A j \in S : j <= i

-----------------------------------------------------------------------------
(* LinkHashSet: open addressing over a power of two of buckets. *)

\* The length of a text without the slashes at its end.
BareLength(text) ==
  LET kept == {i \in DOMAIN text : text[i] # "/"}
  IN  IF kept = {} THEN 0 ELSE Latest(kept)

HashOf(text) ==
  LET hash[n \in 0 .. Len(text)] ==
        IF n = 0 THEN HashSeed ELSE (33 * hash[n - 1] + Byte[text[n]]) % HashSpan
  IN  hash[Len(text)]

\* Mutant: the slash of a directory is hashed too.
link_hash_str_slash(text) == HashOf(text)

link_hash_str(text) == HashOf(SubSeq(text, 1, BareLength(text)))

link_linknames_equal(a, b) ==
  LET shorter == IF Len(a) <= Len(b) THEN a ELSE b
      longer  == IF Len(a) <= Len(b) THEN b ELSE a
  IN  /\ Len(longer) - Len(shorter) <= 1
      /\ shorter # <<>>
      /\ IsPrefix(shorter, longer)
      /\ Len(longer) > Len(shorter) => Last(longer) = "/"

Free == <<>>

LinkHashSet_new(capacity) ==
  LET power == CHOOSE p \in {2 ^ k : k \in 0..12} :
                 p >= capacity /\ (p = 1 \/ p \div 2 < capacity)
  IN  [capacity |-> power, buckets |-> [b \in 0 .. power - 1 |-> Free], size |-> 0]

\* The first bucket from the name's own on, around the end, that holds one of
\* these.
Probe(set, name, sought) ==
  LET At(i) == (link_hash_str(name) + i) % set.capacity
      ends == {i \in 0 .. set.capacity - 1 : set.buckets[At(i)] \in sought}
  IN  At(Earliest(ends))

Put(set, name) == [set EXCEPT !.buckets[Probe(set, name, {Free})] = name]

Doubled(set) ==
  [capacity |-> 2 * set.capacity, size |-> set.size,
   buckets |-> [b \in 0 .. 2 * set.capacity - 1 |-> Free]]

\* What one of the old buckets holds goes into the new ones.
Moved(set, old) == IF old = Free THEN set ELSE Put(set, old)

LinkHashSet_resize(set) ==
  LET moved[n \in 0 .. set.capacity] ==
        IF n = 0 THEN Doubled(set) ELSE Moved(moved[n - 1], set.buckets[n - 1])
  IN  moved[set.capacity]

\* [added, set]: whether the name is new, and the set then.
LinkHashSet_add(set, name) ==
  LET roomy == IF set.size >= set.capacity \div 2 THEN LinkHashSet_resize(set) ELSE set
      equal == {held \in Range(roomy.buckets) : link_linknames_equal(held, name)}
      bucket == Probe(roomy, name, {Free} \cup equal)
  IN  IF roomy.buckets[bucket] = Free
      THEN [added |-> TRUE,
            set |-> [roomy EXCEPT !.buckets[bucket] = name, !.size = @ + 1]]
      ELSE [added |-> FALSE, set |-> roomy]

-----------------------------------------------------------------------------
(* Hrefs. *)

is_external_url(url) == url # <<>> /\ url[1] \in {"http:", "https:"}

\* The text before the first of these characters.
Before(text, chars) ==
  LET at == {i \in DOMAIN text : text[i] \in chars}
  IN  IF at = {} THEN text ELSE SubSeq(text, 1, Earliest(at) - 1)

\* The position of the third slash, 0 when there are fewer.
ThirdSlash(url) ==
  LET thirds == {i \in Slashes(url) : Cardinality({j \in Slashes(url) : j <= i}) = 3}
  IN  IF thirds = {} THEN 0 ELSE Earliest(thirds)

\* Scheme, host and port.
UpToPath(url, third) == IF third = 0 THEN url ELSE SubSeq(url, 1, third - 1)

WithPort(origin) ==
  IF Last(origin) \in {":80", ":443"} THEN origin
  ELSE Append(origin, IF origin[1] = "https:" THEN ":443" ELSE ":80")

parse_origin(url) ==
  LET plain == Before(url, {"?", "#"})
  IN  WithPort(UpToPath(plain, ThirdSlash(plain)))

is_cross_origin(page_url, link_url) == parse_origin(page_url) # parse_origin(link_url)

WithoutSlash(text) == IF EndsInSlash(text) THEN Front(text) ELSE text

AfterLastSlash(text) == SubSeq(text, Latest({0} \cup Slashes(text)) + 1, Len(text))

\* The last component of a URL's path, a slash at its very end aside; `third' is
\* where the path begins.
Basename(url, third) ==
  IF third = 0 THEN <<>>
  ELSE AfterLastSlash(WithoutSlash(
         Before(SubSeq(url, third + 1, Len(url)), {"?", "#"})))

SlashesReplaced(text) == [i \in DOMAIN text |-> IF text[i] = "/" THEN Underscore ELSE text[i]]

\* Mutant: an escaped slash comes out as a slash.
external_url_to_filename_slash(url) == curl_easy_unescape(Basename(url, ThirdSlash(url)))

external_url_to_filename(url) ==
  SlashesReplaced(curl_easy_unescape(Basename(url, ThirdSlash(url))))

\* The page's own path, when the page has one; a site's root may lack its slash.
PagePath(page_url) ==
  IF ThirdSlash(page_url) # 0 THEN SubSeq(page_url, ThirdSlash(page_url), Len(page_url))
  ELSE IF Cardinality(Slashes(page_url)) = 2 THEN <<"/">> ELSE <<>>

make_link_relative(page_url, link_url) ==
  LET path == PagePath(page_url)
  IN  IF IsPrefix(<<".", "/">>, link_url) THEN SubSeq(link_url, 3, Len(link_url))
      ELSE IF /\ IsPrefix(<<"/">>, link_url)
              /\ EndsInSlash(path)
              /\ IsPrefix(path, link_url)
           THEN SubSeq(link_url, Len(path) + 1, Len(link_url))
      ELSE link_url

\* A link into a subdirectory becomes a link to it; a full URL stays.
Truncated(url) ==
  LET slash == Earliest(Slashes(url))
  IN  IF /\ Slashes(url) # {} /\ 1 \notin Slashes(url)
         /\ url[slash - 1] \notin {"http:", "https:"}
         /\ slash < Len(url) => url[slash + 1] # "/"
      THEN SubSeq(url, 1, slash) ELSE url

linkname_to_LinkType(name) ==
  IF name = <<>> \/ name[1] = "/" THEN "LINK_INVALID"
  ELSE IF \E i \in DOMAIN name : name[i] \in Unprintable THEN "LINK_INVALID"
  ELSE IF Slashes(name) # {} /\ Earliest(Slashes(name)) # Len(name) THEN "LINK_INVALID"
  ELSE IF EndsInSlash(name) THEN "LINK_UNINITIALISED_DIR"
  ELSE "LINK_UNINITIALISED_FILE"

-----------------------------------------------------------------------------
(* The links of a page. *)

Link_new(name, type, f_url) ==
  [linkname |-> WithoutSlash(name),
   linkpath |-> name, type |-> type, f_url |-> f_url]

External(href) ==
  ExternalLinks /\ is_external_url(href) /\ is_cross_origin(Page, href)

\* [name, type, f_url] of the link an href gives, before duplicates are dropped.
ExternalLink(href, name) ==
  [name |-> name, f_url |-> href,
   type |-> IF name \in {<<>>, <<".">>, <<".", ".">>} THEN "LINK_INVALID"
            ELSE IF EndsInSlash(Before(href, {"?", "#"})) THEN "LINK_UNINITIALISED_DIR"
            ELSE "LINK_UNINITIALISED_FILE"]

RelativeLink(name) ==
  [name |-> name, f_url |-> <<>>, type |-> linkname_to_LinkType(name)]

HrefLink(href) ==
  IF External(href) THEN ExternalLink(href, external_url_to_filename(href))
  ELSE RelativeLink(Truncated(make_link_relative(Page, href)))

\* The set after an attempt to add a link's name, and the links.
Listed(links, link, add) ==
  [set |-> add.set,
   links |-> IF add.added
             THEN Append(links, Link_new(link.name, link.type, link.f_url)) ELSE links]

AddLink(acc, link) ==
  IF link.type = "LINK_INVALID" THEN acc
  ELSE Listed(acc.links, link, LinkHashSet_add(acc.set, link.name))

\* One <a> element; acc is the set and the links so far.
HTML_to_LinkTable(acc, href) == AddLink(acc, HrefLink(href))

\* hrefs: those of the page's <a> elements, in the order of the document.
LinkTable_parse_html(hrefs) ==
  LET acc[n \in 0 .. Len(hrefs)] ==
        IF n = 0 THEN [set |-> LinkHashSet_new(FirstCapacity), links |-> <<>>]
        ELSE HTML_to_LinkTable(acc[n - 1], hrefs[n])
  IN  acc[Len(hrefs)].links

path_append(path, filename) ==
  LET kept == {i \in DOMAIN filename : filename[i] # "/"}
      tail == IF kept = {} THEN <<>> ELSE SubSeq(filename, Earliest(kept), Len(filename))
  IN  IF EndsInSlash(path) THEN path \o tail ELSE Append(path, "/") \o tail

\* The links' addresses and names in the end; an external link has both.
LinkTable_fill(links) ==
  [i \in DOMAIN links |->
     IF links[i].f_url # <<>> THEN links[i]
     ELSE [links[i] EXCEPT !.f_url = path_append(Page, links[i].linkpath),
                           !.linkname = curl_easy_unescape(@)]]

\* The listing of --single-file-mode: the file the URL names.
single_LinkTable_new(url) ==
  LET name == curl_easy_unescape(SubSeq(url, Latest(Slashes(url)) + 1, Len(url)))
  IN  <<Link_new(name, "LINK_UNINITIALISED_FILE", url)>>

\* fs_readdir: the names given to FUSE.
fs_readdir(links) ==
  LET valid == {i \in DOMAIN links : links[i].type # "LINK_INVALID"}
      Nth(n) == CHOOSE i \in valid : Cardinality({j \in valid : j <= i}) = n
  IN  <<<<".">>, <<".", ".">>>> \o [n \in 1 .. Cardinality(valid) |-> links[Nth(n)].linkname]

-----------------------------------------------------------------------------
(* Where a directory's listing and files are cached. *)

Flat(char) == CASE char = "/" -> Underscore
                [] char = "http:" -> "http_"
                [] char = "https:" -> "https_"
                [] OTHER -> char

\* Dots two by two from the left: these go, a single one stays.
PairedDot(text, i) ==
  LET run == {k \in 1..i : \A j \in k..i : text[j] = "."}
      odd == (i - Earliest(run)) % 2 = 1
  IN  /\ text[i] = "."
      /\ odd \/ (i < Len(text) /\ text[i + 1] = ".")

\* The root is Page, and ROOT_LINK_OFFSET the length of its URL without the
\* slash at the end.
url_to_cache_path(url) ==
  LET whole == curl_easy_unescape(url)
      offset == IF EndsInSlash(Page) THEN Len(Page) - 1 ELSE Len(Page)
  IN  IF is_cross_origin(Page, url)
      THEN [i \in DOMAIN whole |-> IF PairedDot(whole, i) THEN Underscore ELSE Flat(whole[i])]
      ELSE curl_easy_unescape(IF Len(url) >= offset
                              THEN SubSeq(url, offset + 1, Len(url)) ELSE url)
=============================================================================
