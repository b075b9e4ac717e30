-------------------------- MODULE SegmentRefinement ---------------------------
(* SegmentCache implements SegmentStore. *)
EXTENDS SegmentCache

CacheExists == cache_opened > 0 \/ cf_lock # None

\* While there is no Cache object the bitmap on disk speaks for it.
StatusOf(s) == IF s \in (IF CacheExists THEN seg ELSE meta) THEN "present"
               ELSE IF ActiveDownload_find(s) = {} THEN "absent"
               ELSE "fetching"

WantOf(r) == IF Reading(r) /\ send[r] = "none" THEN dl_offset[r] ELSE None

Promise == INSTANCE SegmentStore WITH
             Segs <- Segs,
             Lax <- ~FaithfulServer,
             status <- [s \in Segs |-> StatusOf(s)],
             want <- [r \in Readers |-> WantOf(r)],
             got <- send

\* Every behaviour of the threads, locks and lists of cache.c is, seen through
\* StatusOf and WantOf, one the promise allows: no answer out of thin air, no
\* second fetch of a segment that is present or under way, no segment lost; and
\* unchecked bytes only out of a download under way, from a server that is not
\* faithful.
KeepsPromise == Promise!Spec
=============================================================================
