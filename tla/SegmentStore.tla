----------------------------- MODULE SegmentStore -----------------------------
(***************************************************************************)
(* What the cache of one file promises its readers, without locks, threads *)
(* or reference counts: each segment is fetched by one download at a time, *)
(* stays once it is present, and a read is answered with the file's bytes  *)
(* out of a segment that is present or on its way, or with the error of    *)
(* the download or of the disk it depended on.  Lax: while a segment is on *)
(* its way a reader may also be given bytes nobody has checked.            *)
(***************************************************************************)
CONSTANTS Readers, Segs, DiskFaults, Lax, None

VARIABLES status,  \* "absent", "fetching" or "present", per segment
          want,    \* the segment a reader waits for, or None
          got      \* its latest answer, or "none"

vars == <<status, want, got>>

Init == /\ status = [s \in Segs |-> "absent"]
        /\ want = [r \in Readers |-> None]
        /\ got = [r \in Readers |-> "none"]

Become(s, new) == status' = [status EXCEPT ![s] = new]

Fetch(s) == status[s] = "absent" /\ Become(s, "fetching")
            /\ UNCHANGED <<want, got>>

Land(s) == status[s] = "fetching" /\ Become(s, "present")
           /\ UNCHANGED <<want, got>>

Abort(s) == status[s] = "fetching" /\ Become(s, "absent")
            /\ UNCHANGED <<want, got>>

\* A reader with no read under way asks for a segment, or drops its answer.
Ask(r, s) == /\ want[r] = None
             /\ want' = [want EXCEPT ![r] = s]
             /\ got' = [got EXCEPT ![r] = "none"]
             /\ UNCHANGED status

Forget(r) == /\ want[r] = None
             /\ got' = [got EXCEPT ![r] = "none"]
             /\ UNCHANGED <<status, want>>

Reply(r, answer) == /\ want[r] # None
                    /\ got' = [got EXCEPT ![r] = answer]
                    /\ want' = [want EXCEPT ![r] = None]

Give(r) == /\ Reply(r, "file")
           /\ status[want[r]] \in {"fetching", "present"}
           /\ UNCHANGED status

\* A reader that fetched for itself gets its bytes although they could not be
\* stored, or the error that ended the fetch.
GiveUnstored(r) == /\ DiskFaults /\ Reply(r, "file")
                   /\ status[want[r]] = "fetching" /\ Become(want[r], "absent")

GiveUnchecked(r) == /\ Lax /\ Reply(r, "unchecked")
                    /\ status[want[r]] = "fetching" /\ UNCHANGED status

Refuse(r) == /\ Reply(r, "ENOENT")
             /\ status[want[r]] = "fetching" /\ Become(want[r], "absent")

DiskError(r) == /\ DiskFaults /\ Reply(r, "EIO")
                /\ status[want[r]] = "present" /\ UNCHANGED status

Next == \/ \E s \in Segs : Fetch(s) \/ Land(s) \/ Abort(s)
        \/ \E r \in Readers, s \in Segs : Ask(r, s)
        \/ \E r \in Readers : \/ Forget(r) \/ Give(r) \/ GiveUnstored(r)
                              \/ GiveUnchecked(r) \/ Refuse(r) \/ DiskError(r)

Spec == Init /\ [][Next]_vars
=============================================================================
