---------------------------- MODULE BrowserBinary ----------------------------
(***************************************************************************)
(* The installation of the browser (internal/captcha/browserdl.go:           *)
(* ensureVersion, fetchSumsWithFallback, verifySHA256SUMS,                    *)
(* downloadArchiveWithFallback, extractArchive; solve.go:                     *)
(* DiscoverBrowserBinary).  The server and the command line tool share one    *)
(* cache directory and may crash at any step; inside a process a mutex lets    *)
(* one caller install.                                                         *)
(*                                                                         *)
(* What a source delivers is "good", something "other" (what a proxy has put in  *)
(* its place, half a file) or nothing.  Only the publisher can sign a list of     *)
(* digests, so a list whose signature holds is "good"; an archive has a digest of *)
(* that list only if it is "good".  Unpacked, an archive is what it was.  Which   *)
(* release a signed list is of is left out.                                      *)
(***************************************************************************)
EXTENDS Naturals, FiniteSets

CONSTANTS Processes, None

VARIABLES
    dir,     \* chromium-<version>: None, "part", "other" or "good"
    tmp,     \* the temporary directories of each process: None or their content
    left,    \* temporary directories of crashed processes exist
    pc,
    sums,    \* the list of digests a process has: "good", "other" or None
    archive, \* what it has downloaded
    used     \* the content of the directory a worker was started from

vars == <<dir, tmp, left, pc, sums, archive, used>>

Init ==
    /\ dir = None /\ tmp = [p \in Processes |-> None] /\ left = FALSE
    /\ pc = [p \in Processes |-> "idle"] /\ sums = [p \in Processes |-> None]
    /\ archive = [p \in Processes |-> None] /\ used = {}

Step(p, from, to) == pc[p] = from /\ pc' = [pc EXCEPT ![p] = to]

\* DiscoverBrowserBinary: the executable decides; temporary directories do not
\* parse as a version.
Discover(p) ==
    /\ pc[p] = "idle" /\ dir # None /\ used' = used \cup {dir}
    /\ UNCHANGED <<dir, tmp, left, pc, sums, archive>>

\* ensureVersion: nothing to do, or the sums and their signature from one source.
Missing(p) == Step(p, "idle", "sums") /\ dir = None /\ UNCHANGED <<dir, tmp, left, sums, archive, used>>

\* Main site, then GitHub: the list and its signature, as one source delivers them.
FetchSums(p) ==
    /\ \/ /\ Step(p, "sums", "verify")
          /\ \E what \in {"good", "other"} : sums' = [sums EXCEPT ![p] = what]
       \/ Step(p, "sums", "idle") /\ UNCHANGED sums
    /\ UNCHANGED <<dir, tmp, left, archive, used>>

\* verifySHA256SUMS; the table may lack the archive.
Verify(p) ==
    /\ \/ Step(p, "verify", "archive") /\ sums[p] = "good"
       \/ Step(p, "verify", "idle")
    /\ UNCHANGED <<dir, tmp, left, sums, archive, used>>

FetchArchive(p) ==
    /\ \/ /\ Step(p, "archive", "check")
          /\ \E what \in {"good", "other"} : archive' = [archive EXCEPT ![p] = what]
       \/ Step(p, "archive", "idle") /\ UNCHANGED archive
    /\ UNCHANGED <<dir, tmp, left, sums, used>>

\* Mutant: a list that is signed is taken for a proof of the archive.
SignedSuffices(p) ==
    /\ Step(p, "check", IF sums[p] = "good" THEN "extract" ELSE "idle")
    /\ UNCHANGED <<dir, tmp, left, sums, archive, used>>

\* The digest of the archive is the one of the list.
Check(p) ==
    /\ Step(p, "check", IF archive[p] = sums[p] THEN "extract" ELSE "idle")
    /\ UNCHANGED <<dir, tmp, left, sums, archive, used>>

\* Mutant: the archive is unpacked where it belongs.
ExtractInPlace(p) ==
    \/ /\ Step(p, "extract", "extracting") /\ dir' = "part"
       /\ UNCHANGED <<tmp, left, sums, archive, used>>
    \/ /\ Step(p, "extracting", "rename") /\ tmp' = [tmp EXCEPT ![p] = archive[p]]
       /\ UNCHANGED <<dir, left, sums, archive, used>>

\* Into a directory of its own; a failure removes it.
Extract(p) ==
    \/ /\ Step(p, "extract", "extracting") /\ tmp' = [tmp EXCEPT ![p] = "part"]
       /\ UNCHANGED <<dir, left, sums, archive, used>>
    \/ /\ \/ Step(p, "extracting", "rename") /\ tmp' = [tmp EXCEPT ![p] = archive[p]]
          \/ Step(p, "extracting", "idle") /\ tmp' = [tmp EXCEPT ![p] = None]
       /\ UNCHANGED <<dir, left, sums, archive, used>>

\* os.Rename is atomic and fails on a directory that is not empty.
Rename(p) ==
    /\ Step(p, "rename", "idle") /\ tmp' = [tmp EXCEPT ![p] = None]
    /\ dir' = IF dir = None THEN tmp[p] ELSE dir
    /\ UNCHANGED <<left, sums, archive, used>>

Crash(p) ==
    /\ pc' = [pc EXCEPT ![p] = "idle"] /\ left' = (left \/ tmp[p] # None)
    /\ tmp' = [tmp EXCEPT ![p] = None] /\ sums' = [sums EXCEPT ![p] = None]
    /\ archive' = [archive EXCEPT ![p] = None]
    /\ UNCHANGED <<dir, used>>

Next ==
    \E p \in Processes :
        \/ Discover(p) \/ Missing(p) \/ FetchSums(p) \/ Verify(p) \/ FetchArchive(p) \/ Check(p)
        \/ Extract(p) \/ Rename(p) \/ Crash(p)

Spec == Init /\ [][Next]_vars

\* Whatever the sources deliver and wherever a process dies, a worker is started only
\* from a browser that was unpacked to the end, from the very archive whose digest the
\* publisher has signed ("nothing half done is left behind", browserdl.go ensureVersion).
OnlyWholeBinaries == used \subseteq {"good"}

=============================================================================
