----------------------------- MODULE MCSelection -----------------------------
(***************************************************************************)
(* Small instances of Selection: the profiles vary what a layer looks at,   *)
(* one or two layers at a time.                                             *)
(***************************************************************************)
EXTENDS Selection, TLC

CONSTANTS a1, a2, a3, line1

MCOrder == <<a1, a2, a3>>

Plain == [ok |-> TRUE, line |-> Direct, avail |-> "available", truncated |-> FALSE,
          expiring |-> FALSE, promo |-> FALSE, band |-> 2, quota |-> 1]

\* Every layer prefers or dislikes somebody.
MCProfiles ==
    {Plain,
     [Plain EXCEPT !.ok = FALSE],
     [Plain EXCEPT !.line = line1, !.quota = 2],
     [Plain EXCEPT !.avail = "unknown", !.quota = -1],
     [Plain EXCEPT !.avail = "absent", !.promo = TRUE],
     [Plain EXCEPT !.truncated = TRUE, !.expiring = TRUE],
     [Plain EXCEPT !.expiring = TRUE, !.band = 1],
     [Plain EXCEPT !.promo = TRUE, !.line = line1, !.band = 1]}

=============================================================================
