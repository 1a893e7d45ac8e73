--------------------------- MODULE MCCacheService ---------------------------
(***************************************************************************)
(* Small instances of CacheService: archives that go up in one PUT and in  *)
(* two parts, and symmetry between the runs, the keys and the branches.    *)
(***************************************************************************)
EXTENDS CacheService, TLC

CONSTANTS s1, s2, s3, r1, k1, k2, main, dev, small, large

MCPartCount == (small :> 0) @@ (large :> 2)

\* Three saves, for which no clock is needed, or two saves and the restores.
MCInit ==
    /\ Init
    /\ \/ /\ \A s \in Savers : save[s] = "check"
          /\ \A r \in Restorers : restore[r] = "failed"
          /\ clock = MaxClock
       \/ /\ \E s \in Savers :
                /\ job[s].archive = small
                /\ \A t \in Savers : save[t] = "failed" <=> t = s
          /\ \A r \in Restorers : restore[r] = "lookup"
          /\ clock = 0

\* Restores know nothing of S3's open uploads: an answer is only lost without them.
MCNext ==
    /\ Next
    /\ \A s \in Savers : uploads'[s].stray /\ ~uploads[s].stray =>
          \A r \in Restorers : restore[r] = "failed"

MCSpec == MCInit /\ [][MCNext]_vars

Symmetry ==
    Permutations(Savers) \cup Permutations(Restorers)
        \cup Permutations(Keys) \cup Permutations(Branches)

=============================================================================
