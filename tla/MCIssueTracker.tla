--------------------------- MODULE MCIssueTracker ---------------------------
(* Small instances of IssueTracker for TLC.                                *)
EXTENDS IssueTracker, TLC

Symmetry ==
    Permutations(IssueIds) \cup Permutations(Fingerprints) \cup Permutations(Requests \ Silenced)
=============================================================================
