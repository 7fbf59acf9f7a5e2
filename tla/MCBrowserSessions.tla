------------------------- MODULE MCBrowserSessions -------------------------
(* Small instances of BrowserSessions for TLC.                             *)
EXTENDS BrowserSessions, TLC

\* Objects, processes and jobs are interchangeable.
Interchangeable ==
    Permutations(Sessions) \cup Permutations(Browsers) \cup Permutations(Jobs)
=============================================================================
