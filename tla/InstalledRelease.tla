-------------------------- MODULE InstalledRelease --------------------------
(***************************************************************************)
(* What the updater promises about the release of the client that is       *)
(* installed, without saying how: files, stages and markers are not seen   *)
(* here.  The running release is replaced by another one, all of it at     *)
(* once; the new one is on probation, and the release it replaced is kept  *)
(* to go back to.  When the hub has welcomed the new one it stays, and     *)
(* when it has not the old one comes back.  The new one need not be newer: *)
(* its version is compared before it is staged, not when it is installed.  *)
(* UpdateActivation implements it as long as no two activations meet.      *)
(***************************************************************************)
EXTENDS Naturals

CONSTANTS
    MaxVersion, \* releases are 1..MaxVersion; 1 is installed first
    Survives    \* whether a probation goes on when the process ends

None     == 0
Versions == 1..MaxVersion

VARIABLES
    installed, \* the release that the next start of the client starts; None:
               \* files that do not start
    fallback,  \* while it is on probation: the release it replaced
    accepted,  \* while it is on probation: the hub has welcomed it
    running,   \* the release that runs; None: no process
    welcomed,  \* the hub has welcomed the running process
    torn       \* a replacement was cut off or met another one: nothing is
               \* promised any more

vars == <<installed, fallback, accepted, running, welcomed, torn>>

Init ==
    /\ installed = 1 /\ running = 1
    /\ fallback = None /\ accepted = FALSE
    /\ welcomed = FALSE /\ torn = FALSE

Start ==
    /\ running = None
    /\ running' = installed
    /\ UNCHANGED <<installed, fallback, accepted, welcomed>>

Stop ==
    /\ running' = None /\ welcomed' = FALSE
    /\ IF Survives THEN UNCHANGED <<fallback, accepted>>
                   ELSE fallback' = None /\ accepted' = FALSE
    /\ UNCHANGED installed

Welcome ==
    /\ running # None
    /\ welcomed' = TRUE
    /\ accepted' = (accepted \/ (fallback # None /\ running = installed))
    /\ UNCHANGED <<installed, fallback, running>>

\* The running release has itself replaced.
Replace(v) ==
    /\ running = installed /\ v # installed
    /\ fallback = None
    /\ installed' = v /\ fallback' = installed
    /\ UNCHANGED <<accepted, running, welcomed>>

Keep ==
    /\ fallback # None /\ accepted
    /\ fallback' = None /\ accepted' = FALSE
    /\ UNCHANGED <<installed, running, welcomed>>

\* The one that was not accepted may still run for a moment.
GoBack ==
    /\ fallback # None /\ ~accepted
    /\ installed' = fallback /\ fallback' = None
    /\ UNCHANGED <<accepted, running, welcomed>>

Next ==
    \/ /\ ~torn /\ ~torn'
       /\ \/ Start \/ Stop \/ Welcome
          \/ \E v \in Versions \cup {None} : Replace(v)
          \/ Keep \/ GoBack
    \/ torn'

Spec == Init /\ [][Next]_vars
=============================================================================
