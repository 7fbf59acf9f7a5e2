--------------------------- MODULE MCBrowserPages ---------------------------
(* Small instances of BrowserPages for TLC.                                *)
EXTENDS BrowserPages, TLC
=============================================================================
