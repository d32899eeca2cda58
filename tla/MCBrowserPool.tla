--------------------------- MODULE MCBrowserPool ---------------------------
(* Small instances of BrowserPool for TLC.                                 *)
EXTENDS BrowserPool

=============================================================================
