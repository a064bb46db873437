--------------------------- MODULE MCBrowserFeed ---------------------------
(***************************************************************************)
(* One watched wallet, and the types the page trades on.                   *)
(***************************************************************************)
EXTENDS BrowserFeed

MCTypes == <<"CurveCreated", "TokensPurchased", "TokensSold">>
=============================================================================
