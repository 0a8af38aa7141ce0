----------------------------- MODULE MCCrawler -----------------------------
(***************************************************************************)
(* A small web for TLC: the seed, two query variants of one page, the same *)
(* page over http, a page of a host with a private address, and a page of  *)
(* another site.                                                           *)
(***************************************************************************)
EXTENDS Crawler, TLC

SmallWeb == 1 .. 6
WebOrigins == <<"https", "https", "https", "http", "http", "other">>
WebPaths == <<"/", "/page", "/page", "/page", "/private", "/">>
OwnSite == 1 .. 5
=============================================================================
