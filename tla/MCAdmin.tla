------------------------------ MODULE MCAdmin ------------------------------
(***************************************************************************)
(* Instances of Admin for TLC: the seed and one page it links to, the      *)
(* cron checker with one admin request at a time, or with a page_check.   *)
(***************************************************************************)
EXTENDS Admin, MCCrawler

AdminPages == {"s", "a"}
AdminBodies == {{}, {L("a")}}
AdminPluginOrder == <<"get_title">>
AdminNames == {"title"}
AdminVals == {"v1"}
BodyLinksA == {{L("a")}}
=============================================================================
