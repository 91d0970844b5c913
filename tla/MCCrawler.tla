----------------------------- MODULE MCCrawler -----------------------------
(***************************************************************************)
(* Instances of Crawler for TLC: a seed page and two pages it can reach,   *)
(* one of them scheduled.                                                  *)
(***************************************************************************)
EXTENDS Crawler

MCPages == {"s", "a", "b"}
MCRotation == [p \in {"b"} |-> 2]

L(p) == [to |-> p, frag |-> FALSE, rel |-> FALSE]
Offsite == [to |-> "ext", frag |-> FALSE, rel |-> FALSE]

(* bodies: none, one local and one foreign link, two local links *)
MCBodies == {{}, {L("a"), Offsite}, {L("b"), L("s")}}

Html200   == [kind |-> "ok", status |-> 200, html |-> TRUE, local |-> TRUE]
Moved200  == [kind |-> "ok", status |-> 200, html |-> TRUE, local |-> FALSE]
Pdf200    == [kind |-> "ok", status |-> 200, html |-> FALSE, local |-> TRUE]
NotFound  == [kind |-> "http_error", status |-> 404, html |-> FALSE, local |-> TRUE]
Refused   == [kind |-> "transport", status |-> -1, html |-> FALSE, local |-> TRUE]


(* the registry: spidercheck/plugins/get_title.py, plugins/get_version.py, *)
(* spidercheck/plugins/index_site.py (returns {} or raises)                *)
MCPluginOrder == <<"get_title", "get_version", "index_site">>
MCPluginNames == [pl \in {"get_title", "get_version", "index_site"} |->
                    CASE pl = "get_title" -> {"title"}
                      [] pl = "get_version" -> {"version"}
                      [] OTHER -> {}]
MCNames == {"title", "version"}
MCVals == {"v1", "v2"}

(* the liveness instance: no plugins, fewer network answers *)
LivePluginOrder == <<>>
LiveHead == {Html200, NotFound}
LiveRotation == [p \in {"b"} |-> 1]

(* the as-written instance: one page a body can name, every answer *)
AllHead == {Html200, Moved200, Pdf200, NotFound, Refused}
WrittenBodies == {{}, {L("a")}}

(* the instances of the violation runs and of Admin *)
OnlyHtml == {Html200}
RefusedOrHtml == {Refused, Html200}
BothLinked == {{L("a"), L("b")}}

(* the safety instance: two unscheduled pages the seed discovers together, *)
(* and no scheduled page, so that only the order of timestamps matters     *)
SafetyPages == {"s", "a", "c"}
NoRotation == [p \in {} |-> 1]
SafetyHead == {Html200, Moved200, NotFound}
SafetyBodies == {{}, {L("a"), L("c"), Offsite}, {L("s"), L("a")}}
=============================================================================
