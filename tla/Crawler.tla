------------------------------ MODULE Crawler ------------------------------
(***************************************************************************)
(* core.check_site / core.check_page (src/core.py) driving the page table  *)
(* of one site: selection, HEAD validation, GET, link reconciliation and   *)
(* the plugin run, one database statement (Django autocommit) or one group *)
(* of statements nothing else can observe per action. Several processes   *)
(* may check at once: Cron is check_site run by the management command,   *)
(* the others are page_check requests of the web views. Admins are the    *)
(* other web views; they hold a page copy too (module Admin).             *)
(***************************************************************************)
EXTENDS Frontier, Folds

CONSTANTS
    SELF_BOUND,     \* FALSE: _update_links as written (self, Link undefined)
                    \* TRUE : with self read as page and Link imported
    MaxElapsed,     \* greatest time between two selections (cron, --gap)
    HeadResults,    \* answers of requests.head (after redirects)
    GetResults,     \* subset of {"transport", "invalid", "valid"}
    Bodies,         \* link sets a fetched body can contain
    RobotsResults,  \* subset of {"rules", "allow_all", "deny_all", "raise"}
    Disallowed,     \* pages robots.txt disallows
    Foreign,        \* any link target off the site's scheme+host
    PluginOrder,    \* registry order of the plugins
    PluginNames,    \* plugin -> names it can return
    Names, Vals, NoValue,
    Procs,          \* processes running check_page
    Cron,           \* the one of them that runs check_site
    Admins          \* web requests of the admin views (module Admin)

(* A raw link of a body: its target once resolved, whether it carries a   *)
(* #fragment, whether it is written relative (no leading "/")            *)
RawLinks == [to : Pages \cup {Foreign}, frag : BOOLEAN, rel : BOOLEAN]

ASSUME /\ SELF_BOUND \in BOOLEAN
       /\ MaxElapsed \in 1..Gap
       /\ HeadResults \subseteq [kind : {"ok", "http_error", "transport"},
                                 status : Int, html : BOOLEAN, local : BOOLEAN]
       /\ GetResults \subseteq {"transport", "invalid", "valid"}
       /\ Bodies \subseteq SUBSET RawLinks
       /\ RobotsResults \subseteq {"rules", "allow_all", "deny_all", "raise"}
       /\ Disallowed \subseteq Pages
       /\ Cron \in Procs /\ Procs \cap Admins = {}

(* every process that holds an in-memory Page object *)
Holders == Procs \cup Admins

(* a target page as add_page returned it: its pk and is_linkable *)
Target == [pk : Nat, linkable : BOOLEAN]
NoTarget == [pk |-> 0, linkable |-> FALSE]

(* no page being deleted *)
NoEntry == <<NoPage, 0>>

VARIABLES
    links,      \* Link rows: <<from_page, to_page>>
    values,     \* Value rows: page -> name -> value (NoValue: no row)
    pc,         \* process -> where check_site/check_page is
    cur,        \* process -> the page being checked
    cp,         \* holder -> its in-memory copy of its page's row
    todo,       \* process -> valid link targets _update_links has not met
    before,     \* process -> before_links
    after,      \* process -> after_links
    tgt,        \* process -> the link target of the current iteration
    tinfo,      \* process -> the Page object add_page returned for it
    outcome,    \* process -> what its last check_page returned or raised
    ran,        \* history: page -> {the plugin results of its last run}
    pend,       \* process -> the merged plugin values not yet upserted
    apc,        \* admin request -> where its view is (module Admin)
    acur,       \* admin request -> the page of the URL (toggle)
    aq,         \* admin request -> <<page, id_page>> still to delete
    adel,       \* admin request -> the <<page, id_page>> being deleted
    served      \* admin requests begun so far

crawlerVars == <<links, values, pc, cur, cp, todo, before, after, tgt, tinfo,
                 outcome, ran, pend>>
adminVars == <<apc, acur, aq, adel, served>>
vars == <<frontierVars, crawlerVars, adminVars>>

(* what one plugin call gives: its mapping, or an exception *)
PluginResults(pl) ==
    {[ok |-> TRUE, facts |-> f] : f \in UNION {[S -> Vals] : S \in SUBSET PluginNames[pl]}}
    \cup {[ok |-> FALSE, facts |-> <<>>]}

PluginRuns ==
    {r \in [1..Len(PluginOrder) -> UNION {PluginResults(pl) : pl \in ToSet(PluginOrder)}] :
        \A i \in 1..Len(PluginOrder) : r[i] \in PluginResults(PluginOrder[i])}

NoValues == [n \in Names |-> NoValue]

Labels == {"select", "head", "get", "links", "insert", "link", "plugins", "upsert"}

TypeOK ==
    /\ db \in [Pages -> Row]
    /\ live \subseteq Pages /\ nextPk \in Nat
    /\ \A p, q \in live : p # q => db[p].pk # db[q].pk
    /\ now \in Nat
    /\ links \subseteq live \X live
    /\ values \in [Pages -> [Names -> Vals \cup {NoValue}]]
    /\ pc \in [Procs -> Labels]
    /\ cur \in [Procs -> Pages \cup {NoPage}]
    /\ cp \in [Holders -> Row]
    /\ todo \in [Procs -> SUBSET Pages]
    /\ before \in [Procs -> SUBSET Pages] /\ after \in [Procs -> SUBSET Pages]
    /\ tgt \in [Procs -> Pages \cup {NoPage}] /\ tinfo \in [Procs -> Target]
    /\ outcome \in [Procs -> {"none", "success", "failure", "raised"}]
    /\ ran \in [Pages -> SUBSET PluginRuns]
    /\ pend \in [Procs -> [Names -> Vals \cup {NoValue}]]

(* init_site: the seed page saved with status -1, id_page 1 *)
Init ==
    /\ db = [p \in Pages |-> IF p = Seed THEN NewRow(1, -1) ELSE NewRow(0, 0)]
    /\ live = {Seed} /\ nextPk = 2
    /\ now = 0
    /\ links = {}
    /\ values = [p \in Pages |-> NoValues]
    /\ pc = [w \in Procs |-> "select"]
    /\ cur = [w \in Procs |-> NoPage]
    /\ cp = [w \in Holders |-> NewRow(0, 0)]
    /\ todo = [w \in Procs |-> {}]
    /\ before = [w \in Procs |-> {}] /\ after = [w \in Procs |-> {}]
    /\ tgt = [w \in Procs |-> NoPage] /\ tinfo = [w \in Procs |-> NoTarget]
    /\ outcome = [w \in Procs |-> "none"]
    /\ ran = [p \in Pages |-> {}]
    /\ pend = [w \in Procs |-> NoValues]
    /\ apc = [a \in Admins |-> "idle"]
    /\ acur = [a \in Admins |-> NoPage]
    /\ aq = [a \in Admins |-> {}]
    /\ adel = [a \in Admins |-> NoEntry]
    /\ served = 0

Outgoing(p) == {q \in Pages : <<p, q>> \in links}

(* check_page of w returns (or raises): its locals are gone *)
Done(w, result) ==
    /\ pc' = [pc EXCEPT ![w] = "select"]
    /\ outcome' = [outcome EXCEPT ![w] = result]
    /\ cur' = [cur EXCEPT ![w] = NoPage]
    /\ cp' = [cp EXCEPT ![w] = NewRow(0, 0)]
    /\ todo' = [todo EXCEPT ![w] = {}]
    /\ before' = [before EXCEPT ![w] = {}] /\ after' = [after EXCEPT ![w] = {}]
    /\ tgt' = [tgt EXCEPT ![w] = NoPage] /\ tinfo' = [tinfo EXCEPT ![w] = NoTarget]
    /\ pend' = [pend EXCEPT ![w] = NoValues]

(* an exception leaves check_page; check_site's generator ends with it *)
Raise(w) == Done(w, "raised")

(* w's page still has the row its copy was loaded from *)
Holds(w, p) == p \in live /\ db[p].pk = cp[w].pk

(* Model.save() of a copy: UPDATE by pk; when no row has that pk, an      *)
(* INSERT with it. Only called when that INSERT cannot hit the unique     *)
(* (site, subpath, params) key: see Writable.                             *)
Writable(w, p) == p \notin live \/ db[p].pk = cp[w].pk

Save(w, p, row) ==
    /\ db' = [db EXCEPT ![p] = row]
    /\ live' = live \cup {p}

-----------------------------------------------------------------------------
(***************************************************************************)
(* Selection at elapsed time d after the previous one: for Cron,          *)
(* Site.next_page_to_check in check_site; for a web checker, the page      *)
(* PageConverter.to_python loads. The Page object returned is w's copy,    *)
(* on which check_page at once sets checked_at = just_now() and           *)
(* is_checked = True (Checked). All timestamps held anywhere are           *)
(* renumbered together.                                                    *)
(***************************************************************************)
(* check_page: page.checked_at = just_now(); page.is_checked = True *)
Checked(row, t) == [row EXCEPT !.checked = TRUE, !.at = t]

Pick(w, p, t) ==
    LET S    == Stamps({db[q] : q \in live} \cup {cp[v] : v \in Holders}, t)
        rows == [q \in Pages |-> CompressRow(db[q], S)]
    IN /\ cur' = [cur EXCEPT ![w] = p]
       /\ db' = rows
       /\ cp' = [v \in Holders |-> IF v = w THEN Checked(rows[p], Squeeze(t, S))
                                          ELSE CompressRow(cp[v], S)]
       /\ now' = Squeeze(t, S)
       /\ pc' = [pc EXCEPT ![w] = "head"]
       /\ UNCHANGED <<pend, adminVars, live, nextPk, links, values, ran, todo, before, after, tgt,
                      tinfo, outcome>>

SelectScheduled(w) ==
    /\ w = Cron /\ pc[w] = "select"
    /\ \E d \in 1..MaxElapsed :
        /\ DueScheduled(now + d) # {}
        /\ \E p \in NextScheduled(now + d) : Pick(w, p, now + d)

(* random.random() <= 0.50 *)
SelectErrorRetry(w) ==
    /\ w = Cron /\ pc[w] = "select"
    /\ \E d \in 1..MaxElapsed :
        /\ DueScheduled(now + d) = {}
        /\ PagesWithErrors # {}
        /\ \E p \in OldestError : Pick(w, p, now + d)

(* no error page, or the draw above 0.50 *)
SelectQueued(w) ==
    /\ w = Cron /\ pc[w] = "select"
    /\ \E d \in 1..MaxElapsed :
        /\ DueScheduled(now + d) = {}
        /\ \E p \in NextQueued : Pick(w, p, now + d)

(* views.page_check: the page of the URL, loaded by PageConverter *)
SelectRequested(w) ==
    /\ w # Cron /\ pc[w] = "select"
    /\ \E d \in 1..MaxElapsed, p \in live : Pick(w, p, now + d)

-----------------------------------------------------------------------------
(***************************************************************************)
(* check_page after its first two assignments: is_valid(), then a save of  *)
(* w's copy, whose checked_at is the time check_page began                 *)
(***************************************************************************)

(* requests.head raises something other than HTTPError: nothing is saved *)
HeadRaises(w) ==
    /\ pc[w] = "head"
    /\ \E r \in HeadResults : r.kind = "transport"
    /\ Raise(w)
    /\ UNCHANGED <<adminVars, db, live, nextPk, now, links, values, ran>>

(* page.save() of a page deleted and found again since w loaded it: the  *)
(* INSERT with the old id_page hits unique_full_path, IntegrityError     *)
SaveRejected(w) ==
    /\ \/ pc[w] = "head" /\ \E r \in HeadResults : r.kind # "transport"
       \/ pc[w] = "get" /\ "invalid" \in GetResults
    /\ ~Writable(w, cur[w])
    /\ Raise(w)
    /\ UNCHANGED <<adminVars, db, live, nextPk, now, links, values, ran>>

(* Failure(code): status and error message saved *)
HeadFails(w) ==
    /\ pc[w] = "head" /\ Writable(w, cur[w])
    /\ \E r \in HeadResults :
        /\ r.kind = "http_error"
        /\ Save(w, cur[w], [cp[w] EXCEPT !.status = r.status, !.err = TRUE])
    /\ Done(w, "failure")
    /\ UNCHANGED <<adminVars, nextPk, now, links, values, ran>>

(* content type and size are saved too; the model keeps only the status *)
OkRow(w, r) == [cp[w] EXCEPT !.status = r.status]

(* Success, not HTML: status and content type saved, nothing else *)
HeadOkOther(w) ==
    /\ pc[w] = "head" /\ Writable(w, cur[w])
    /\ \E r \in HeadResults :
        /\ r.kind = "ok" /\ ~r.html
        /\ Save(w, cur[w], OkRow(w, r))
    /\ Done(w, "success")
    /\ UNCHANGED <<adminVars, nextPk, now, links, values, ran>>

(* the off-site branch deleting the page's incoming_links instead *)
HeadOkOffsiteIncoming(w) ==
    /\ pc[w] = "head" /\ Writable(w, cur[w])
    /\ \E r \in HeadResults :
        /\ r.kind = "ok" /\ r.html /\ ~r.local
        /\ Save(w, cur[w], OkRow(w, r))
    /\ links' = links \ (Pages \X {cur[w]})
    /\ Done(w, "success")
    /\ UNCHANGED <<adminVars, nextPk, now, values, ran>>

(* Success, HTML whose final URL left the site: the save (core.py:148),   *)
(* then page.outgoing_links.all().delete() (170), as one step             *)
HeadOkOffsite(w) ==
    /\ pc[w] = "head" /\ Writable(w, cur[w])
    /\ \E r \in HeadResults :
        /\ r.kind = "ok" /\ r.html /\ ~r.local
        /\ Save(w, cur[w], OkRow(w, r))
    /\ links' = links \ ({cur[w]} \X Pages)
    /\ Done(w, "success")
    /\ UNCHANGED <<adminVars, nextPk, now, values, ran>>

(* Success, local HTML: go on to fetch the body *)
HeadOkLocalHtml(w) ==
    /\ pc[w] = "head" /\ Writable(w, cur[w])
    /\ \E r \in HeadResults :
        /\ r.kind = "ok" /\ r.html /\ r.local
        /\ Save(w, cur[w], OkRow(w, r))
        /\ cp' = [cp EXCEPT ![w] = OkRow(w, r)]
    /\ pc' = [pc EXCEPT ![w] = "get"]
    /\ UNCHANGED <<pend, adminVars, nextPk, now, cur, links, values, ran, todo, before, after, tgt,
                   tinfo, outcome>>

-----------------------------------------------------------------------------
(* get_text_from_url returns a 4-tuple on IOError; unpacking it raises *)
GetRaises(w) ==
    /\ pc[w] = "get"
    /\ "transport" \in GetResults
    /\ Raise(w)
    /\ UNCHANGED <<adminVars, db, live, nextPk, now, links, values, ran>>

(* webparser.is_valid_html(body) is false: status 418 and a message saved *)
GetInvalid(w) ==
    /\ pc[w] = "get" /\ Writable(w, cur[w])
    /\ "invalid" \in GetResults
    /\ Save(w, cur[w], [cp[w] EXCEPT !.status = 418, !.err = TRUE])
    /\ Done(w, "failure")
    /\ UNCHANGED <<adminVars, nextPk, now, links, values, ran>>

(* RobotFileParser.can_fetch("*", link) on the raw link: a relative link  *)
(* has no leading "/" and matches no Disallow rule                        *)
CanFetch(rb, l) ==
    \/ rb = "allow_all"
    \/ rb = "rules" /\ (l.to \notin Disallowed \/ l.rel)

(* Page.get_all_valid_links: not the page's own full URL (fragment        *)
(* included), local, allowed by robots; then add_page keys it without     *)
(* its fragment                                                           *)
ValidTargets(p, body, rb) ==
    {l.to : l \in {l \in body : /\ ~(l.to = p /\ ~l.frag)
                               /\ l.to # Foreign
                               /\ CanFetch(rb, l)}}

(* get_robots_txt(): RobotFileParser.read() raises on a URLError *)
RobotsRaise(w) ==
    /\ pc[w] = "get"
    /\ "valid" \in GetResults /\ "raise" \in RobotsResults
    /\ Raise(w)
    /\ UNCHANGED <<adminVars, db, live, nextPk, now, links, values, ran>>

(* _update_links as written: the first valid link evaluates self.site,   *)
(* a removal evaluates Link: NameError                                    *)
UpdateLinksNameError(w) ==
    /\ pc[w] = "get" /\ ~SELF_BOUND
    /\ "valid" \in GetResults
    /\ \E b \in Bodies, rb \in RobotsResults \ {"raise"} :
        ValidTargets(cur[w], b, rb) # {} \/ Outgoing(cur[w]) # {}
    /\ Raise(w)
    /\ UNCHANGED <<adminVars, db, live, nextPk, now, links, values, ran>>

(* _update_links: before_links read, the loop over the valid links begins *)
UpdateLinksStart(w) ==
    /\ pc[w] = "get"
    /\ "valid" \in GetResults
    /\ \E b \in Bodies, rb \in RobotsResults \ {"raise"} :
        LET vt == ValidTargets(cur[w], b, rb) IN
        /\ SELF_BOUND \/ (vt = {} /\ Outgoing(cur[w]) = {})
        /\ todo' = [todo EXCEPT ![w] = vt]
    /\ before' = [before EXCEPT ![w] = Outgoing(cur[w])]
    /\ after' = [after EXCEPT ![w] = {}]
    /\ pc' = [pc EXCEPT ![w] = "links"]
    /\ UNCHANGED <<pend, adminVars, db, live, nextPk, now, cur, cp, links, values, ran, tgt, tinfo,
                   outcome>>

(* Site.load_or_create, the SELECT: the row with the target's key, if any *)
LoadOrCreateFind(w) ==
    /\ pc[w] = "links" /\ todo[w] # {}
    /\ \E t \in todo[w] :
        /\ tgt' = [tgt EXCEPT ![w] = t]
        /\ todo' = [todo EXCEPT ![w] = @ \ {t}]
        /\ IF t \in live
           THEN /\ tinfo' = [tinfo EXCEPT ![w] = [pk |-> db[t].pk, linkable |-> db[t].linkable]]
                /\ pc' = [pc EXCEPT ![w] = "link"]
           ELSE /\ pc' = [pc EXCEPT ![w] = "insert"]
                /\ UNCHANGED tinfo
    /\ UNCHANGED <<pend, adminVars, db, live, nextPk, now, links, values, ran, cur, cp, before, after,
                   outcome>>

(* the INSERT with an id_page the sequence already handed out *)
LoadOrCreateInsertSamePk(w) ==
    /\ pc[w] = "insert"
    /\ IF tgt[w] \in live
       THEN /\ Raise(w)
            /\ UNCHANGED <<db, live, nextPk>>
       ELSE /\ db' = [db EXCEPT ![tgt[w]] = NewRow(nextPk - 1, 0)]
            /\ live' = live \cup {tgt[w]}
            /\ UNCHANGED nextPk
            /\ tinfo' = [tinfo EXCEPT ![w] = [pk |-> nextPk - 1, linkable |-> TRUE]]
            /\ pc' = [pc EXCEPT ![w] = "link"]
            /\ UNCHANGED <<pend, cur, cp, todo, before, after, tgt, outcome>>
    /\ UNCHANGED <<adminVars, now, links, values, ran>>

(* Site.load_or_create, nothing found: new_page.save() INSERTs the target *)
(* with the defaults; when another process inserted the same key since    *)
(* the SELECT, unique_full_path raises IntegrityError                     *)
LoadOrCreateInsert(w) ==
    /\ pc[w] = "insert"
    /\ IF tgt[w] \in live
       THEN /\ Raise(w)
            /\ UNCHANGED <<db, live, nextPk>>
       ELSE /\ db' = [db EXCEPT ![tgt[w]] = NewRow(nextPk, 0)]
            /\ live' = live \cup {tgt[w]}
            /\ nextPk' = nextPk + 1
            /\ tinfo' = [tinfo EXCEPT ![w] = [pk |-> nextPk, linkable |-> TRUE]]
            /\ pc' = [pc EXCEPT ![w] = "link"]
            /\ UNCHANGED <<pend, cur, cp, todo, before, after, tgt, outcome>>
    /\ UNCHANGED <<adminVars, now, links, values, ran>>

(* both ends of Link(from_page=self, to_page=target_page) still have rows *)
LinkEndsExist(w) == Holds(w, cur[w]) /\ tgt[w] \in live /\ db[tgt[w]].pk = tinfo[w].pk

(* if target_page.is_linkable: Link.objects.get_or_create and             *)
(* after_links.add; a foreign key to a deleted row makes get_or_create    *)
(* raise IntegrityError                                                   *)
LinkTarget(w) ==
    /\ pc[w] = "link"
    /\ pc' = [pc EXCEPT ![w] = "links"]
    /\ \/ /\ ~tinfo[w].linkable
          /\ UNCHANGED <<links, after>>
       \/ /\ tinfo[w].linkable /\ LinkEndsExist(w)
          /\ links' = links \cup {<<cur[w], tgt[w]>>}
          /\ after' = [after EXCEPT ![w] = @ \cup {tgt[w]}]
    /\ UNCHANGED <<pend, adminVars, db, live, nextPk, now, values, ran, cur, cp, todo, before, tgt,
                   tinfo, outcome>>

LinkTargetMissing(w) ==
    /\ pc[w] = "link"
    /\ tinfo[w].linkable /\ ~LinkEndsExist(w)
    /\ Raise(w)
    /\ UNCHANGED <<adminVars, db, live, nextPk, now, links, values, ran>>

(* the links in before_links - after_links are deleted, with             *)
(* "if to_remove_links:" guarding nothing                                *)
UnlinkKeepsStale(w) ==
    /\ pc[w] = "links" /\ todo[w] = {}
    /\ pc' = [pc EXCEPT ![w] = "plugins"]
    /\ UNCHANGED <<pend, adminVars, db, live, nextPk, now, values, ran, links, cur, cp, todo, before,
                   after, tgt, tinfo, outcome>>

(* the delete filtered on to_page only, not on from_page=self *)
UnlinkAnySource(w) ==
    /\ pc[w] = "links" /\ todo[w] = {}
    /\ links' = IF Holds(w, cur[w])
                THEN links \ (Pages \X (before[w] \ after[w]))
                ELSE links
    /\ pc' = [pc EXCEPT ![w] = "plugins"]
    /\ UNCHANGED <<pend, adminVars, db, live, nextPk, now, values, ran, cur, cp, todo, before, after,
                   tgt, tinfo, outcome>>

(* the links in before_links - after_links are deleted (by self's pk) *)
Unlink(w) ==
    /\ pc[w] = "links" /\ todo[w] = {}
    /\ links' = IF Holds(w, cur[w])
                THEN links \ ({cur[w]} \X (before[w] \ after[w]))
                ELSE links
    /\ pc' = [pc EXCEPT ![w] = "plugins"]
    /\ UNCHANGED <<pend, adminVars, db, live, nextPk, now, values, ran, cur, cp, todo, before, after,
                   tgt, tinfo, outcome>>

-----------------------------------------------------------------------------
(* values.update(result) for each plugin in registry order *)
MergeStep(acc, r) ==
    [n \in Names |-> IF r.ok /\ n \in DOMAIN r.facts THEN r.facts[n] ELSE acc[n]]

Merge(run) == FoldLeft(MergeStep, NoValues, run)

(* a_borrar left in place *)
DeleteStaleNone(stored, merged) == stored

(* page.values.filter(name__in=antes - despues).delete() *)
DeleteStale(stored, merged) ==
    [n \in Names |-> IF merged[n] = NoValue THEN NoValue ELSE stored[n]]

(* _run_plugins: every plugin called and merged in registry order (a     *)
(* failing one only turns the report into a Failure); antes read and     *)
(* a_borrar deleted, of the page's row: nothing when the row is gone     *)
PluginsDelete(w) ==
    /\ pc[w] = "plugins"
    /\ \E run \in PluginRuns :
        /\ pend' = [pend EXCEPT ![w] = Merge(run)]
        /\ IF Holds(w, cur[w])
           THEN /\ values' = [values EXCEPT ![cur[w]] = DeleteStale(@, Merge(run))]
                /\ ran' = [ran EXCEPT ![cur[w]] = {run}]
           ELSE UNCHANGED <<values, ran>>
    /\ pc' = [pc EXCEPT ![w] = "upsert"]
    /\ UNCHANGED <<adminVars, db, live, nextPk, now, links, cur, cp, todo, before, after,
                   tgt, tinfo, outcome>>

(* one pass of "for name in values": Value.upsert, get_or_create by      *)
(* (page, name) then save; an IntegrityError on the foreign key when the *)
(* page's row is gone. Names in any order (the dict's insertion order).  *)
Upsert(w) ==
    /\ pc[w] = "upsert"
    /\ \E n \in Names :
        /\ pend[w][n] # NoValue
        /\ \/ /\ Holds(w, cur[w])
              /\ values' = [values EXCEPT ![cur[w]][n] = pend[w][n]]
              /\ pend' = [pend EXCEPT ![w][n] = NoValue]
              /\ UNCHANGED <<pc, cur, cp, todo, before, after, tgt, tinfo, outcome>>
           \/ /\ ~Holds(w, cur[w])
              /\ Raise(w)
              /\ UNCHANGED values
    /\ UNCHANGED <<adminVars, db, live, nextPk, now, links, ran>>

(* every value upserted: check_page returns Success *)
PluginsEnd(w) ==
    /\ pc[w] = "upsert" /\ pend[w] = NoValues
    /\ Done(w, "success")
    /\ UNCHANGED <<adminVars, db, live, nextPk, now, links, values, ran>>

-----------------------------------------------------------------------------
Select(w) ==
    SelectScheduled(w) \/ SelectErrorRetry(w) \/ SelectQueued(w) \/ SelectRequested(w)

Check(w) ==
    \/ HeadRaises(w) \/ SaveRejected(w) \/ HeadFails(w) \/ HeadOkOther(w)
    \/ HeadOkOffsite(w) \/ HeadOkLocalHtml(w)
    \/ GetRaises(w) \/ GetInvalid(w) \/ RobotsRaise(w) \/ UpdateLinksNameError(w)
    \/ UpdateLinksStart(w) \/ LoadOrCreateFind(w) \/ LoadOrCreateInsert(w)
    \/ LinkTarget(w) \/ LinkTargetMissing(w) \/ Unlink(w)
    \/ PluginsDelete(w) \/ Upsert(w) \/ PluginsEnd(w)

CrawlerNext == \E w \in Procs : Select(w) \/ Check(w)

Next == CrawlerNext

Spec == Init /\ [][Next]_vars

(* cron keeps running check; the coin of the error branch is fair *)
FairSpec == Spec /\ WF_vars(Next) /\ SF_vars(SelectQueued(Cron))

-----------------------------------------------------------------------------
(***************************************************************************)
(* Properties                                                              *)
(***************************************************************************)

(* A check of p ends with its outcome recorded in p's row (check_page's   *)
(* saves at core.py:140, 148, 167).                                       *)
CheckRecorded(p) == cur[Cron] = p /\ pc[Cron] = "head" /\ db'[p].at = now

(* Every page that exists is checked again and again: the scheduler *)
(* (scheduled, error retry, FIFO, oldest-checked fallback) starves no    *)
(* page, and every check records its outcome.                            *)
EveryPageRecheckedForever ==
    \A p \in Pages : []<><<p \notin live \/ CheckRecorded(p)>>_vars

(* Never-checked pages that are not scheduled are first checked in the   *)
(* order they were discovered (id_page): next_page_to_check's FIFO of    *)
(* unchecked pages is never overtaken, whatever errors and retries       *)
(* happen.                                                               *)
BreadthFirstDiscovery ==
    \A p, q \in live \ DOMAIN Rotation :
        db[p].pk < db[q].pk /\ db[q].checked => db[p].checked

(* The values stored for a page are exactly what its last plugin run    *)
(* produced, whatever was stored before and whichever pages ran since:   *)
(* the later plugin in registry order wins a shared name and names no    *)
(* plugin returned, a failing plugin's included, are removed, once the  *)
(* run's upserts are over (_run_plugins against the spec's 4.4).         *)
SpecMerge(run) ==
    [n \in Names |->
        LET W == {i \in DOMAIN run : run[i].ok /\ n \in DOMAIN run[i].facts}
        IN IF W = {} THEN NoValue ELSE run[Max(W)].facts[n]]

PluginValuesLastWriterWins ==
    \A p \in Pages :
        (\A w \in Procs : ~(pc[w] = "upsert" /\ cur[w] = p)) =>
            \A run \in ran[p] : values[p] = SpecMerge(run)

(* After _update_links has run, the page's outgoing links are exactly the *)
(* linkable targets the loop met (after_links): links the body no longer  *)
(* names are gone and none is missing, over any history of rechecks.      *)
OutgoingLinksReconciled ==
    \A w \in Procs : pc[w] = "plugins" => Outgoing(cur[w]) = after[w]

(* check_page never raises (spec 7, 8): whatever the network answers and *)
(* whatever another process does to the tables meanwhile, a check ends   *)
(* with Success or Failure, and check_site goes on.                      *)
CheckNeverRaises == \A w \in Procs : outcome[w] # "raised"

(* a selection step: the renumbering of the timestamps happens there *)
Selecting == \E w \in Procs : pc[w] = "select" /\ pc'[w] = "head"

(* The last-checked timestamp of a page never goes back outside the      *)
(* selections: every save of the row (check_page's saves, the admin      *)
(* views' saves) writes a check at least as recent as the stored one.    *)
CheckedAtNeverGoesBack ==
    [][~Selecting =>
         \A p \in live \cap live' : db'[p].pk = db[p].pk => db[p].at <= db'[p].at]_vars

(***************************************************************************)
(* Refinement: the checkers implement AbstractCrawl. A worker is busy from *)
(* its selection until check_page returns or raises; the abstract page set *)
(* is the table, the checked set the rows with is_checked.                 *)
(***************************************************************************)
Abs == INSTANCE AbstractCrawl
         WITH Workers <- Procs,
              known <- live,
              checked <- {p \in live : db[p].checked},
              edges <- links,
              busy <- [w \in Procs |-> IF pc[w] = "select" THEN NoPage ELSE cur[w]]

(* Every step of the checkers is a step of AbstractCrawl: a check changes *)
(* no row but its own and those it creates, creates pages unchecked and  *)
(* never deletes one, and adds or removes links only out of the page it  *)
(* checks and only towards pages of the table (_update_links, check_page *)
(* against spec 3, "created/removed only during link-graph               *)
(* reconciliation of the source page's recheck").                        *)
ImplementsAbstractCrawl == Abs!AbsSpec
=============================================================================
