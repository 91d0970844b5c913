------------------------------- MODULE Admin -------------------------------
(***************************************************************************)
(* The admin views of src/src/spidercheck/views.py running beside the      *)
(* checkers of Crawler: toogle_is_linkable, page_delete and site_expunge.  *)
(* A view acts on the Page object PageConverter.to_python loaded when the  *)
(* request began (cp[a]); each database statement is one step.             *)
(***************************************************************************)
EXTENDS Crawler

CONSTANTS
    MaxRequests,    \* admin requests served in one behaviour
    AdminViews      \* the requests made: subset of {"toggle", "expunge", "reset"}

(* a deleted page takes its ScheduledPage row with it; the instances have *)
(* no scheduled page, so Rotation stays a constant                        *)
ASSUME DOMAIN Rotation = {} /\ MaxRequests \in Nat

AdminTypeOK ==
    /\ TypeOK
    /\ apc \in [Admins -> {"idle", "toggle", "save", "expunge", "delete",
                                   "collect", "purge", "seed", "insert"}]
    /\ acur \in [Admins -> Pages \cup {NoPage}]
    /\ aq \in [Admins -> SUBSET (Pages \X Nat)]
    /\ adel \in [Admins -> (Pages \X Nat) \cup {NoEntry}]
    /\ served \in 0..MaxRequests

(* the links whose to_page has id_page k *)
IncomingByPk(k) == {l \in links : db[l[2]].pk = k}

(* a request ends: the view returns its redirect, or raises *)
AdminDone(a) ==
    /\ apc' = [apc EXCEPT ![a] = "idle"]
    /\ acur' = [acur EXCEPT ![a] = NoPage]
    /\ cp' = [cp EXCEPT ![a] = NewRow(0, 0)]

(* PageConverter.to_python: Page.load_page(pk) of a page that exists *)
RequestToggle(a) ==
    /\ apc[a] = "idle" /\ served < MaxRequests /\ "toggle" \in AdminViews
    /\ \E p \in live :
        /\ acur' = [acur EXCEPT ![a] = p]
        /\ cp' = [cp EXCEPT ![a] = db[p]]
    /\ apc' = [apc EXCEPT ![a] = "toggle"]
    /\ served' = served + 1
    /\ UNCHANGED <<pend, frontierVars, links, values, pc, cur, todo, before, after, tgt,
                   tinfo, outcome, ran, aq, adel>>

(* toogle_is_linkable: is_linkable flipped on the copy; when it becomes  *)
(* False, Link.objects.filter(to_page=page.pk).delete()                   *)
ToggleFlip(a) ==
    /\ apc[a] = "toggle"
    /\ cp' = [cp EXCEPT ![a].linkable = ~@]
    /\ links' = IF cp[a].linkable THEN links \ IncomingByPk(cp[a].pk) ELSE links
    /\ apc' = [apc EXCEPT ![a] = "save"]
    /\ UNCHANGED <<pend, frontierVars, values, pc, cur, todo, before, after, tgt, tinfo,
                   outcome, ran, acur, aq, adel, served>>

(* toogle_is_linkable: page.save() of the whole copy; the INSERT of a    *)
(* page deleted and found again since raises IntegrityError              *)
ToggleSave(a) ==
    /\ apc[a] = "save"
    /\ IF Writable(a, acur[a])
       THEN Save(a, acur[a], cp[a])
       ELSE UNCHANGED <<db, live>>
    /\ AdminDone(a)
    /\ UNCHANGED <<pend, nextPk, now, links, values, pc, cur, todo, before, after, tgt,
                   tinfo, outcome, ran, aq, adel, served>>

(* page_delete (one page) and site_expunge (the id_pages posted): the    *)
(* Page objects of the URL or of the filtered queryset                    *)
RequestExpunge(a) ==
    /\ apc[a] = "idle" /\ served < MaxRequests /\ "expunge" \in AdminViews
    /\ \E S \in SUBSET live \ {{}} :
        aq' = [aq EXCEPT ![a] = {<<p, db[p].pk>> : p \in S}]
    /\ apc' = [apc EXCEPT ![a] = "expunge"]
    /\ served' = served + 1
    /\ UNCHANGED <<frontierVars, crawlerVars, acur, adel>>

(* page.can_be_deleted(): incoming_links.count() == 0, then either on to  *)
(* the delete or, with incoming links, the error message (page_delete's   *)
(* assert fails the request, which has no other page)                     *)
CanBeDeleted(a) ==
    /\ apc[a] = "expunge"
    /\ \E e \in aq[a] :
        /\ aq' = [aq EXCEPT ![a] = @ \ {e}]
        /\ IF IncomingByPk(e[2]) = {}
           THEN /\ adel' = [adel EXCEPT ![a] = e]
                /\ apc' = [apc EXCEPT ![a] = "delete"]
           ELSE /\ apc' = [apc EXCEPT ![a] = IF aq[a] = {e} THEN "idle" ELSE "expunge"]
                /\ UNCHANGED adel
    /\ UNCHANGED <<frontierVars, crawlerVars, acur, served>>

(* Model.delete() with the cascade to the links missing *)
PageDeleteKeepLinks(a) ==
    /\ apc[a] = "delete"
    /\ LET p == adel[a][1] IN
       IF p \in live /\ db[p].pk = adel[a][2]
       THEN /\ live' = live \ {p}
            /\ db' = [db EXCEPT ![p] = NewRow(0, 0)]
            /\ values' = [values EXCEPT ![p] = NoValues]
            /\ ran' = [ran EXCEPT ![p] = {}]
       ELSE UNCHANGED <<db, live, values, ran>>
    /\ adel' = [adel EXCEPT ![a] = NoEntry]
    /\ apc' = [apc EXCEPT ![a] = IF aq[a] = {} THEN "idle" ELSE "expunge"]
    /\ UNCHANGED <<pend, nextPk, now, links, pc, cur, cp, todo, before, after, tgt, tinfo,
                   outcome, acur, aq, served>>

(* Model.delete() by id_page: the row, and by CASCADE its links both ways *)
(* and its values; a row already gone deletes nothing                     *)
PageDelete(a) ==
    /\ apc[a] = "delete"
    /\ LET p == adel[a][1] IN
       IF p \in live /\ db[p].pk = adel[a][2]
       THEN /\ live' = live \ {p}
            /\ db' = [db EXCEPT ![p] = NewRow(0, 0)]
            /\ links' = {l \in links : p \notin {l[1], l[2]}}
            /\ values' = [values EXCEPT ![p] = NoValues]
            /\ ran' = [ran EXCEPT ![p] = {}]
       ELSE UNCHANGED <<db, live, links, values, ran>>
    /\ adel' = [adel EXCEPT ![a] = NoEntry]
    /\ apc' = [apc EXCEPT ![a] = IF aq[a] = {} THEN "idle" ELSE "expunge"]
    /\ UNCHANGED <<pend, nextPk, now, pc, cur, cp, todo, before, after, tgt, tinfo, outcome,
                   acur, aq, served>>

(* core.reset_site, from "spidercheck reset": load_site_by_name finds the *)
(* site                                                                   *)
RequestReset(a) ==
    /\ apc[a] = "idle" /\ served < MaxRequests /\ "reset" \in AdminViews
    /\ apc' = [apc EXCEPT ![a] = "collect"]
    /\ served' = served + 1
    /\ UNCHANGED <<frontierVars, crawlerVars, acur, aq, adel>>

(* site.pages.all().delete(): the Collector SELECTs the site's pages *)
ResetCollect(a) ==
    /\ apc[a] = "collect"
    /\ aq' = [aq EXCEPT ![a] = {<<p, db[p].pk>> : p \in live}]
    /\ apc' = [apc EXCEPT ![a] = "purge"]
    /\ UNCHANGED <<frontierVars, crawlerVars, acur, adel, served>>

(* ... then, in one transaction, DELETEs the collected pages by id_page,  *)
(* their links both ways and their values; a page inserted since the     *)
(* SELECT stays                                                           *)
ResetPurge(a) ==
    /\ apc[a] = "purge"
    /\ LET D == {p \in live : <<p, db[p].pk>> \in aq[a]} IN
       /\ live' = live \ D
       /\ db' = [p \in Pages |-> IF p \in D THEN NewRow(0, 0) ELSE db[p]]
       /\ links' = {l \in links : l[1] \notin D /\ l[2] \notin D}
       /\ values' = [p \in Pages |-> IF p \in D THEN NoValues ELSE values[p]]
       /\ ran' = [p \in Pages |-> IF p \in D THEN {} ELSE ran[p]]
    /\ aq' = [aq EXCEPT ![a] = {}]
    /\ apc' = [apc EXCEPT ![a] = "seed"]
    /\ UNCHANGED <<pend, nextPk, now, pc, cur, cp, todo, before, after, tgt, tinfo, outcome,
                   acur, adel, served>>

(* site.add_page(site.path): load_or_create's SELECT of the seed's key; *)
(* a seed row found is returned as it is                                *)
ResetSeedFind(a) ==
    /\ apc[a] = "seed"
    /\ apc' = [apc EXCEPT ![a] = IF Seed \in live THEN "idle" ELSE "insert"]
    /\ UNCHANGED <<frontierVars, crawlerVars, acur, aq, adel, served>>

(* ... and its INSERT with the defaults (status 0, not init_site's -1);  *)
(* a seed inserted by a check since the SELECT raises IntegrityError     *)
ResetSeedInsert(a) ==
    /\ apc[a] = "insert"
    /\ IF Seed \in live
       THEN UNCHANGED <<db, live, nextPk>>
       ELSE /\ db' = [db EXCEPT ![Seed] = NewRow(nextPk, 0)]
            /\ live' = live \cup {Seed}
            /\ nextPk' = nextPk + 1
    /\ apc' = [apc EXCEPT ![a] = "idle"]
    /\ UNCHANGED <<now, crawlerVars, acur, aq, adel, served>>

AdminStep(a) ==
    \/ RequestToggle(a) \/ ToggleFlip(a) \/ ToggleSave(a)
    \/ RequestExpunge(a) \/ CanBeDeleted(a) \/ PageDelete(a)
    \/ RequestReset(a) \/ ResetCollect(a) \/ ResetPurge(a) \/ ResetSeedFind(a)
    \/ ResetSeedInsert(a)

AdminNext == Next \/ \E a \in Admins : AdminStep(a)

AdminSpec == Init /\ [][AdminNext]_vars

-----------------------------------------------------------------------------
(***************************************************************************)
(* Properties                                                              *)
(***************************************************************************)

(* A page is deleted only while no link points to it (spec 3, Page:       *)
(* "deletion ... allowed only when it has zero incoming edges"): the      *)
(* can_be_deleted() of page_delete and site_expunge guards the delete.    *)
DeleteOnlyUnlinked ==
    [][\A p \in live \ live' : \A q \in Pages : <<q, p>> \notin links]_vars

(* A page marked non-linkable receives no incoming link (spec 3, Page:    *)
(* "once marked non-linkable, cannot receive new incoming edges"):        *)
(* toogle_is_linkable removes them, _update_links adds none.              *)
NonLinkableHasNoIncoming == \A l \in links : db[l[2]].linkable

(* A page that comes (back) into the table does so as a newly discovered  *)
(* page: never checked (spec 4.5, "newly created destination Pages enter  *)
(* the frontier as never-checked"; pages are deleted only explicitly).    *)
PagesAppearUnchecked == [][\A p \in live' \ live : ~db'[p].checked]_vars
=============================================================================
