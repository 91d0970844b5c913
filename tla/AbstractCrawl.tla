--------------------------- MODULE AbstractCrawl ---------------------------
(***************************************************************************)
(* What the checks of a site promise the page table and the link graph    *)
(* (spec.md 3, Page and Link; 4.5): a check works on one page; pages are   *)
(* only ever added, as never-checked pages; an edge is created or removed  *)
(* only by the check of its source page, and only towards a known page;    *)
(* a checked page stays checked. No timestamps, statuses or values.       *)
(***************************************************************************)
EXTENDS FiniteSets

CONSTANTS
    Pages,      \* possible pages of the site
    Seed,       \* the page the site starts with
    Workers,    \* the processes that check pages
    NoPage      \* "no page"

VARIABLES
    known,      \* the pages of the site
    checked,    \* the pages checked at least once
    edges,      \* the links, as <<from, to>> pairs
    busy        \* worker -> the page it is checking, or NoPage

absVars == <<known, checked, edges, busy>>

AbsTypeOK ==
    /\ known \subseteq Pages /\ checked \subseteq known
    /\ edges \subseteq known \X known
    /\ busy \in [Workers -> known \cup {NoPage}]

AbsInit ==
    /\ known = {Seed}
    /\ checked = {}
    /\ edges = {}
    /\ busy = [w \in Workers |-> NoPage]

(* a worker takes a page of the site to check *)
Begin(w) ==
    /\ busy[w] = NoPage
    /\ \E p \in known : busy' = [busy EXCEPT ![w] = p]
    /\ UNCHANGED <<known, checked, edges>>

(* the outcome of the check is recorded on its page *)
Record(w) ==
    /\ busy[w] # NoPage
    /\ checked' = checked \cup {busy[w]}
    /\ UNCHANGED <<known, edges, busy>>

(* a link names a page the site did not have: it is added, unchecked *)
Discover(w) ==
    /\ busy[w] # NoPage
    /\ \E q \in Pages \ known : known' = known \cup {q}
    /\ UNCHANGED <<checked, edges, busy>>

(* an edge from the page under check to a known page *)
AddEdge(w) ==
    /\ busy[w] # NoPage
    /\ \E q \in known : edges' = edges \cup {<<busy[w], q>>}
    /\ UNCHANGED <<known, checked, busy>>

(* some edges out of the page under check are removed *)
Prune(w) ==
    /\ busy[w] # NoPage
    /\ \E S \in SUBSET known : edges' = edges \ ({busy[w]} \X S)
    /\ UNCHANGED <<known, checked, busy>>

(* the check ends, and may record its outcome and drop outgoing edges as  *)
(* its last statement does                                                *)
Finish(w) ==
    /\ busy[w] # NoPage
    /\ busy' = [busy EXCEPT ![w] = NoPage]
    /\ checked' \in {checked, checked \cup {busy[w]}}
    /\ \E S \in SUBSET known : edges' = edges \ ({busy[w]} \X S)
    /\ UNCHANGED known

AbsNext ==
    \E w \in Workers :
        Begin(w) \/ Record(w) \/ Discover(w) \/ AddEdge(w) \/ Prune(w) \/ Finish(w)

AbsSpec == AbsInit /\ [][AbsNext]_absVars
=============================================================================
