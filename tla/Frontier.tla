------------------------------ MODULE Frontier ------------------------------
(***************************************************************************)
(* The page table of one Site as Site.next_page_to_check sees it, and the  *)
(* selection policy itself (src/src/spidercheck/models.py:123-193).        *)
(***************************************************************************)
EXTENDS Integers, Sequences, FiniteSets, FiniteSetsExt, SequencesExt

CONSTANTS
    Pages,      \* possible pages of the site: distinct (subpath, params) keys
    Seed,       \* the page init_site creates
    Rotation,   \* ScheduledPage rows: scheduled page -> rotation
    Gap,        \* every gap between timestamps is compressed to at most Gap
    NoPage      \* "no page"

ASSUME /\ Seed \in Pages
       /\ DOMAIN Rotation \subseteq Pages
       /\ \A p \in DOMAIN Rotation : Rotation[p] \in 1..(Gap - 1)
       /\ NoPage \notin Pages

VARIABLES
    db,     \* page -> its row in the page table (the last row, once deleted)
    live,   \* the pages that have a row
    nextPk, \* the next id_page the BigAutoField hands out
    now     \* the clock (Now() / just_now())

frontierVars == <<db, live, nextPk, now>>

(* checked_at default: fechas.EPOCH, earlier than any check *)
Epoch == -Gap

(* the fields of a page row the model tells apart: id_page (ascending    *)
(* with created_at), is_checked, checked_at, status, error_message non-    *)
(* empty, is_linkable; content_type, size and check_time are data nothing  *)
(* reads back                                                             *)
Row == [pk : Nat, checked : BOOLEAN, at : Int, status : Int, err : BOOLEAN,
        linkable : BOOLEAN]

(* Page(...) saved for the first time: id_page from the sequence, then the *)
(* defaults is_checked=False, checked_at=EPOCH, error_message='',         *)
(* is_linkable=True                                                        *)
NewRow(pk, status) == [pk |-> pk, checked |-> FALSE, at |-> Epoch, status |-> status,
                       err |-> FALSE, linkable |-> TRUE]


(* Page.is_ok: 200 <= status < 300 *)
IsOk(p) == 200 <= db[p].status /\ db[p].status < 300

(* Site.pages_with_errors: is_checked, status not in range(200, 300),     *)
(* Django's __range being inclusive at both ends                         *)
PagesWithErrors ==
    {p \in live : db[p].checked /\ ~(200 <= db[p].status /\ db[p].status <= 300)}

(* ScheduledPage rows whose watermark page.checked_at + rotation < t      *)
DueScheduled(t) ==
    {p \in live \cap DOMAIN Rotation : db[p].at + Rotation[p] < t}

(* first(...) of the due rows under ScheduledPage.Meta.ordering:          *)
(* page__checked_at, then updated_at/created_at (not modelled: any tie)   *)
NextScheduled(t) ==
    {p \in DueScheduled(t) : \A q \in DueScheduled(t) : db[p].at <= db[q].at}

(* pages_with_errors() is ordered by -checked_at; .last() is the oldest *)
OldestError ==
    {p \in PagesWithErrors : \A q \in PagesWithErrors : db[p].at <= db[q].at}

(* Variants of all_queued_pages().first() a slip in its querysets gives:  *)
(* the unchecked set without order_by('created_at'), or the checked       *)
(* fallback ordered by '-checked_at'                                      *)
NextQueuedUnordered ==
    LET unchecked == {p \in live : ~db[p].checked}
        checked   == {p \in live : db[p].checked}
    IN IF unchecked # {} THEN unchecked
       ELSE {p \in checked : \A q \in checked : db[p].at <= db[q].at}

NextQueuedNewestFirst ==
    LET unchecked == {p \in live : ~db[p].checked}
        checked   == {p \in live : db[p].checked}
    IN IF unchecked # {}
       THEN {p \in unchecked : \A q \in unchecked : db[p].pk <= db[q].pk}
       ELSE {p \in checked : \A q \in checked : db[p].at >= db[q].at}

(* all_queued_pages().first(): the unchecked page created first or, when   *)
(* none is unchecked, the checked page with the oldest checked_at; the     *)
(* final pages.all().order_by('checked_at').first() only answers for an    *)
(* empty site, where it is None                                           *)
NextQueued ==
    LET unchecked == {p \in live : ~db[p].checked}
        checked   == {p \in live : db[p].checked}
    IN IF unchecked # {}
       THEN {p \in unchecked : \A q \in unchecked : db[p].pk <= db[q].pk}
       ELSE {p \in checked : \A q \in checked : db[p].at <= db[q].at}

(***************************************************************************)
(* Time compression: keeps the order of the timestamps and every          *)
(* comparison "a + r < b" with r < Gap.                                    *)
(***************************************************************************)
RECURSIVE Squeeze(_, _)
Squeeze(x, S) ==
    IF x = Min(S) THEN 0
    ELSE LET prev == Max({y \in S : y < x})
         IN Squeeze(prev, S) + IF x - prev > Gap THEN Gap ELSE x - prev

(* the timestamps of a set of rows, EPOCH apart *)
Stamps(rows, t) == {r.at : r \in {r \in rows : r.at # Epoch}} \cup {t}

(* a row's checked_at renumbered within the timestamps S *)
CompressRow(r, S) == IF r.at = Epoch THEN r ELSE [r EXCEPT !.at = Squeeze(@, S)]

=============================================================================
