# Spidercheck — TLA+ model

This directory models the crawl frontier and the page-check pipeline of
spidercheck (`src/core.py`, `src/src/spidercheck/models.py`,
`src/src/spidercheck/views.py`, `src/parser.py`, `src/plugins/`) and the
small loops of `seqtools.py` and `fechas.py`, the parts of
the repository with control flow worth model checking.

## 1. Inventory

### Components

| Component | Source | State it keeps | Operations that change state |
|---|---|---|---|
| Site / Page store | `models.py` `Site`, `Page`, `Link`, `Value`, `ScheduledPage` | page rows (checked flag, `checked_at`, status, content type, error message, `is_linkable`, creation order), links (from, to), values (page, name) → value, scheduled pages (page → rotation) | `load_or_create`/`add_page` (models.py:219-261), `Value.upsert` (642-664), cascade deletes |
| Frontier scheduler | `Site.next_page_to_check` and the querysets it uses (models.py:123-193) | none of its own: reads page rows, scheduled rows, the clock | none (pure selection, with a `random.random()` draw) |
| Page-check orchestrator | `core.check_page` (core.py:130-171), `core.check_site` (228-252) | the page object loaded by the scheduler, held in memory and written back whole by `page.save()` | HEAD validation (`Page.is_valid`, models.py:431-454), save of status/content type, non-local link drop, GET, 418 save |
| Link graph maintainer | `core._update_links` (core.py:78-111), `Page.get_all_valid_links` (models.py:354-378) | before/after target sets | `add_page` per valid link, `Link.get_or_create`, delete of removed links |
| Link extractor + robots | `parser.LinkExtractor`, `is_valid_url` (parser.py), `Site.get_robots_txt`, `Site.is_local` | parsed link sets; a robots parser fetched on every call | none persistent |
| HTML plausibility | `webparser.is_valid_html` (webparser.py) | none | pure |
| Plugin pipeline | `core._run_plugins` (core.py:56-75), `plugins/__init__.py` registry, `plugins/get_version.py`, `spidercheck/plugins/get_title.py`, `index_site.py` | registry (name → function, initialised once), values of the page | merge of plugin results, delete of names no longer produced, upsert of every produced name |
| Site administration | `core.init_site`, `core.reset_site` (core.py:174-225) | site row, seed page | create site + seed page; delete all pages and re-add the seed |
| Web admin views | `views.py`: `toogle_is_linkable`, `page_delete`, `site_expunge`, `site_expunge_all`, `page_check` | the page object loaded by the URL converter at request start | toggle linkable + delete incoming links + save; check-then-delete; a second `check_page` caller |
| CLI | `management/commands/spidercheck.py` | none | calls `check_site(site, num)` with a sleep between checks, `check_page` for `recheck` |
| Helpers | `seqtools.py` (`batch`, `text_as_fragments`, `first`), `fechas.py` (`next_day`, `next_month`, parsers) | the generators' loop state | none persistent; no caller in the repository uses `batch`, `text_as_fragments`, `next_day` or `next_month` |
| Presentation | `links.py`, `urls.py`, `converters.py`, `search.py`, `setup.py`, `index_site.py`'s search indexing | none relevant | none (pure I/O, formatting) |

### How the components interact

The CLI (`check` sub-command, run from cron) calls `check_site`, which
loops: `Site.next_page_to_check()` reads the page table and returns one
page object; `check_page(page)` mutates that in-memory object and saves the
whole row at several points (`page.save()` at core.py:140, 148, 167). Between
two saves it calls the network (HEAD, GET, robots.txt) and, for local HTML,
`_update_links` (which creates pages and links one statement at a time) and
`_run_plugins` (which deletes and upserts values one statement at a time).
Every ORM statement is its own commit (Django autocommit).

The web views run in another process against the same database: they load a
page at request start (URL converter), change it, and save the whole row;
`page_check` runs `check_page` itself, so two checks of the same page can
overlap.

### What is hard

* The scheduler is a priority policy with a random draw: scheduled-due pages,
  then (with probability 1/2) the oldest error page, then FIFO of unchecked
  pages, then the oldest checked page. Whether every page keeps being checked
  depends on how these branches interleave over time.
* `check_page` is a sequence of commits with exits in between: an exception
  out of `is_valid` (only `HTTPError` is caught), out of `get_text_from_url`
  (its error path returns a 4-tuple unpacked into two names), or out of
  `_update_links` leaves the row in whatever state the last save wrote.
* `_update_links` refers to `self` and `Link`, neither of which is defined in
  `core.py`: as written it raises `NameError` as soon as a page has a valid
  link.
* Whole-row saves from two processes (crawler, admin views) overwrite each
  other's fields: lost updates.
* Link filtering compares URLs with their fragment but de-duplicates pages
  without it; robots rules are checked against the raw link, not the
  resolved path.

### Properties that make each component correct

* Scheduler: every page of the site is checked again and again (health
  refresh); never-checked pages are first checked in discovery order; a due
  scheduled page is served first, earliest watermark first; the error set it
  retries is exactly the checked pages that are not 2xx.
* Orchestrator: every check ends with the page recorded as checked with a
  status (transport errors included); status, content type and error message
  describe the same (latest) check; `check_page` never raises for network or
  content failures.
* Link graph: after a reconciliation the outgoing links of the page are the
  linkable valid targets of its body; no self links; no link into a robots
  disallowed path; a non-linkable page has no incoming links.
* Plugin pipeline: stored values are the merge of the plugin results in
  registry order (last writer wins), names no longer produced are removed.
* Admin: a page is deleted only while it has no incoming link; a toggle of
  `is_linkable` is not undone by a concurrent check; a check result is not
  undone by a concurrent toggle.
* Helpers: `batch` yields the docstring's tuples and returns;
  `text_as_fragments` neither loses nor adds text, keeps fragments between
  mean and max, and returns; `next_month` gives the nearest day of the next
  month.

## 2. Plan

Modules, in the order they are built:

1. `Frontier.tla`: the page store as the scheduler sees it and
   `next_page_to_check` as selection operators. [built]
2. `Crawler.tla` (EXTENDS Frontier): `check_page`, run by the processes
   `Procs`. One of them, `Cron`, is `check_site` under cron. The others are
   `page_check` requests of the web views. [built]
3. `MCCrawler.tla` + cfgs: runs of the crawler alone. [built]
4. `Admin.tla` (EXTENDS Crawler) + `MCAdmin.tla`: the admin views
   (`toogle_is_linkable`, `page_delete`, `site_expunge`, `site_expunge_all`)
   as processes beside the checkers. [built]
5. `reset_site` (delete every page, re-add the seed) as one more admin
   request of `Admin.tla`, racing a running check. [built]
6. `AbstractCrawl.tla`: what a check promises the page table and the link
   graph, and a refinement mapping from `Crawler`, checked as a PROPERTY.
   [built]
7. `Helpers.tla` + `MCHelpers.tla`: the loops of `seqtools.batch`,
   `seqtools.text_as_fragments` and `fechas.next_day`/`next_month`.
   [built]

## 3. Modules

### Frontier.tla

State (VARIABLES):
* `db` maps a page to its row record: `pk` = `id_page`, `checked` =
  `is_checked`, `at` = `checked_at`, `status`, `err` (the error message is
  non-empty), `linkable` = `is_linkable`.
* `live` is the set of pages that have a row.
* `nextPk` is the next `id_page` the BigAutoField hands out.
* `now` is the clock.

CONSTANTS: `Pages` (possible pages, i.e. distinct `(subpath, params)`
keys), `Seed`, `Rotation` (scheduled pages → rotation), `Gap`, `NoPage`.
`id_page` grows with `created_at`, so the FIFO of unchecked pages is the
order of `pk`. Content type, size and check time are left out: nothing the
scheduler or the properties read depends on them.

The selection operators are the querysets of `models.py`:
* `DueScheduled`: the `watermark` annotation and `watermark__lt=Now()`;
* `NextScheduled`: `ScheduledPage.Meta.ordering`, i.e. by
  `page__checked_at`;
* `PagesWithErrors`: with Django's inclusive `__range`;
* `OldestError`: `.last()` of the `-checked_at` ordering;
* `NextQueued`: `all_queued_pages().first()`.

Time is abstracted. A selection advances `now` by any elapsed time
`1..MaxElapsed`. It then compresses every gap between consecutive
timestamps to at most `Gap` (greater than every rotation), using the
recursive `Squeeze`. The compression covers the timestamps held anywhere:
the rows, and every process's in-memory copy. It keeps:
* the order of all timestamps;
* the truth of every `checked_at + rotation < now` comparison;
* the order of two watermarks.

So the scheduler sees the same choices as with real time. The state space
becomes finite without bounding the length of behaviours, which liveness
needs. `EPOCH`, the default `checked_at`, is `-Gap`, below every real
timestamp.

### Crawler.tla

The checker processes are `Procs`:
* `Cron` is `check_site`, driven by cron through `cmd_check`;
* any other process is a `page_check` request of the web views.

Each process has `pc` (select → head → get → links → insert → link →
plugins → upsert), the page it checks (`cur`), its in-memory `Page`
object (`cp`), the locals of `_update_links`, and `pend`: the merged
plugin values `_run_plugins` has still to upsert.

Every action is one database statement, since Django runs in autocommit.
check_page's first two statements, `checked_at = just_now()` and
`is_checked = True`, change only the in-memory page. The selection step
(`Pick`, with `Checked`) applies them, so every save of a check writes the
time the check began, as in the code. A page checked by another process
meanwhile can therefore get an older `checked_at` back.
Network, robots and plugin answers are nondeterministic inputs from small
sets given as constants. `cp` is indexed by `Holders`: the checkers and
the admin requests of `Admin.tla`. So one selection renumbers every copy's
timestamps together. The admin requests' own variables (`apc`, `acur`,
`aq`, `adel`, `served`) are declared here too, so that `Next` and every
crawler action name all variables; only Admin's actions change them.

The database semantics the races depend on are modelled as PostgreSQL and
Django give them:
* `page.save()` of a copy is an UPDATE by `id_page`. When no row has that
  id, it becomes an INSERT with it, so a deleted page comes back (`Save`).
* When the page's key has been taken by a new row since the copy was
  loaded, that INSERT violates `unique_full_path` and raises
  IntegrityError (`Writable`, `SaveRejected`).
* `Link.get_or_create` and `Value.upsert` raise IntegrityError for a
  foreign key to a row that is gone (`LinkTargetMissing`, and the raising
  disjunct of `Upsert`).

| Action | Code |
|---|---|
| `SelectScheduled`, `SelectErrorRetry`, `SelectQueued` | the three branches of `next_page_to_check` (models.py:183-193), called by `check_site` (core.py:248-252); the `random.random() <= 0.50` draw is the choice between the last two |
| `SelectRequested` | `page_check`'s page, loaded by `PageConverter.to_python` (converters.py:34-43) |
| `HeadRaises` | `Page.is_valid` (models.py:442-454) raising anything but `HTTPError`: nothing saved, the exception leaves `check_site` |
| `SaveRejected` | a save of `check_page` raising IntegrityError (see above) |
| `HeadFails` | `check_page` failure path (core.py:135-141) |
| `HeadOkOther` | success save, not HTML (core.py:143-150, 171) |
| `HeadOkOffsite` | success save (core.py:148), then, HTML redirected off-site, `page.outgoing_links.all().delete()` (core.py:169-171), as one step |
| `HeadOkLocalHtml` | success save, local HTML: the GET follows |
| `GetRaises` | `get_text_from_url`'s IOError path returns a 4-tuple unpacked into 2 names (core.py:29-36, 153) |
| `GetInvalid` | `is_valid_html` false: status 418 and message saved (core.py:163-168) |
| `RobotsRaise` | `get_robots_txt().read()` raising inside `get_all_valid_links` (models.py:109-114, 371) |
| `UpdateLinksNameError` | `_update_links` as written: `self`/`Link` undefined (core.py:98, 100, 107) |
| `UpdateLinksStart` | `before_links` read and the valid links computed (core.py:95-97, models.py:354-378) |
| `LoadOrCreateFind` | the SELECT of `load_or_create` for one valid link (models.py:239-244) |
| `LoadOrCreateInsert` | its INSERT when nothing was found; IntegrityError when another process inserted the key since (models.py:245-251) |
| `LinkTarget`, `LinkTargetMissing` | `if target_page.is_linkable: Link.objects.get_or_create(...)` on the object `add_page` returned (core.py:99-101) |
| `Unlink` | removal of `before_links - after_links` (core.py:102-110) |
| `PluginsDelete` | `_run_plugins` up to the delete: every plugin called and merged (`Merge`), `antes` read and `a_borrar` deleted (`DeleteStale`) in one statement (core.py:56-70); the merged values wait in `pend` |
| `Upsert` | one pass of `for name in values`: `Value.upsert`'s get_or_create and save of one name (models.py:642-664), in any name order; IntegrityError when the page's row is gone |
| `PluginsEnd` | every name upserted: `_run_plugins` returns and `check_page` returns Success whatever the plugins did (core.py:73-75, 156-162) |

`ValidTargets` is `get_all_valid_links`. It drops a raw link when:
* the link resolves to the page's own URL *without* a fragment;
* the link is off-site;
* `CanFetch` refuses it. `CanFetch` gets the raw link, so a relative link
  (no leading `/`) matches no `Disallow` rule.

`RobotsResults` stands for what `RobotFileParser` ends in: parsed rules,
`allow_all` (robots.txt 404), `deny_all` (401/403), or an exception.

`ran` is a history variable: the plugin results of each page's last run.
Only `PluginValuesLastWriterWins` reads it.

The constant `SELF_BOUND` chooses `_update_links` as written (FALSE) or
with `self` read as `page` and `Link` imported (TRUE). With TRUE, the rest
of the pipeline can be checked past the NameError.

Refinement: `Abs == INSTANCE AbstractCrawl WITH ...` maps the table
(`live`) to the abstract page set, the rows with `is_checked` to the
checked set, `links` to the edges, and a process to "busy with `cur`" from
its selection until `check_page` returns or raises.
`ImplementsAbstractCrawl` is `Abs!AbsSpec`.

### AbstractCrawl.tla

The promise of spec.md 3 (Page, Link) and 4.5, with no timestamps,
statuses or values: a worker `Begin`s a check of a known page; during it,
it may `Record` the outcome, `Discover` a new page (unchecked),
`AddEdge` from its page to a known page, or `Prune` edges out of its page;
it `Finish`es, possibly recording and pruning in the same statement (the
off-site branch). Pages are never removed and a checked page stays checked.
The link set changes one edge statement at a time here as in the code: the
spec's "reconciliation applied as a single logical unit" (4.7) is not
what `_update_links` does, and an abstract spec with one atomic
reconciliation would only restate that.

### Admin.tla

Each admin request `a` of `Admins` is one web request, or one `spidercheck
reset` command. A view's page is the `Page` object the URL converter loaded
when the request began (`cp[a]`).

| Action | Code |
|---|---|
| `RequestToggle` | `toogle_is_linkable`'s page loaded by `PageConverter.to_python` (converters.py:34-43, views.py:207-208) |
| `ToggleFlip` | `is_linkable` flipped on the copy; when it becomes False, `Link.objects.filter(to_page=page.pk).delete()` (views.py:209-217) |
| `ToggleSave` | `page.save()` of the whole copy (views.py:218) |
| `RequestExpunge` | `page_delete` (one page), `site_expunge` (the posted ids) or `site_expunge_all` (the orphans of `dbraw`, which is not in the repository: any set) |
| `CanBeDeleted` | `page.can_be_deleted()`, the count of incoming links (models.py:390-401, views.py:225, 238, 253) |
| `PageDelete` | `page.delete()` by `id_page`, cascading to links both ways and to values (views.py:227, 239, 254) |
| `RequestReset` | `cmd_reset` → `reset_site`: the site is found (core.py:217-222) |
| `ResetCollect` | `site.pages.all().delete()`: Django's Collector SELECTs the pages (core.py:223) |
| `ResetPurge` | ... and DELETEs them by id, with their links and values, in one transaction; a page inserted since the SELECT survives (core.py:223) |
| `ResetSeedFind`, `ResetSeedInsert` | `site.add_page(site.path)`: `load_or_create`'s SELECT, then its INSERT with status 0, or IntegrityError when a check inserted the seed meanwhile (models.py:253-261, core.py:224) |

`served` counts the requests begun and `MaxRequests` bounds it.
`AdminViews` picks the views an instance requests. Deleting a page also
deletes its `ScheduledPage`, so the Admin instances have no scheduled page.
`Rotation` therefore stays a constant (an ASSUME states it).

### MCCrawler.tla, MCAdmin.tla

These define:
* page names;
* HEAD answers (`Html200`, `Moved200`, `Pdf200`, `NotFound`, `Refused`);
* bodies as sets of raw links;
* the plugin registry: `get_title` → `title`, `get_version` → `version`,
  `index_site` → nothing or an exception;
* the per-run sets the cfgs pick from.

Processes and admin requests are model values (`c`, `w`, `x`).

### Helpers.tla, MCHelpers.tla

Three small loops of the helper modules, in one module so that every
action can name every variable. Each behaviour runs one of them; the other
two sit at rest (`BatchAtRest`, `FragAtRest`, `date = NoDate`).

| Action | Code |
|---|---|
| `BatchInit` | `batch(iterable, size)`: `iter()`, `while True`, `chunk = []` (seqtools.py:98-109) |
| `BatchTake` | one pass of `for i in range(size)`: `chunk.append(next(iterable))` (110-112) |
| `BatchStop` | `StopIteration`: `if chunk: yield tuple(chunk)`, then `return` (113-116) |
| `BatchYield` | `range(size)` done: `if chunk: yield tuple(chunk)`, and the `while` starts again (117-118) |
| `FragInit`, `FragEnd` | `text_as_fragments(...)`, and `while text:` ending on an empty text (121-129) |
| `FragLast` | `size <= max_block_size`: `yield text; break` (130-133) |
| `FragCut` | `CutAt` (the `'\n'`, then `' '`, search from `mean_block_size`, else `max_block_size`, with `Find` as `str.find`), `yield text[0:idx]`, `text = text[idx:]` (134-140) |
| `DayStep`, `MonthStep` | `next_day` (`fecha + ONE_DAY`, fechas.py:134-138) and `next_month` (183-204), applied to the current date while the result stays within `Years` |

A yield appends to an output sequence (`bOut`, `fOut`); the caller drains
the generator. `DaysIn` stands for `calendar.monthrange` (the Gregorian
month lengths). `Chunks` is a recursive reference definition of the
result that `batch`'s docstring describes.

## 4. Runs

| Run | Expect | Property | What it shows |
|---|---|---|---|
| `crawl_safety` | pass | `TypeOK`, `BreadthFirstDiscovery`, `OutgoingLinksReconciled`, `ImplementsAbstractCrawl` | one checker and no scheduled page: over every recheck order, with changing bodies, 404s, error retries and off-site redirects, unchecked pages are first checked in discovery order; after `_update_links`, the page's links are exactly the linkable targets it met; every step of the checker is a step of AbstractCrawl |
| `crawl_liveness` | pass | `EveryPageRecheckedForever` | under fair cron and a fair coin, with a scheduled page and error retries, every page is checked again and again |
| `crawl_as_written` | pass | `PluginValuesLastWriterWins` | the code as written, with every HEAD/GET/robots/plugin answer: a page's stored values are the registry-order last-writer-wins merge of its last plugin run |
| `admin_safety` | pass | `AdminTypeOK` | cron and three admin requests (toggle, delete, expunge, reset), interleaved statement by statement: links join only pages that have rows and `id_page` stays unique |
| `concurrent_checks` | pass | `ImplementsAbstractCrawl` | cron and a `page_check` request checking at once, the same page or two: each check changes only its own page's row and the pages it creates (unchecked), and adds or drops links only out of its own page; two checkers implement AbstractCrawl with two workers |
| `starve_on_transport` | violation | `EveryPageRecheckedForever` | a HEAD transport error is never saved: the seed stays first in the FIFO, and cron selects it forever without its check ever being recorded |
| `duplicate_discovery` | violation | `CheckNeverRaises` | cron and `page_check` find the same new URL; `load_or_create`'s second INSERT raises IntegrityError |
| `delete_race` | violation | `DeleteOnlyUnlinked` | a check links to a page between `can_be_deleted()` and `delete()`; the CASCADE removes the new link |
| `toggle_race` | violation | `NonLinkableHasNoIncoming` | `_update_links` read `is_linkable` before the toggle and links the page after it |
| `lost_update` | violation | `CheckedAtNeverGoesBack` | the toggle's `save()` of its stale copy undoes a check that finished meanwhile |
| `helpers` | pass | `BatchAsDocumented`, `FragmentsJoinToText`, `FragmentSizes`, `NextMonthNearestDay`, `GeneratorsTerminate` | `batch` yields the docstring's tuples (the last one shorter and never empty) and returns; `text_as_fragments`' fragments join back to the text, none is longer than the max, every one but the last is at least the mean long, and it returns; `next_month` lands in the next month on the nearest day number |
| `resurrect` | violation | `PagesAppearUnchecked` | `check_page`'s `save()` re-inserts a page deleted during its check (by `page_delete`, or by `reset_site`'s purge), as already checked; after a reset, `add_page` then finds that checked seed |

The findings in `PROJECT.json` give the code line and the spec statement
for each violation. Some issues met while modelling are not listed as
hazards and get no run, because one call of one function, in a unit test,
shows them:
* status 300 is neither ok nor an error page;
* scheduled pages are ordered by `checked_at`, not by watermark;
* the error message survives a later success;
* `#fragment` links make self links;
* relative links bypass robots.txt;
* `is_valid_url` uses `re.match`, so an absolute URL containing `/api/` is
  not excluded.

`_update_links` as written raises `NameError` (it uses `self.site` and
`Link`, neither defined in `core.py`) on the first page with a valid link.
`crawl_as_written` runs that code (`SELF_BOUND` FALSE, action
`UpdateLinksNameError`); it is a bug the first unit test of
`_update_links` shows, so no run is spent on it. The other runs bind
`_update_links` to the page's site (`SELF_BOUND` TRUE), as the spec does.

Two checks of one page at once (cron and a `page_check` request) also mix
plugin values. `duplicate_discovery`'s instance, with `get_title` in the
registry and `PluginValuesLastWriterWins` as its invariant, finds this in
19 states:
1. cron's run yields a title, and its `PluginsDelete` has nothing to delete;
2. `page_check`'s run, whose `get_title` raised, yields nothing, and its
   `PluginsDelete` runs next: no title is stored yet, so it deletes nothing;
3. cron's `Upsert` then stores the title.

The page ends with a title that its last plugin run did not produce. The
next check of the page repairs it, so this is listed as a hazard
(core.py:66) rather than given a run of its own.

The same two checks also move `checked_at` back. check_page stamps its
in-memory page with `just_now()` before the HEAD request (core.py:131), and
saves the whole row after it. So the check that began first can save last:
`CheckedAtNeverGoesBack` fails in 5 steps of that instance. `lost_update`
shows the same property broken by the toggle's save. The older stamp only
makes the page look due sooner.

The docstring of `fechas.next_month` gives 31 January → 27 February (28 in
a leap year) as its example. The code gives 28 (29), the nearest day, as the
same docstring's first paragraph says; `NextMonthNearestDay` checks the
code against that paragraph, so the example is a slip of the docstring.

### Bounds

* `crawl_safety`: 3 pages. Two of them are pages one body names together,
  so the FIFO order between two discovered pages matters. Three bodies:
  none; two local links and a foreign one; the seed itself and one local
  link. HEAD answers 200 HTML, 200 HTML redirected off-site, and 404. No
  scheduled page, so time only needs its order (`Gap` 1). 353k distinct
  states, 15 seconds.
* `crawl_liveness`: 3 pages, one scheduled with rotation 1. `Gap` 2 and
  `MaxElapsed` 1 are enough for a page to become due between two
  selections, and for the error branch to compete with it. HEAD answers 200
  HTML and 404. 121k distinct states, about 2 minutes.
* `crawl_as_written`: every HEAD, GET, robots and plugin answer (32 plugin
  runs), with the code as written. With `SELF_BOUND` FALSE, no page past
  the seed is ever created.
* `admin_safety`: the seed and one page it links to (or not), one checker,
  one admin request at a time, three requests. Three requests are enough
  for any of these orders: delete then toggle; toggle twice; delete, then
  the page rediscovered and deleted again. One plugin with one value, so
  values exist when a page is deleted. With `reset` among the requests:
  1.4M distinct states, about 1 minute.
* `concurrent_checks`: two checkers, cron and one `page_check`, and no
  admin request. Two pages, bodies naming the second page or nothing, and
  HEAD answering 200 HTML, HTML moved off-site, or 404. So both checkers
  may check the same page at once, discover the same page (the insert race
  raises), and drop links out of a page the other one is linking from. No
  plugins: the refinement does not see values. 1.7M distinct states, about
  1.5 minutes. A third page, or `get_title`, takes it past five minutes.
* `helpers`: every iterable of 0 to 5 items with size 1, 2 and 3 (exact
  multiples, remainders, empty input, and size larger than the input);
  every text of up to 6 characters over a letter, a space and a newline
  with blocks (mean, max) of (1,2), (2,3), (1,3), (2,2), so that all three
  cuts (newline, space, hard cut at max) and the last fragment happen; and
  every date of 2023, walked by days and months to the end of leap 2024
  (29 February, all month ends, the December wrap). 17.8k distinct states,
  a few seconds.
* The violation runs use the smallest instance that contains the case.

## 5. Fairness

The crawler is weakly fair on `Next`. Cron keeps invoking `check`, and the
HTTP calls are assumed to return (they have no timeout; see hazards). The
coin of the error branch (`random.random() <= 0.50`) is drawn afresh at
every call. So, with probability 1, the fall-through branch is taken
infinitely often when it is enabled infinitely often: strong fairness on
`SelectQueued(Cron)`.

No fairness is assumed on the network answers. A permanently failing
server is a legal behaviour, which is what `starve_on_transport` uses.

`helpers` is weakly fair: a generator's caller (`list(...)` or a `for`
loop) keeps asking for the next item, so a pass that can run does. Its
cfg sets `CHECK_DEADLOCK FALSE` because a returned generator and the
date walk at the last year of `Years` are meant to stop.

The Admin runs check safety only and assume no fairness. An admin may
delete every page, and then no checker has a page to select. That is a
legitimate stop, so those cfgs set `CHECK_DEADLOCK FALSE`.

## 6. Not modelled (yet)

* `is_valid_html` and `is_valid_url` as string operators. Their verdicts
  are inputs (`GetResults`, the links of a body). Both are pure string
  tests whose slips one unit-test call shows:
  * `is_valid_url` uses `re.match`, anchored at the start, so an absolute
    URL with `/api/` passes;
  * `is_valid_html` uses `pat_html_begin.search` (webparser.py:15). The
    spec (5.) says the trimmed body *begins* with `<html…>`, but the
    search accepts `<html` anywhere, so text before it passes;
  * in `<html.*>`, `.` does not match a newline. An opening tag whose
    attributes run over several lines (`<html\n lang="es">`) therefore
    fails, and `check_page` saves status 418 for a valid page.
* `cmd_recheck` (a CLI check of one page) is not a separate process: it is
  `check_page` on a page loaded by id or by the scheduler, which the
  `page_check` process already covers with any page of the table.
* `Value.upsert`'s get_or_create and its save as two statements: `Upsert`
  does both for one name in one step. A step of another process between
  them ends as one of the orders the model has. If another check's delete
  removes the row, the save (an UPDATE that finds no row, then an INSERT)
  puts it back, as when the delete came first. If the page is deleted, the
  INSERT violates the foreign key, as `Upsert` raises when the page's row
  is gone.
* `ScheduledPage` rows being created, edited or deleted (the admin site
  does it; `Rotation` is a constant).
* Data only, with no state the properties read:
  * presentation: the views' rendering, `links.py`, `urls.py`;
  * search indexing: `search.py`, and `index_site.py` beyond "a plugin
    that returns `{}` or raises";
  * the rest of `fechas.py` (regex date parsers, formatting, ranges of
    dates) and of `seqtools.py` (`first`, which `load_or_create`'s SELECT
    model already takes as "the row or none", and list splitting helpers);
  * sizes, content types and durations of pages.

Most of the source lines left unmodelled are of this kind: the CLI's
argparse set-up and its listing and printing commands
(`management/commands/spidercheck.py` besides `check`, `reset` and
`recheck`), the views' template rendering, the date parsers and formatters
of `fechas.py`, and the model classes' field declarations and `__str__`
methods. They hold no state that a concurrent step or a later step reads,
so a model of them would only restate the code.
