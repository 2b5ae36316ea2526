# A TLA+ model of ichnaea

Ichnaea turns reports of where phones saw cell towers and wifi access points
into a database of station positions, and answers location queries from it.
Reports travel through Redis lists and Celery tasks; the same task may run
several times at once, fail between any two of its steps, and be sent again.
This project models that pipeline: what may happen to a report, an observation
or a row of a station table, whatever the overlap of tasks.

Paths are relative to `src/ichnaea/` unless they start with `src/`.

## 1. Inventory

| Component | State | Operations | Modules |
|---|---|---|---|
| Redis queues, `queue.py` | a list and a time to live per key | push (EXPIRE, LPUSH), dequeue (LRANGE, LTRIM), size and age | `DataQueue` |
| Station updater, `data/station.py`, `models/station.py` | a table per radio or wifi shard, the update queues, counters | take a batch, read rows, merge or block, write, queue area updates, follow up | `StationRecord`, `StationUpdater` |
| Report export, `data/export.py`, `data/internal.py` | export lists, upload tasks | queue, schedule, export, put back, upload, retry | `ReportExport` |
| Report queue, `data/report.py` | users; pushes to all update queues | find or make the user, count new stations, push observations, grids, scores | `ReportQueue`, `Contributions` |
| Cell areas, `data/area.py` | the area tables, two queues | recompute or delete an area from its cells | `CellArea` |
| Statistics, `data/stats.py` | daily Redis counters, stat and region tables | add a counter to the table and decrease it; recount regions (not modelled) | `StatCounter`, `DailyTables` |
| Score, data map, `data/score.py`, `data/datamap.py` | one table each, queues | add deltas, touch grids | `Score`, `Contributions`; `DataMap`, `DailyTables` |
| OpenCellID import, cell export, `data/ocid.py` | OCID cell table, CSV files | bulk upsert with areas, paged export | `CellArea`, `CellExport`, both in part |
| Location search, `api/locate/` | read-only tables | search sources in order, keep the best | `Locate`, the decision about the last source |
| Fallback source, `api/locate/fallback.py` | Redis result cache, rate counter | get, set, call, limit | `Locate`, `RateLimit` |
| API views and limit, `api/views.py`, `api/rate_limit.py` | daily counter per key | count, refuse, hand over | `Locate`, `RateLimit` |
| Monitoring, web site, scripts, geometry, schemas, settings | none that others depend on | – | not modelled |

How they interact. A submit view sends `queue_reports`, which pushes each report
to every export list. `export_reports` takes batches from a list and sends
`upload_reports`; the uploader of the internal list sends `insert_reports`, one
task per metadata group. `insert_reports` runs the report queue, which pushes
observations to the update queue of each shard, grids to the data map queues and
scores to the score queue. `update_cell` and `update_wifi` drain the update
queues into the station tables, push the areas of cells to `update_cellarea`,
and count. Area, score, data map and statistics tasks work in the same manner.
The locate views only read the tables; they meet each other in Redis, at the
result cache of the fallback source and at the counters of two limits.

All tasks share one frame (`async/task.py`, `data/tasks.py`): arguments arrive
with a message that was acknowledged early and may have expired, a database
transaction (REPEATABLE READ, `db.py:104-111`) is committed on the way out, and
only then a Redis pipeline is executed (`cache.py:44-55`). An exception rolls
the transaction back and sends the task again, up to three times. What was
dequeued at the start is gone in either case.

Hard behaviours, and where they bite, are the `hazards` of `PROJECT.json`. In
short: two tasks of one queue with snapshots of different age; failure between
commit and pipeline; a repeat of a task whose batch is lost; a look at a list
that is stale when the batch is taken; times to live that are set too early;
retries of an upload that was in fact received; a counter or a cached answer
that expires while requests rely on it.

Properties that make the components correct:

- queues: every item is in one place and is handed out at most once; items
  expire only after a full time to live without a push; a polled queue drains
  once pushes end;
- station updater: a blocked station has no position; each observation counts at
  most once; boxes stay within the reach of a station; block dates and counts
  are consistent; areas and counters follow the rows;
- export: a report is at one stage per list, is never put back once sent, leaves
  in full batches, is received at most once per try, and does not stay for ever;
- areas: an area that no task is going to update is the aggregate of its cells,
  and comes to be so when the cells rest;
- statistics: the table plus the counter in Redis is the number of events, also
  when tasks overlap, and totals do not fall;
- report queue: one user per nickname; a task's observations are pushed once and
  not before its scores;
- scores and grids: no delta counts twice; dates are those of the tasks;
- import and export: the areas of imported cells are recomputed; a file holds
  every row;
- search and fallback: cached answers are current and agree with each other; no
  more calls and no more requests than the limits.

## 2. Plan

1. `AtMostOnceQueue`, the abstract promise of a queue. *Done.*
2. `DataQueue` refines it. `DataQueueProofs`. *Done.*
3. `StationRecord`, the rules for one row; `StationUpdater`, the tasks around
   it, refines `AtMostOnceQueue` too. `StationUpdaterProofs`. *Done.*
4. `ReportExport`. `ReportExportProofs`. *Done.*
5. `CellArea`: area tasks over a changing cell table, with imports.
   `CellAreaProofs`. *Done.*
6. `ReportQueue`: insert_reports with users, scores, grids, pipeline and
   retries. `Contributions` composes it with `Score`. `ContributionsProofs`.
   *Done.*
7. `StatCounter`: counter and table, with overlapping tasks and failures between
   commit and pipeline. *Done.*
8. `DataMap`; `DailyTables` puts it beside `StatCounter`. `DailyTablesProofs`.
   *Done.*
9. `CellExport`: paging. *Done, checked.* Row counts of an import: left out,
   since they depend on the database driver.
10. `RateLimit`, and `Locate`, which uses it twice. `LocateProofs`. *Done.*
11. `Pipeline`: export, report queue, updater and areas together on a tiny
    instance, for what holds only end to end. *To do.*

Every invariant and action property of the passing runs is a theorem by now.
Worth proving next: the steps behind the liveness properties that are not
themselves temporal (what each task step decreases, and that nothing else
increases it), and `NewStationsAreCounted` for several workers, up to stations
that two tasks found new.

## 3. Modules

`AtMostOnceQueue` — items are put, taken or lost in sets, each once.

`DataQueue` — `list`, `ttl` are the Redis key; `silence`, `puts`, `delivered`,
`expired` are history variables. `Enqueue` is `_push` in its transaction: the
time to live is set before the key exists, and the last item pushed is the head.
`Dequeue` is `_dequeue`; `Tick` is the clock with Redis' expiry. `EnoughData` is
`enough_data`, with the `min` of `_size_age`.

`StationRecord` — operators only: a row is its box, sample count and block
columns. `StationValues` is `station_values`; the two places where it returns
`moving` are one, since the box that includes the row's box contains the other.
`Blocked` is `StationMixin.blocked`. NULL and 0 are one value where the code
treats them alike (`or 0`, truth tests).

`StationUpdater` — one queue, one table, several workers. `Submit`, `Expire`,
`NextDay`, `Beat` and `TaskExpires` are the environment. A task runs `Dequeue`,
`Query`, `FollowUp`, `Commit`, `ExecutePipe`; `Fail` may happen instead of any
of them. The row reads are one snapshot because of REPEATABLE READ, and writes
take effect at the commit. `Written` is the insert with a no-op on duplicates
for rows that the snapshot lacks and the update of all columns otherwise. `pipe`
is what the pipeline holds. `areaUpdates` collects every area ever queued. For a
wifi table `AreaOf` is empty.

`ReportExport` — `list` per key, `msgs` the export task messages, `pc`, `cur`,
`held` the export tasks, `uploads` the upload tasks with the parts they have
sent. `StartExport` is the first look, `Take` the dequeue, `PutBack` the short
batch, `SendUpload`, `FollowUp` the rest. `SendPart` is the post, the transfer
or one `insert_reports` message; a failure may follow it as well as precede it.
`received` counts what got to the other side, `finished` is history. A report is
what one push put into the lists: when Redis has executed the pipeline of
`queue_reports` and its answer is lost, the task is tried again, and what it
pushes then are further reports of the same content. All that is said of reports
is said of each of them.

`CellArea` — `cells` and `areas` are the tables, `queue` says how often an area
stands in its list. `StoreCell`, `ExecutePipe` and `LosePipe` are a station
update as an area sees it: the commit, then the pipeline, or a failure between
the two. `Expire` is the time to live of the queue's key, which drops all areas
in it. `ImportStations` is the import up to the push of its areas, which comes
before `CommitImport`. `Query` reads cells and areas in one snapshot and
computes what will be written; `Written` is the delete, the insert without
effect on a row that has come to be, and the update of those columns that differ
from the row read, as SQLAlchemy writes it. `Vanished` is the update of a row
that another task has deleted. `missed` is history: the areas whose last change
no task may have seen. Five steps put areas there: `LosePipe`, `Expire`, `Fail`,
a `Dequeue` of an area that another task holds, and a `CommitImport` after the
area was read. A later task that reads the area alone takes it off.

`ReportQueue` — one task per message. `Begin` looks up the user and the new
stations, `InsertUser` flushes a user row, `PushScores` pushes at once, `Commit`
and `ExecutePipe` end a task. `Fail` sends it again as a whole, `LoseAnswer` too
though Redis has executed the pipeline, `Crash` ends it. `UpdateStations` stands
for `StationUpdater`: stations become known. `creditedTo`, `pushes` and
`unanswered` are history.

`Score` — `Dequeue`, `Query`, `Commit` of `update_score`; `earned` sums the
deltas of committed batches. `Contributions` composes `ReportQueue` and `Score`,
which share the score queue.

`DataMap` — `update_datamap` for one shard: the date is noted at the start and
written at the commit. `StatCounter` — `update_statcounter` for one statistic
and several workers: nothing keeps a task from starting while another one, of
the same day or of the one before, is running or being tried again. `Query`
reads the table, `Get` the counter, `Commit` writes the running total
(`Written`: the update of a row that was read, the insert, or the addition to a
row that has come to be), `ExecutePipe` decreases the counter; counters expire.
The column is unsigned, and MySQL in strict mode, as `docs/deploy.rst` asks,
refuses a total below zero: `Commit` is then not enabled, and the task can only
fail. `recounted`, `lost` and `contended` are history: what was added to a row
and not taken off the counter, what was in a row and has been overwritten, and
the days on which tasks read a counter that another had read and not yet
decreased, or lost it under way, or wrote after a task of a later day had read.
`DailyTables` gives both a calendar. They share nothing else, so a behaviour
follows one of them (`table`).

`RateLimit` — the counter of `rate_limit_exceeded`: increased, then compared;
Redis may fail before or after it has counted. `Locate` — concurrent requests:
`Check` with the daily limit, `SkipCheck` when the database fails, `Search` for
the sources before the last one, then `FallbackPositionSource`: `AskCache`,
`CountCall`, `Call`, `Store`. It has two instances of `RateLimit`, which differ
in the verdict on an error. `Cluster` groups cached answers as the code does, by
latitude only.

`CellExport` — rows change while an export reads its snapshot page by page,
table after table; `offset` is that of `write_stations_to_csv`.

Updaters and export use sets where Redis has lists: `DataQueue` shows that a
list hands out each item at most once, and leaving the choice of the batch open
covers its order. `Score` and `DataMap` take all that waits as one batch, since
a batch there is larger than any queue of the runs.

Each operator commented "Mutant:" is a faulty variant of the one after it. It is
used by mutation runs only, which show that a property depends on the code.

## 4. Runs

| Run | Instance | Shows |
|---|---|---|
| `queue` | 4 items, batches 0, 1, 2, TTL 4, fair polling | conservation, order, expiry, draining, refinement of `AtMostOnceQueue` |
| `stations` | 2 stations, 5 observations, 2 tasks | samples, boxes, blocks up to the permanent one, area updates |
| `station_single` | 1 station, 4 observations, 1 task, fair | blocked rows are frozen, exact counts, draining, refinement |
| `export` | internal list and s3 list, 4 reports, 2 tasks | one stage, parts and retries |
| `export_live` | a partner's list, 3 reports, batch 2, 2 tasks, fair | full batches leave, uploads end |
| `areas` | 2 cells of one area, a file with both, 2 tasks, fair | a settled area is the aggregate of its cells, and areas converge, up to five ways to miss a change |
| `contributions` | 2 tasks of one nickname, 1 retry, 2 score tasks | one user, observations pushed once, scores pushed before and not counted twice |
| `daily` | 3 days, counters that live 2 days, 2 map or 2 statistics tasks | conservation of events, growing totals, exact dates |
| `locate` | 3 requests, limits 2 and 1, 4 ticks, entries that live 2 | both limits, cache hits that are current |

Three runs expect a violation. Each checks a statement of the repository:

- `queue_old_data`: `queue.py:27-29` promises that old data is enough data. The
  age is bounded above by 0 (`queue.py:81`), so it never is.
- `locate_cluster`: `api/locate/fallback.py:204-206` speaks of clusters by
  latitude and longitude. The key holds the latitude twice (line 220), so a hit
  can be the mean of two places far apart on one parallel. The run `locate`
  checks what is left of the promise: a hit agrees by latitude with the current
  answers.
- `cell_export`: the downloads page offers the entire cell network. The offset
  is not set back between tables (`data/ocid.py:69`), so each table but the
  first loses up to as many rows as the pages before it hold.

What else was met while modelling, and is part of the models though no run is
spent on it:

- the first push to an absent key sets no time to live (`queue.py:55`), against
  `queue.py:24-25`; `DataQueue` has `ttl` absent then;
- a task whose snapshot is older than a block writes the row all the same,
  against `constants.py:24-25`; `BlockedRowIsFrozen` is checked and proved for
  one worker, and `BlockedHasNoPosition` for any number;
- two tasks can both find a station new and count it (`data/station.py:281`), so
  exact counts are checked for one worker;
- an export task whose list was emptied after its look uploads nothing
  (`data/export.py:97`);
- the scores of a try that fails later stay in the queue, and if its user row is
  rolled back they are for an id that belongs to nobody
  (`data/report.py:230-245`);
- two overlapping score tasks can lose deltas, and area tasks can leave an old
  aggregate (`overlapped`, `missed`): the properties say by which steps only;
- two overlapping statistics tasks can count a counter twice: both add it to the
  row (`data/stats.py:49-55`), both take it off, and the counter is negative
  until as much was counted again, or until it expires; a task that finds it
  negative lowers the row, or is refused; a task that read a row before another
  added to it overwrites that (`contended`, `lost`);
- Redis may have executed a pipeline whose answer is lost: the task is tried
  again and pushes twice (`unanswered`; reports of `queue_reports`).

Bounds. Two tasks per queue, because every step touches one task and the shared
state, and a task can be stale with respect to one other. Batches of two and up
to five items give full, short and several batches. `MaxDay` of 2 or 3 with a
block of one day gives blocked, expired and renewed blocks; `PermThreshold = 2`
makes the permanent block reachable. Positions 0 and 1 are near, 5 is far.
`MaxRetries = 1` shows the first and the last try. `MaxTasks` and `MaxMsgs` cap
the messages that wait in the broker: a message that finds the cap reached is as
good as one that expires. The numbers of items, stations, workers and days are
bounds of runs, not of proofs. `MaxCopies = 1`: a second copy of an area in the
queue changes nothing that the first does not. `MaxFound` of 3, over all days,
lets two tasks move one counter and more be counted under way, or gives rows to
several days; `MaxRecounted` and `MaxLost` of 1 let a counter be counted again
and a row be overwritten, in either direction. `MaxDay` of 3 with `KeyDays` of 2
lets a counter expire before it is moved or under a task, tasks of two days
overlap, and a row start from another one. Refused commits, additions to a row
that has come to be, negative counters and falling totals on contended days are
all reached. In `Locate` one day and two intervals fit into `MaxTime` (that the
daily limit starts anew is left to the theorem), and cache entries expire within
it; with three requests a query can find answers of two others, and either limit
is exceeded. `CellExport` has tables of a page and a half (`MaxHour` of 2
reaches a diff). Symmetry is used for workers, tasks and requests, and in no run
with liveness. `KeyDays >= 2` is the two days of `models/content.py:269-274`.
`Expire >= Interval` is assumed of the fallback's settings, as `docs/config.rst`
asks; the default of `ratelimit_expire` is 0, with which Redis drops the counter
at once and there is no limit. `ReportExport`, `Contributions` and `Locate` are
checked without deadlock: they stop when all reports are through, all tasks have
ended, or all requests are answered and time is up. Others always have a step,
at least the clock or the scheduler.

Fairness. Celery beat sends tasks every few seconds (`async/schedule.py`), which
is weak fairness of `Beat`, `Schedule` and of the polling `Dequeue` of
`DataQueue`. A message waits while workers are busy and may expire, so its
delivery needs strong fairness. A running task takes its next step; in
`ReportExport`, where a step may always fail instead, it does not fail at the
same step for ever. No fairness is assumed of submissions, time, failure or
expiry. Uploads end because of the retry limit and not by assumption of success.
In `CellArea` a pipeline is in the end executed or lost, a running task goes on
or fails (weak fairness), and the scheduler's tasks reach an idle worker again
and again (strong fairness, since another worker may empty the queue in
between). That an area converges is then stated up to `missed`, for failures may
repeat. `Expire` of an area queue has no fairness: tasks are sent every few
seconds, and the queue lives for a day.

## 5. Proofs

Each `...Proofs` module extends the module it is about. Its inductive invariant
is called `IInv`, and where a second part of the state has properties of its own
there is a second invariant that may rest on the first. Every such invariant was
checked by TLC on the instance of the run before it was proved. A lemma shows
that it holds at first, and one per action that it stays.

`SetFacts` holds what several of them need: that finite sets of numbers have a
largest and a smallest member, which is what `Max` and `Min` choose, that images
are finite, and what is known of the sums that `MapThenSumSet` computes. The
prover cannot use the library's induction theorems. `SmallestSet` takes their
place: a statement that fails for some finite set fails for one all of whose
parts by one member less satisfy it. With it the function that the fold chooses
is shown to exist (`SumExists`), to be of numbers or integers (`SumType`), to
stay between the multiples of its bounds (`SumBounds`, `MeanBounds`), and to
change by as much as one summand does (`SumChange`). `SumFunctionFacts` says
this of `SumFunction`.

`DataQueueProofs`, for every number of items, set of batch sizes and time to
live. The inductive invariant is `IInv`, the conjunction of the four invariants
of the run `queue`: conservation needs the order, which shows that the items of
the batch and the rest are disjoint, and expiry needs that the time to live
measures the silence. Proved: type correctness, conservation, order, that
measure, expiry only after silence, and the refinement of `AtMostOnceQueue` step
by step.

`StationUpdaterProofs`, for every finite set of observations and stations, every
set of workers and any thresholds. Invariants of the table alone are not
inductive: a row comes from a snapshot that may be old. `IInv` states for each
snapshot what it states for the table, with respect to the observations
consumed, and that batches in progress are disjoint from each other, the queue
and what was consumed. Row lemmas on `Moved` and `Merged` are stated once for
any row. Proved: type correctness, no position while blocked, samples and boxes,
block history, the refinement, and for a single worker that blocked rows do not
change. `AreaInv` adds that a pipeline is empty unless its task has committed,
and that what it holds has rows; from it follow `RowsBeforeAreas` and
`AreasAreUpdated`. `RowsCounted` counts the rows that wait in the pipeline of a
single worker, and gives `NewStationsAreCounted`.

`ReportExportProofs`, for any reports, lists, batches, workers and retries.
`OneStage` speaks of the sets of a list; `IInv` speaks of one report and one
list: it is still somewhere (`Tracked`), and nowhere twice (`Apart`). How often
a report was received is not bounded by an invariant of that number alone: it
has to be counted against the try its upload is at and the parts that this try
has sent (`Accounted`, with `PartsSent`). Proved: type correctness, `OneStage`,
`QueuedIsUnsent`, `ReceivedOncePerTry`.

`CellAreaProofs`, for any finite set of cells, any areas, workers and copies in
the queue. For an area that was not missed `IInv` says that one task at most
holds it (`OneHolder`), so the row that task read is still the row
(`ReadIsCurrent`), and what it computed is current as long as no change of the
cells is on its way (`ComputedIsCurrent`). Then the commit makes the row right
(`Right`), and `SettledIsAggregate` is what `Right` says of an area that nothing
is going to update. The expiry of the queue takes away notice of a change, but
only of areas that are missed from then on. Proved: type correctness and
`SettledIsAggregate`.

`ContributionsProofs`, for any tasks, nicknames, retries and score tasks. That a
nickname has one user is not inductive: a task may hold a row that it has
flushed and not committed. `IInv` adds that such a task is the only one of its
nickname, with an id above all others when it got it (`OnlyMaker`,
`LaterIdsUnused`), and that a task has pushed nothing before it is done
(`PushedWhenDone`). Proved: `OneUserPerNickname`, `ObservationsPushedOnce`.
`TaskInv` bounds ids and pushes by tries (`IdsEnough`, `PushedPerTry`),
`CreditInv` says of a task that has committed, or pushed, that it has credited
the user of its nickname, who stays; they give type correctness and
`ObservedIsCredited`. `ScoreInv` says that a score task has read no more than
had been earned, though the row may be less by now (`SnapsEarned`), and that a
task that runs alone has read the rows as they are (`SnapsCurrent`); with it
`CreditIsEarned` is proved.

`DailyTablesProofs`, for any number of days, events and overlapping tasks.
`EachEventCountedOnce` is an equation of integers for each day; the only term to
which several tasks contribute is the sum of what committed ones are to take
off, of which each step changes one summand (`PendingChange`). It needs no
assumption on overlaps, because what a commit adds to the row, or overwrites in
it, is always what its task read of the counter (`CommittedAmount`).
`TotalsGrow` needs more. A row is not below the total it was started from
(`RowsAboveBase`), and that one is not below an earlier row
(`EarlierBelowBase`); both are said as well of what tasks have read and may yet
write. A task keeps this if what it adds is not negative, which holds as long as
the counter covers the one task that has read it (`CountersCover`), and if no
later day has a row, or a task that read none, when it writes. Days that break
one of these are `contended`. Proved: `EachEventCountedOnce`, `TotalsGrow`. For
the data map, `MapInv` says of each grid that its row has the first and the last
of its dates (`Exact`), unless tasks of two dates overlapped on it, and that
rows have dates (`RowsDated`), so that a row that was read is not taken for one
that is missing. Proved: `GridDatesAreExact` and the types of both.

`LocateProofs`, for any set of requests and any limits, day length and interval.
A bound on the uses of a period is not inductive, because a counter that expired
early would let more of them through. The invariant says that the counter of the
present and of each coming period outlives it (`Kept`, from `Expire >=
Interval`) and has counted each use that was not let in uncounted (`Counted`).
Lemmas state it once for any pair of counters; the two limits are instances of
them. Proved: `CallsWithinLimit` and `ServedWithinMaxreq`. `CacheInv` ties each
cache entry, and each missing entry, to what was stored for the network and when
(`Fresh`); the answer in the cache is then a current one (`CurrentFacts`). A hit
that is a mean agrees with all that it is the mean of because the mean of
numbers between two bounds lies between them, here between a latitude and itself
(`MeanFacts`). Proved: the action property `HitsAreCurrent`. Type correctness
needs the same for the bounds of all positions, and that a counter does not
exceed the number of requests that are past the step that counts (`CountInv`);
only there are requests and places assumed to be finite.

Assumptions are the named ASSUMEs of the modules, which TLC evaluates in every
run. `NewStationsAreCounted` and `BlockedRowIsFrozen` have the hypothesis of the
run that checks them, a single worker; with several both are false, as told in
section 4. Z3 and Zenon check the leaves, LS4 the temporal steps.

Only model-checked: liveness under fairness (`Drains`, `QueueDrains`,
`FullBatchLeaves`, `UploadsEnd`, `AreasConverge`), which is out of the prover's
reach, and the three runs that expect a violation. All other properties of the
runs are theorems.

## 6. Not modelled

The geometry (means, radii, regions; `geocalc.pyx`, `geocode.py`) is floating
point and is abstracted to points of a line. Validation and renaming of fields,
rendering, settings, monitoring and operator scripts keep no state that others
depend on. `CellUpdater.shard_queues` moves items of an earlier release's queue
(marked BBB) and is left out. The internal sources of a location search read
tables and weigh positions in floating point; they keep no state. `StatRegion`
(`data/stats.py:61-111`) recounts all regions in one transaction of a daily
task. `log_unique_ip` feeds a HyperLogLog. The parsing, packing and row counting
of an import are left out.

The JavaScript of the repository (`content/static/js`), most of its lines, is
vendored libraries (jQuery, DataTables, Flot, Mapbox and its plugins) and glue
of a few dozen lines per page that draws a map or a plot from what the server
sends. It holds none of the state or the protocols above, and no module maps it;
the program is the Python code.
