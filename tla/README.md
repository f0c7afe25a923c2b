# Verification of yubi

TLA+ modules for the backend in `src/backend` and for those parts of the frontend
that take part in its protocols: robots that record episodes, the tasks and versions
they record for, the operator lock, the streams to the pages, uptime, statistics,
imports and API keys. TLC checks small instances; TLAPS proves what it can for every
instance.

    tlc -workers 2 -config MCRobotApi.cfg MCTeleop     # one run of PROJECT.json
    tlapm Teleop_serial.tla                            # the proofs of one module

## The system

| Part | State | Operations | Talks to |
|---|---|---|---|
| Episode lifecycle (`usecase/episode.go`) | table `episode` | Create, BulkCreate, RepeatLast, Start, Finish, Cancel, Update, Delete | writes the robot, the subtasks, the executions and the task in its transactions; notifies the buses |
| Subtasks and executions (`usecase/episode_execution.go`, `episode_sub_task.go`) | tables `episode_sub_task`, `episode_sub_task_execution` | execution Create, Start, Finish, Cancel; subtask Complete, Skip | checks the episode's robot, not its status; cancelled in bulk by an episode's Cancel |
| Robots (`usecase/robot.go`) | table `robot` | Create, Update, Delete | Start, Finish and Cancel of episodes write the same rows |
| Heartbeat (`usecase/robot_device.go`, `gateway/robot_status.go`) | a Redis key per robot with 5 minutes to live | UpdateRobotStatus | decides between Online and Offline of a Ready robot; adds uptime; notifies the status bus |
| Task status (`usecase/task.go`, `task_version.go`, `episode.go` Finish) | column `status` of `task`, approved `task_version` rows | Update, Approve, Finish | sums over the episodes and the versions of the task |
| Tasks and tags (`usecase/task.go`, `task_import.go`) | tables `task`, `task_tag`, `task_tag_assignment` | Create, Update, Delete, import | an import judges rows by what it read before its transaction |
| Versions and subtask templates (`usecase/task_version.go`, `sub_task.go`) | `task_version`, `sub_task` | Create, Update, Reorder, Delete, UpdateParameters, Approve | Approve ends the draft; episodes copy the list |
| Authentication and API keys (`middleware/auth.go`, `usecase/api_key.go`) | table `api_key`, a map of last writes in memory | per request; Create, Update, Revoke | names the robot that a request may act for |
| Uptime (`usecase/robot_device.go`, `robot_status_metrics.go`) | two Redis keys per robot, table `robot_uptime_hourly` | accumulate, flush | a separate service flushes |
| Events (`event/`, `handler/teleop_broadcaster.go`, `handler/sse.go`) | subscribers, rooms, loops, cached frames | Subscribe, Unsubscribe, Notify, fan out | notified after each commit; read by the hooks of the pages |
| Operator lock (`usecase/robot_operator.go`, `use-operator-heartbeat.ts`) | a Redis key per robot with 60 seconds to live | Set, Get, Clear | the page's timers |
| Statistics (`cmd/aggregate-episode-stats`) | hourly, daily, monthly tables, task version sums | regular run, backfill | reads the episodes |
| Administration (users, organizations, sites, locations, fleets, grades), exports | a table each | create, read, update, delete | foreign keys |
| HTTP layer, other pages | none | decoding, forms, charts | one usecase per handler |

What makes them hard: a usecase reads rows, decides in memory, and writes whole rows
back. Transactions run READ COMMITTED and, but for two of the drafts' operations,
lock nothing on reading, so what was read may be old when it is written. Some
operations run outside any transaction. Robots are agents on a network, which repeat
a request whose answer they did not see. Redis keys expire between two commands.
Signals carry nothing and are merged; loops and connections come and go. What each
part must keep true is what `PROJECT.json` lists as hazards, each with its line and
the properties that cover it.

## The modules

    Domain            rows and domain methods
      Requests        tables, requests, statements, locks
        EpisodeUsecase
          RobotUsecase
            ExecutionUsecase
              TaskUsecase
                Teleop            Next, fairness, properties
                  Documented      what documents say
                    MCTeleop      instances for TLC, with six of the MC*.cfg
                  Teleop_proofs   types, what nothing breaks, and what the robot
                                  API keeps however requests overlap, proved
                    Teleop_serial what serial requests keep, the refinement, and
                                  the status of tasks, proved
    Session           the abstract sessions, implemented by Teleop

    OperatorLock      the lock's requests and the page
    Lock              the abstract lock, implemented by OperatorLock

    EventBus          the bus, for one key
      Broadcaster     one loop for many connections
        StatusStream  handler and page of a robot's status
      TeleopStream    the room of a robot's teleoperation pages
        TeleopStream_proofs           a quiet room is current, proved
      EpisodeStream   the page and the list of an episode
    RobotPages_proofs OperatorLock's refinement, StatusStream's loops, proved

    UptimeBuffer      reports, buffer, flush
      UptimeBuffer_proofs             the account of seconds, proved
    StatsAggregation  the batch job beside itself and the episodes
      StatsAggregation_proofs         runs leave exact sums that add up, proved
    TaskDrafts        versions and their subtasks
    TaskCatalog       tasks, tags, imports
    ApiKeys           keys and their last use
    MCConsole         TaskDrafts, TaskCatalog, ApiKeys, EpisodeStream and
                      StatsAggregation side by side
    Console_proofs    the properties of the first four, proved

    Sums              lemmas about sums and largest numbers, proved

The other MC modules instantiate the module they are named for. An operator marked
"Mistake" is a plausible bug in the operator after it; no action uses it, and it
serves to show that a property would notice.

**Domain** is `internal/domain/model`: a row is a record, a method that the code
guards with an error is an operator `CanX` and an operator `X`. A timestamp is a
Boolean (is it set), and a duration is one unit per completed episode. A row
that was never inserted is `"absent"`.

**Requests** holds the variables of Teleop. A request is a sequence of statements and
one action is one statement: `pc[c]` is the next statement of client `c`, `req[c]`
what the request names, `buf[c]` the rows it holds in memory. `Begin` is the
first statement of a request, `Read` a further one that others cannot see,
`Respond` ends it. `RollBack` may happen at any time: it is the error of a failed guard, of
the database, of a lost connection, or a crash of the server. A failed guard is
a state where the request's action is not enabled and only `RollBack` is.

The last writes of a transaction and its commit are one step, because nobody
else can see between them. The exceptions are Finish and Approve, which go on
reading after they have written: Finish's rows stay in `buf`, and `EpisodeFree` and
`RobotFree` make others wait for their locks, as does `ApproveWrite` for a version's row.
Waiting cannot deadlock: every transaction takes its locks in the order
subtasks, executions, episode, robot, task.

**EpisodeUsecase**, **RobotUsecase**, **ExecutionUsecase** and **TaskUsecase** have one
action per statement that decides or writes, under the name of its usecase:
`Start`, `StartRobot`, `StartWrite` are the three of `usecase/episode.go` Start.
Reads that only validate what the properties do not tell apart are folded into the
next one. Two constants choose what happens at once. `Issues[c]` is the kinds of
request that client `c` sends. With `Overlap = FALSE` a request about a robot begins
only when no other about that robot is being served; requests about different robots
and about tasks still interleave statement by statement.

**Session** says what the robot API promises, in three actions: queue episodes,
record one, end it. `ImplementsSession` maps an episode's status to its phase, its
robot to its owner, and a robot's active episode to its session.

**OperatorLock** has the Redis key, and per page the step of a PUT (SETNX, GET, SET,
answer), of a GET and of a DELETE, with the hook that sends them: the interval of its
heartbeat and one that it has forgotten (`stray`), its answer to a refusal, and requests
that outlive the page. A page is shown, left (its cleanup runs once, whatever is under
way, and a GET answered later starts the heartbeat again), or gone with its tab. Time is
counted in periods of 30 seconds, in each of which an interval fires once; the key
expires two periods after it was written, whatever the pages do. **Lock** says what is
left of mutual exclusion: a user takes the lock after seeing it free or its own, gives
it back after seeing it its own, and it does not expire while a page of its holder runs
whose last heartbeat got through (`keeping`); `claiming` and `releasing` are the users
between the two commands.

**EventBus** is one key of a bus with the row it tells of. A write owes a signal;
`Notify` pays it; a channel holds one. **Broadcaster** adds the loops: of a
subscriber's channel only the newest value matters, so it is one slot. **StatusStream**
adds the handler and `useManagedEventSource`, with its retry and hide timers.
**TeleopStream** has bounded channels of frames, the room's cache, and the comparison
by task id that decides whether to send the task's frame. **EpisodeStream** has a
frame read in three queries, the page that closes at the first terminal frame, and
the list that asks again at every ping. TanStack Query is external: it gives up a query
under way for a new one only when it has data to show, repeats a failed one once and then
shows the error; the history `kept` are the lists whose first answer was on its way at
their last ping.

**UptimeBuffer** counts time in ticks, several to a second, as the code truncates; the
histories `counted`, `lost`, `twice`, `again` and `online` say what the properties compare.
**StatsAggregation** keeps the rows of each hour and of each version; `batch` holds what a
regular run and a backfill have read and are about to delete. A tick is less than a second,
each episode's part of an hour is rounded to seconds before the sum, as the cast in SQL
does, and the times of an episode are any. A row of an hour stands for a robot; its
location and organization are not told apart. The history `settled` are the periods last
replaced with sums that are still those of the episodes. **TaskDrafts**,
**TaskCatalog** and **ApiKeys** have one action per statement; `work`, `job`, `edit` and
`call` are what a request carries from one to the next.

## What the runs show

Passing runs:

| Run | Instance | Distinct states | Properties |
|---|---|---|---|
| `robot_api` | 1 robot, 2 agents that hand it over; 3 episodes; overlapping; fair | 38 thousand | `TypeOK`, `OneRecording`, `BusyImpliesRecording`, `EpisodeRowCoherent`, `SessionsEnd` |
| `sessions` | 2 robots with an agent each, a console that edits and deletes robots; 2 episodes; one request per robot at a time | 150 thousand | `SessionAgreement`, `RobotRowCoherent`, `ImplementsSession` |
| `work` | 1 agent and a console, 2 subtasks with 2 executions each; one request at a time | 690 thousand | `CancelledIsOver`, `OneStartedExecution`, `ExecutionOfBegunSubTask` |
| `tasks` | 1 client, 1 task, 2 versions, 2 episodes, edits of both | 440 thousand | `TaskStatusIsProgress`, `CanceledTaskReturnsToProgress` |
| `operator_lock` | a page for each of 2 users; intervals and PUTs in time, 2 requests at once besides those on leaving; fair | 147 thousand | `ImplementsLock`, `OneGivesUp`, `LoneOperatorHolds` |
| `uptime` | 1 robot, 6 ticks, 2 to a second, 3 to an hour; a crash or failed deletion counts once; fair | 220 thousand | `Accounted`, `OnlineOnlyWhileReporting`, `BufferDrains` |
| `status_stream` | 2 pages, one in a tab that is hidden; 2 loops; 2 reports; 1 broken connection; fair | 1.2 million | `OneLoop`, `StatusReachesPages` |
| `teleop_stream` | 2 pages, 2 loops, 1 write that changes the task, channels of 2; fair | 2.2 million | `QuietRoomIsCurrent`, `TeleopReachesPages` |
| `console` | 2 people on 2 versions with 3 subtasks each; 2 people on 3 tasks, 1 tag, 2 files, one import at a time; 1 key, 1 edit and 2 calls at once; a page and a list of an episode written 3 times; 2 runs of the aggregation over 2 hours, 2 robots, 2 episodes, 1 edit | 10 million | `PlacesStayDistinct`, `ApprovedListFrozen`, `RecordedSubTasksStay`; `OneImportedTaskPerName`, `TagsAsLastSet`; `RevokedForGood`, `LastUsedFresh`, `LastUsedNeverBack`; `WaitingPageIsCurrent`, `ClosedPageIsFinal`; `SettledIsExact`, `HoursAddUp` |

So, of robot requests that overlap freely: the API alone never leaves a robot Busy
without a recording, never gives it two, never leaves a row that contradicts itself,
and frees the robot in the end. Of requests that are served one at a time per robot:
episode and robot agree always, also beside edits by hand; the API implements the
abstract sessions; nothing goes on in a cancelled episode. A task has its
progress after every Finish and Approve, and a cancelled one is only taken back to its
progress. The lock changes hands as `Lock` says, one of two operators gives up, and
whoever is alone gets it and keeps it. Uptime is accounted for but for three named losses. A
stream that is not interrupted, and whose loop missed nothing, ends up to date; a loop
never has a twin. A run of the aggregation repairs what others have left of its hours, and
the hours add up to the versions but for rounding. Two subtasks share a place only if a
reordering says so. Of an approved version no
subtask is added or moved, and recorded ones stay. Repeating an import duplicates
nothing. A revoked key stays revoked, and the time of its last use neither goes back
nor lags by more than a minute, unless the write failed.

Three runs end in a counterexample, to something the repository says:

| Run | What TLC finds |
|---|---|
| `stuck_recording` | A duplicate Cancel or Finish with an old robot row makes a Busy robot Ready; its episode can no longer be finished, cancelled or replaced. |
| `completed_cancelled` | Cancelling an episode turns its completed subtasks and finished executions into cancelled ones: the two UPDATEs have no filter on the status. The domain's Cancel of a subtask, which nothing calls, its test, and the diagram in `docs/robot-api-guide.md:472-478` make Completed final. |
| `approved_locked` | A request that found a version a draft edits it, or deletes a subtask of it, after the approval. |

### What the code does that no property forbids

Met while modelling; the properties are stated so as to leave exactly this out.

*Sessions.* With overlapping requests an episode that has ended gets another end or
records again; a cancelled subtask is revived by a request that read it before; a
robot that became Busy after the check is edited or deleted; an edit of a robot's name
writes Busy back after Finish, and nothing in the API takes it away; two Starts at
once leave two executions of a subtask running; two robots that finish episodes of one
task at once leave its status counting one. Cancel sets no finish time, so a robot
whose episodes were all cancelled has no current episode. Editing or deleting a
completed episode does not touch the status of its task. Three sentences of
`docs/robot-api-guide.md` promise less than the code does: a subtask is InProgress as soon as
an execution is created (474), it can be completed without any execution (322), and
RepeatLast also repeats a cancelled episode (372).

*Operator lock.* GET and SET, and GET and DEL, are two commands: SET overwrites a lock
taken in between, DEL deletes it, also after a GET that found no key. So two heartbeats
may alternate. A second tab of the same user releases the lock of the first. A DELETE
that fails, or that a PUT under way overtakes, leaves a lock that the page then finds its
own, and resumes; the comment in `stop` says that it cannot. A page that is left while
its GET is under way starts a heartbeat that no cleanup clears, and holds the robot until
it is refused or its tab closes. A page that resumes after a GET sends its first heartbeat
30 seconds later, when the key may have expired; 60 seconds are two heartbeats, so that one
lost is enough for the key to expire under a page that works. Whoever starts again before the
answer to their stop (`Hasty`) gets a second interval, of which the first is forgotten.

*Uptime.* Seconds added between the flush's GET and DEL are deleted unread; a crash
between writing and DEL writes them twice, which the comment there accepts. The buffer has one hour
for all its seconds. Fractions of a second are dropped at each report. Two reports at
once count their time twice, and an older one saved last rewinds the status. A robot
with uptime rows cannot be deleted; one deleted between listing and writing fails the
batch of all; its keys stay behind. The comment at `usecase/robot_device.go:18` that the key has
expired when the gap exceeds the threshold does not hold of equal durations.

*Streams.* A signal before the loop has subscribed is lost. Nobody is notified when a
status expires or an episode is deleted. The buses are in one process. A page whose
retry timer fires in a hidden tab, and which is shown again before the hide timer,
stays at "Connection lost, retrying...". The answer to a list's first query, on its way at
a ping, counts as new: the list shows the old episode until the next ping. A list whose
query failed twice shows the error until then. `fanOut` of the teleop broadcaster drops the
newest frame where the generic one drops the oldest. A task that is edited keeps its
old frame, which is compared by id. A page of an episode has closed at the first
terminal frame, and sees neither subtasks completed after Finish, which the code
allows, nor an episode taken back by hand; grades signal nobody.

*Versions, tasks, imports.* Two Creates at once commit the same version string, for no
index forbids it; an edit of a version writes back the targets it read, another
person's too; a copy may mix two states of its base. Reorder compares the number of ids and
that each is of the version (`usecase/sub_task.go:156-163`): a list that names one twice is
accepted, and may leave two subtasks in one place. Two imports at once insert a name
twice, as Create and renaming may. A tag in both columns is assigned twice. An Update
with tags alone is refused ("no fields to update"). A missing deadline passes the
validation of its row and then fails the whole file. A line with another number of
columns also fails the whole file: `FieldsPerRecord` is left 0, so that the code for
short rows is not reached.

*API keys.* Update writes back the expiry it read, so that a rename may restore the old
one, and it accepts an expiry in the past. A failed reload after Create leaves a key
whose secret nobody has seen. A request let in before the revocation is still served.

*Statistics.* The regular job counts the previous hour once: what is reported late, or
spans a full hour, is missing until a backfill, which nothing guarantees. Of runs that
overlap one may fail on the index, or leave the older sums, or rows of both, though the comment at
`main.go:247` calls the replacement atomic. A robot with completed episodes may be deleted while no row refers
to it; from then on the replacement of their hours fails on the foreign key, and ends each run there,
before later hours and the versions. Each part is rounded by itself, so that an episode
from half a second before the full hour to half a second after counts a second in both. No times are
checked: overlapping episodes give an hour more than an hour, and one that
finishes before it starts counts negative or in no hour.

### Bounds

Three episodes (`robot_api`) are enough for one that has ended, one that records and
one that is queued, which is every combination that a row written late can hit; two
where robots or edits are added. Two overlapping requests and one further client are enough
for each race found. Two executions are the least that `OneStartedExecution` can be
about. Two subtasks let one be completed and one skipped when the episode is cancelled.
Two episodes and two versions with a target of one each take a task through planning,
doing and completed, and back to doing when a second version is approved.

Two pages, two users and two loops are the least for a lock that is contended and a
loop that is replaced while it runs. In `operator_lock` a page has one PUT and one GET under
way, and all pages two requests besides those sent on leaving, which is enough for a PUT between its two
commands beside another's, and for a GET that outlives its page; `Hasty = FALSE` leaves out the
forgotten intervals, which the proof of `ImplementsLock` includes. Values of a stream are told apart only as latest
or not, so that two writes (one, where the room's state is large) show a stale one.
Six ticks of uptime cross two full hours, let the status expire and the gap exceed the
threshold. The instance of the keys has Interval 3, Timeout 1 and Delay 1, in the order
that `ApiKeysAssumption` asks for; the clock ends at 5, past two intervals' starts. Two
hours, two ticks to a second and times of 1 and 11 in hours of 6 ticks make an episode cross the full hour with
a half second on either side, and end before it starts; two robots let one be deleted and leave rows for the other.
Four rows let a version with two subtasks be copied.
Three subtasks let one be deleted and one be added; two files have repeated names, a
tag in both columns, a faulty row before a sound one and a missing deadline. Every
bound is a constant of its module, in the guard of the action that it bounds.
`console` checks five parts that share no state in one run, one behaviour for each.

### Fairness

- `FairSpec` of Teleop: `RollBack` is weakly fair, for the server's and the database's timeouts
  end a request that gets no further. The steps of Finish are strongly fair: an agent
  whose episode is recording sends Finish, sends it again after an error, and does not
  fail at one and the same statement forever. None of Start, Cancel or the heartbeat.
- `OperatorFairness`: time passes, intervals fire, the key expires, a PUT at the server gets on or fails, and
  a page that is refused again and again hears of it. GETs and DELETEs may hang; nobody need
  start, stop, come or go. `Punctual` says that an interval fires, and a PUT ends, within 30
  seconds: not in a tab whose timers the browser throttles. `OneGivesUp` and `LoneOperatorHolds` are about
  behaviours in which heartbeats are lost only finitely often.
- `UptimeFairness`: the ticker starts a flush again and again, and no robot's commands fail
  forever. Robots need not report.
- `StatusFairness`, `StreamFairness`: goroutines and timers run. Accepting a connection is strongly fair,
  since loops come and go meanwhile. Robots need not report, nor people switch tabs.

## What is proved

Every invariant and every action property of a passing run, for every value of the
constants. Assumed are the assumptions on the constants in the modules, which TLC
evaluates on every run, and the hypotheses named below, each of which holds of
the run that checks the property. Liveness is not proved (see the end of this section).

### Teleop

From `DomainAssumption` and `RequestsAssumption` (the constants have their types;
`Versions` is finite, as sums need):

- `TypeCorrect`: `Spec => []TypeOK`. `TypeOK` is not inductive: a statement may look up
  the robot, the episode or the task of its request only if the request names
  one. `TypeInv` adds that (`ClientsNamed`), and that an existing episode has a robot
  and a task (`RowsNamed`).
- `OneRecordingAlways` and `RobotRowAlwaysCoherent`: `OneRecording` and `RobotRowCoherent`
  for every request and overlap, edits by hand included. Requests write back rows
  they hold, so `CoherentInv` adds what those rows are: a row of a robot that
  will be written is coherent, and Finish holds a completed episode, for
  which the unique index has nothing to check.
- `BusyRobotRecords` and `EpisodeRowAlwaysCoherent`: `BusyImpliesRecording` and
  `EpisodeRowCoherent`, from the further assumption `NoConsoleEdits` that no client
  edits or deletes episodes or edits robots (deleting robots is allowed). The
  invariant `SessionInv` adds that a request's episode still exists and is still
  its robot's (`EpisodeOf`, kept by `EpisodesStay`), and that a row about to be written is
  Ready, or Busy with an episode that is written as recording in the same
  transaction (`HeldRows`). The assumption is needed: the stale edit of a robot described above
  breaks it.
- `SessionsAgree` and `SessionsImplemented`: `SessionAgreement`, and that Teleop implements
  Session, from `OneAtATime`: `Overlap = FALSE`, and nobody edits or deletes episodes by
  hand (robots may be edited and deleted). `SerialInv` says that a robot has one request
  and that what this request has read is still so (`StillSo`). What a step writes is one
  of four things (`Writes`): nothing, new episodes, the two rows of a session, or a robot's
  row by hand. Each of these is a step or a stutter of Session, and leaves alone what the
  requests about other robots have read. The run `stuck_recording` shows what happens
  when requests overlap.
- `CancelledIsOverAlways`, `OneStartedExecutionAlways`, `ExecutionsOfBegunSubTasks`: the work on
  subtasks, from `OneAtATime` too. `WorkInv` strengthens the first to what the code does (of a cancelled
  episode all is cancelled, `CancelledThroughout`) and adds that an episode not
  created yet has no subtasks (`NoWorkYet`) and that what a request has read of a subtask and an
  execution is still so when it writes them (`WorkStillSo`): a guard read in one statement
  holds in the next, since no other request works on that robot's episodes (`WorkApart`).
- `TaskStatusAlwaysProgress`, `CanceledTaskAlwaysReturns`: the status of tasks, from `CountedByOne`:
  `Overlap = FALSE`, and the requests that count for a task (Finish, Update of a task, Approve,
  edits and deletions of episodes) come from one client. Any number of others create,
  repeat, start and cancel episodes, edit robots and work on subtasks meanwhile, which the run
  `tasks` with its one client does not try. `TaskInv` says that the sum a request holds is still
  the sum of its task when it writes, its own episode counted as completed (`ProgressHeld`); for
  that, an episode that is being started or cancelled is no completed one (`EpisodeHeld`).
  The assumption is needed: two robots that finish episodes of one task at once leave a status
  that counts one of them.

Each of the Teleop proofs has one lemma for the tables, one for the request of the
stepping client, and `OtherClients` for the requests of the others. Statements that
concern neither episodes nor robots are one case, `QuietSteps`. What is proved for every
value keeps the instance of `robot_api` small.

### Uptime and statistics

- `AccountedAlways`: `Accounted`, from `UptimeAssumption` alone: reports may overlap and flushes fail
  at every command. `UptimeInv` adds the types, and that a flush which is about to delete a key
  has booked that key's seconds (`DeletesBatch`).
- `OnlineOnlyWhileReportingAlways`: from `OneClientOfEach`, that each robot's reports come from one
  client. The client may send its last report again, and die at every command. The invariant
  orders what it knows: the clock, the client's report, the status in Redis (`ReportsInOrder`), and
  says that the seconds between that status and the report are covered by the time online, once
  (`Covered`). With two clients it is false, although their reports do not overlap: a late repetition
  of one sets the status back behind the report of the other, and the time in between is
  added again.
- `SettledIsExactAlways`: from `StatsAssumption`. `StatsInv` adds that the sums a run holds are those of
  the episodes unless one has changed since (`FreshIsExact`), and that a table has then no row that the run
  neither deletes nor writes (`FreshLeavesNothing`): a row that another run commits beside it comes from
  sums at least as old, or takes the freshness with it (`Overtaken`).
- `HoursAddUpAlways`: from `StatsAssumption`. The ticks of all completed episodes are parted once by hour and robot
  and once by version; each rounded part differs from its ticks by half a second at most (`RoundedIs`), and so do
  the sums, each by half a second for each of its parts (`RowsWithin`, `VersionsWithin`, `HourWithin`).

`Sums` has the lemmas: a sum is a number, the sum of a sum of functions, of multiples and of groups, sums of
larger numbers are larger, and the sum of the sizes of sets that do not meet. The
library's folds are defined by recursion on a finite set, by a function that CHOOSE
picks. Induction over sets is out of the provers' reach (its theorem takes an operator), but
`LeastNumber` is not: a counterexample of least size has an element without which it is
none. The same lemma gives the largest place in a queue (`LastOf`).

### The console

From the assumptions on the constants in each module:

- `PlacesAlwaysStayDistinct`, `ApprovedListStaysFrozen`, `RecordedStay`: the places of subtasks. `DraftsInv`
  says that a version's row lock has one holder, that
  the version it holds is a draft, and that what a request has read under the lock (the
  next place, the reordered list) is still true when it writes. That the next place is
  above every other rests on `LeastNumber`, since the code takes the maximum; that a list which names each
  once numbers them apart rests on its having as many ids as the version has subtasks.
- `TagsAsLastSetAlways`: `CatalogInv` says that the row of a task, once a request has updated it, has
  that request as its one holder until it commits (`OneHolder`), and that the tags it has found are
  there still; a request that has not updated it, or that deletes it, changes no tags.
- `OneImportedTaskPerNameAlways`: from `Serial = TRUE`, that imports are served one at a time. What an
  import holds are rows of new and distinct names (`NewNames`): the rows are taken from the file one by
  one, and there is no first one that breaks it. No other request makes an imported task, and one
  that is renamed is the import's no more. Two imports at once do insert a name twice.
- `LastUsedAlwaysFresh`, `LastUsedOnlyForward`, `RevokedStaysRevoked`: the keys, from
  `ApiKeysAssumption`, of which `Timeout + Delay < Interval` is what matters: a goroutine has
  written or given up before the next one may be started. `KeysInv` says that the entry of the map
  is the time of the latest write decided, that a write still to come is that one, so that a key has
  at most one, that what is in the table is no later than what will overwrite it, and that
  a request takes the mutex within Delay of reading the clock.
- `WaitingPageIsCurrentAlways`, `ClosedPageIsFinalAlways`: the streams of an episode.
  `EpisodeStreamInv` says that while no signal is owed or waits for a page (`Told`), the
  queries made for its frame have read what is there (`Agrees`), and that, signals or not, none has
  read less than the end that the first query found (`NotBefore`), which is why the
  episode must be the first of the three. Of a list it says that a told one has asked again, shows or is about to
  show what is there, or is in `kept`.

### The pages of a robot

- `LockImplemented`: with `Punctual`, OperatorLock implements Lock, for any
  number of pages and users, also when requests of one page overlap, are lost or outlive it, and when intervals
  are forgotten, which the run leaves out. `LockInv` says why the key does not expire under a page whose
  heartbeats get through: the page's interval fires within a period, and its PUT writes the key before the
  next ends. Each kind of step is a lemma that maps it to a step or a stutter.
- `OneLoopAlways`: `OneLoop` for any number of connections. `LoopInv` adds that a loop which has not started is
  not cancelled, and that the current one is neither off nor cancelled.
- `QuietRoomIsCurrentAlways`: for any number of loops, pages and writes and any length of channel. A
  room is current when its loop has served every signal because of what that loop knows
  of each member (`KnownOf`): the member has, or missed, the task that the loop pushed
  last, which the loop will not push again, and, once the loop has pushed what it read, the episode. The cache
  of the room counts as a member, since whoever joins inherits from it (`Inherits`). A frame
  that a cancelled loop still sends makes every member that gets it one that missed the right
  one. While proving it the property was found to say too little: it excused a task for
  an episode that was missed. It now excuses each kind by itself, and that is what
  is proved and checked.

### Only model-checked

`SessionsEnd`, `OneGivesUp`, `LoneOperatorHolds`, `BufferDrains`, `StatusReachesPages` and
`TeleopReachesPages`: liveness, which TLAPS does not prove under
fairness, for it needs ENABLED. What the documents say and the code does not do, in
the three runs with a counterexample, is an observation of TLC. And the recursive
definitions themselves (a fold, the rows of a file) are those of the library and the model; the lemmas
say what they yield, not that they terminate on every input.

## Not modelled

- Values: names, parameters, grades, the leader's status, durations other than
  one unit in Teleop. Where times matter (StatsAggregation) a robot may report any. Locations and organizations in the statistics.
- A backfill with equal ends, which replaces the versions only.
- Creating robots. In Teleop tasks are not deleted, an episode is created with an approved
  version, and an approved version stays approved; drafts and tasks have modules of their own.
- The stream of several robots' statuses: each robot's broadcaster as in StatusStream, merged by a
  goroutine per robot. The status frames of the teleoperation room.
- The import of users, row by row outside a transaction; exports; user locations, which
  have no row to lock; fleets, sites, locations, organizations: rows with field
  validation and foreign keys. Reports and the completion trend: pure sums.
- Roles: a static table. HTTP decoding and encoding, of which 13 thousand of the 36 thousand
  lines of the implementation are generated. Forms, lists and charts of the frontend.
  These are most of the lines that no definition of the modules is about.

## Plan

1. Proofs: the abstract sessions for requests that overlap, as far as they keep them; the
   task's status when several clients count, after the last of them.
2. The stream of several robots beside StatusStream: merged channels with a bound, and the
   goroutines that end with the connection.
3. The import of users, partly done when it fails; user locations set by two people at once.
4. The completion trend and the summary of a fleet against reference definitions.
