---------------------------- MODULE UptimeBuffer ----------------------------
(***************************************************************************)
(* How long a robot was online: each status report adds the time since the *)
(* one before to two Redis keys (usecase/robot_device.go), and a separate  *)
(* service moves the keys into the table robot_uptime_hourly every five    *)
(* minutes (usecase/robot_status_metrics.go).  One action is one command   *)
(* of Redis or one statement of the database; the clock is the robots'.    *)
(***************************************************************************)
EXTENDS Integers, FiniteSets, Functions

CONSTANTS
    Robots,
    Clients,        \* each sends the reports of one robot; two of them retry
    RobotOf,
    Overlap,        \* may two reports of a robot be served at once?
    MaxTime,        \* bound of the clock
    TicksPerSecond, \* the buffer counts whole seconds
    Threshold,      \* robotSessionThreshold
    StatusTTL,      \* robotStatusTTL
    Hour,           \* an hour's ticks
    MaxTwice,       \* bound of the seconds that failures count again
    None

ASSUME UptimeAssumption ==
    /\ RobotOf \in [Clients -> Robots]
    /\ Overlap \in BOOLEAN
    /\ {MaxTime, TicksPerSecond, Threshold, StatusTTL, Hour, MaxTwice} \subseteq Nat \ {0}
    /\ None \notin Nat

Times == 0..MaxTime
Hours == 0..(MaxTime \div Hour)
HourOf(t) == t \div Hour

VARIABLES
    now,
    exists,     \* rows of robot
    status,     \* Redis, for each robot: when the last status was reported,
    delta,      \* the seconds of uptime to be flushed,
    period,     \* and their hour
    uptime,     \* robot_uptime_hourly
    pc, at, since,      \* a client's report: its step, its time, the seconds it adds
    flush, todo, batch, \* the service: its step, the robots left, what it has read
    heard, online, counted, again, lost, twice  \* history, for each robot: its latest
        \* report, how long it reported without a gap, the seconds added to the buffer,
        \* those of reports that were not saved, those deleted unread, those written twice

redis == <<status, delta, period>>
reports == <<pc, at, since>>
flusher == <<flush, todo, batch>>
history == <<heard, online, counted, again, lost, twice>>
vars == <<now, exists, redis, uptime, reports, flusher, history>>

NoBatch == [r \in Robots |-> None]

UptimeInit ==
    /\ now = 0
    /\ exists = [r \in Robots |-> TRUE]
    /\ status = [r \in Robots |-> None] /\ period = status /\ heard = status
    /\ delta = [r \in Robots |-> 0] /\ online = delta /\ counted = delta
    /\ again = delta /\ lost = delta /\ twice = delta
    /\ uptime = [r \in Robots |-> [h \in Hours |-> 0]]
    /\ pc = [c \in Clients |-> "idle"]
    /\ at = [c \in Clients |-> 0] /\ since = at
    /\ flush = "idle" /\ todo = {} /\ batch = NoBatch

Tick == now < MaxTime /\ now' = now + 1
        /\ UNCHANGED <<exists, redis, uptime, reports, flusher, history>>

StatusExpires(r) ==
    /\ status[r] # None /\ now >= status[r] + StatusTTL
    /\ status' = [status EXCEPT ![r] = None]
    /\ UNCHANGED <<now, exists, delta, period, uptime, reports, flusher, history>>

-----------------------------------------------------------------------------
(* UpdateRobotStatus.  Errors of Redis are logged and the report goes on.  *)

Served(r) == {c \in Clients : RobotOf[c] = r /\ pc[c] # "idle"}

\* A robot that exists reports; the time is the report's own, so one that is
\* sent again has the same.
Report(c) == LET r == RobotOf[c] IN
    /\ pc[c] = "idle" /\ exists[r] /\ (Overlap \/ Served(r) = {})
    /\ \E t \in {now, at[c]} :
        /\ at' = [at EXCEPT ![c] = t]
        /\ heard' = [heard EXCEPT ![r] = IF @ = None \/ t > @ THEN t ELSE @]
        /\ online' = [online EXCEPT ![r] =
              IF heard[r] = None \/ t - heard[r] >= Threshold THEN @ ELSE @ + (heard'[r] - heard[r])]
    /\ pc' = [pc EXCEPT ![c] = "read"]
    /\ UNCHANGED <<now, exists, redis, uptime, since, flusher, counted, again, lost, twice>>

\* Mistake: a gap of a restart counts as uptime.
DeltaOfAnyGap(prev, t) == IF prev = None \/ t < prev THEN 0 ELSE t - prev

\* The ticks that a report adds after prev: none for the first, for one that is
\* not later, and for the first of a new session.
DeltaSince(prev, t) ==
    IF prev = None \/ t <= prev \/ t - prev >= Threshold THEN 0 ELSE t - prev

ReadStatus(c) == LET r == RobotOf[c] d == DeltaSince(status[r], at[c]) IN
    /\ pc[c] = "read"
    /\ since' = [since EXCEPT ![c] = d \div TicksPerSecond]
    /\ pc' = [pc EXCEPT ![c] = IF d = 0 THEN "save" ELSE "incr"]
    /\ UNCHANGED <<now, exists, redis, uptime, at, flusher, history>>

IncrBy(c) == LET r == RobotOf[c] IN
    /\ pc[c] = "incr"
    /\ delta' = [delta EXCEPT ![r] = @ + since[c]]
    /\ counted' = [counted EXCEPT ![r] = @ + since[c]]
    /\ pc' = [pc EXCEPT ![c] = "period"]
    /\ UNCHANGED <<now, exists, status, period, uptime, at, since, flusher, heard, online, again, lost, twice>>

SetPeriod(c) ==
    /\ pc[c] = "period"
    /\ period' = [period EXCEPT ![RobotOf[c]] = HourOf(at[c])]
    /\ pc' = [pc EXCEPT ![c] = "save"]
    /\ UNCHANGED <<now, exists, status, delta, uptime, at, since, flusher, history>>

SaveStatus(c) ==
    /\ pc[c] = "save"
    /\ status' = [status EXCEPT ![RobotOf[c]] = at[c]]
    /\ pc' = [pc EXCEPT ![c] = "idle"]
    /\ since' = [since EXCEPT ![c] = 0]
    /\ UNCHANGED <<now, exists, delta, period, uptime, at, flusher, history>>

\* Reading, adding or setting the hour fails: the status is saved all the same.
RedisFails(c) ==
    /\ pc[c] \in {"read", "incr", "period"}
    /\ pc' = [pc EXCEPT ![c] = "save"]
    /\ since' = [since EXCEPT ![c] = IF pc[c] = "period" THEN @ ELSE 0]
    /\ UNCHANGED <<now, exists, redis, uptime, at, flusher, history>>

\* Saving fails, or the server dies: the next report adds the same time again.
ReportEnds(c) == LET r == RobotOf[c] IN
    /\ pc[c] # "idle"
    /\ pc' = [pc EXCEPT ![c] = "idle"]
    /\ since' = [since EXCEPT ![c] = 0]
    /\ again' = [again EXCEPT ![r] = IF pc[c] \in {"period", "save"} THEN @ + since[c] ELSE @]
    /\ again'[r] <= MaxTwice
    /\ UNCHANGED <<now, exists, redis, uptime, at, flusher, heard, online, counted, lost, twice>>

\* Delete of a robot that has no uptime rows, whose foreign key would keep it;
\* and, at best effort, of its keys.
DeleteRobot(r) ==
    /\ exists[r] /\ \A h \in Hours : uptime[r][h] = 0
    /\ exists' = [exists EXCEPT ![r] = FALSE]
    /\ \/ /\ delta' = [delta EXCEPT ![r] = 0]
          /\ period' = [period EXCEPT ![r] = None]
          /\ lost' = [lost EXCEPT ![r] = @ + delta[r]]
       \/ UNCHANGED <<delta, period, lost>>
    /\ UNCHANGED <<now, status, uptime, reports, flusher, heard, online, counted, again, twice>>

-----------------------------------------------------------------------------
(* The flush.                                                              *)

FlushList ==
    /\ flush = "idle"
    /\ flush' = "get"
    /\ todo' = {r \in Robots : exists[r]}
    /\ batch' = NoBatch
    /\ UNCHANGED <<now, exists, redis, uptime, reports, history>>

\* Get: seconds and hour of a robot, if it has both.  The two commands are two
\* reads; an hour that changes between them is as good as one that did before.
FlushGet(r) ==
    /\ flush = "get" /\ r \in todo
    /\ todo' = todo \ {r}
    /\ batch' = [batch EXCEPT ![r] = IF delta[r] > 0 /\ period[r] # None
                                     THEN [seconds |-> delta[r], period |-> period[r]]
                                     ELSE None]
    /\ UNCHANGED <<now, exists, redis, uptime, flush, reports, history>>

FlushGetFails(r) ==
    /\ flush = "get" /\ r \in todo
    /\ todo' = todo \ {r}
    /\ UNCHANGED <<now, exists, redis, uptime, flush, batch, reports, history>>

Batched == {r \in Robots : batch[r] # None}

\* Mistake: a row that exists is replaced.
UpsertReplacing(r, h) ==
    IF r \in Batched /\ batch[r].period = h THEN batch[r].seconds ELSE uptime[r][h]

\* The row of an hour after the upsert.
Upsert(r, h) ==
    uptime[r][h] + (IF r \in Batched /\ batch[r].period = h THEN batch[r].seconds ELSE 0)

\* WriteBatch: one statement for all robots, so that one that was deleted since
\* fails it for all.
FlushWrite ==
    /\ flush = "get" /\ todo = {} /\ Batched # {}
    /\ \A r \in Batched : exists[r]
    /\ uptime' = [r \in Robots |-> [h \in Hours |-> Upsert(r, h)]]
    /\ flush' = "delete" /\ todo' = Batched
    /\ UNCHANGED <<now, exists, redis, batch, reports, history>>

\* Nothing to write, or an error of the database; also for a crash before.
FlushGivesUp ==
    /\ flush = "get" /\ todo = {}
    /\ flush' = "idle" /\ batch' = NoBatch
    /\ UNCHANGED <<now, exists, redis, uptime, todo, reports, history>>

\* The next robot of the batch, if any.
Deleted(r) ==
    /\ todo' = todo \ {r}
    /\ IF todo' = {} THEN flush' = "idle" /\ batch' = NoBatch
                     ELSE UNCHANGED <<flush, batch>>

\* Mistake: only the key of the hour is deleted.
FlushDeleteNothing(r) ==
    /\ flush = "delete" /\ r \in todo
    /\ period' = [period EXCEPT ![r] = None]
    /\ Deleted(r)
    /\ UNCHANGED <<now, exists, status, delta, uptime, reports, history>>

\* Delete: both keys, whatever is in them by now.
FlushDelete(r) ==
    /\ flush = "delete" /\ r \in todo
    /\ delta' = [delta EXCEPT ![r] = 0]
    /\ period' = [period EXCEPT ![r] = None]
    /\ lost' = [lost EXCEPT ![r] = @ + (delta[r] - batch[r].seconds)]
    /\ Deleted(r)
    /\ UNCHANGED <<now, exists, status, uptime, reports, heard, online, counted, again, twice>>

\* A deletion fails: what was written stays in the buffer.
FlushDeleteFails(r) ==
    /\ flush = "delete" /\ r \in todo
    /\ twice' = [twice EXCEPT ![r] = @ + batch[r].seconds]
    /\ twice'[r] <= MaxTwice
    /\ Deleted(r)
    /\ UNCHANGED <<now, exists, redis, uptime, reports, heard, online, counted, again, lost>>

\* The service dies between its write and its deletions.
FlushCrash ==
    /\ flush = "delete"
    /\ twice' = [r \in Robots |-> twice[r] + (IF r \in todo THEN batch[r].seconds ELSE 0)]
    /\ \A r \in Robots : twice'[r] <= MaxTwice
    /\ flush' = "idle" /\ todo' = {} /\ batch' = NoBatch
    /\ UNCHANGED <<now, exists, redis, uptime, reports, heard, online, counted, again, lost>>

-----------------------------------------------------------------------------

UptimeNext ==
    \/ Tick
    \/ \E r \in Robots : \/ StatusExpires(r) \/ DeleteRobot(r)
                         \/ FlushGet(r) \/ FlushGetFails(r) \/ FlushDelete(r) \/ FlushDeleteFails(r)
    \/ \E c \in Clients : \/ Report(c) \/ ReadStatus(c) \/ IncrBy(c) \/ SetPeriod(c)
                          \/ SaveStatus(c) \/ RedisFails(c) \/ ReportEnds(c)
    \/ FlushList \/ FlushWrite \/ FlushGivesUp \/ FlushCrash

UptimeSpec == UptimeInit /\ [][UptimeNext]_vars

\* The ticker starts a flush again and again; it does not fail for a
\* robot forever.
UptimeFairness ==
    /\ WF_vars(FlushList) /\ WF_vars(FlushGivesUp)
    /\ \A r \in Robots : /\ SF_vars(FlushGet(r))
                          /\ SF_vars(r \in Batched /\ FlushWrite)
                          /\ SF_vars(FlushDelete(r))

FairUptimeSpec == UptimeSpec /\ UptimeFairness

Booked(r) == SumFunction(uptime[r])

\* What a robot's rows and its buffer have in common: written, not yet deleted.
Pending(r) == IF flush = "delete" /\ r \in todo THEN batch[r].seconds ELSE 0

\* Every second that reports added is in the buffer or in the table, once: but
\* for those that a report adds between the flush's reading and deleting, which
\* are lost, and those of a flush that dies or fails between writing and
\* deleting, which count twice (usecase/robot_status_metrics.go flush).
Accounted ==
    \A r \in Robots :
        Booked(r) + delta[r] - Pending(r) = counted[r] - lost[r] + twice[r]

\* If the reports of a robot come from one client, which sends one after another
\* and may send its last one again, no second counts twice, but for those of a
\* report whose status was not saved after it had added its seconds: a robot's
\* uptime is not longer than it reported without a gap, whatever reports are
\* repeated, lost or late (usecase/robot_device.go UpdateRobotStatus).  Another
\* client's late report would set the status back.
OnlineOnlyWhileReporting ==
    \A r \in Robots : TicksPerSecond * (Booked(r) - twice[r] - again[r]) <= online[r]

\* Buffered seconds that have their hour reach the table in the end unless
\* their robot is deleted, although flushes fail at any step (usecase/robot_status_metrics.go
\* flush: "leaves the buffer intact for the next flush cycle").
BufferDrains ==
    \A r \in Robots : delta[r] > 0 /\ period[r] # None ~> delta[r] = 0 \/ ~exists[r]
=============================================================================
