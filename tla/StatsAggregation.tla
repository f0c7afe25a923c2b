-------------------------- MODULE StatsAggregation -------------------------
(***************************************************************************)
(* The hourly statistics of the dashboard and those of the task versions   *)
(* (cmd/aggregate-episode-stats, internal/gateway/episode_stats.go): a     *)
(* batch job reads the sums of one hour after the other and replaces the   *)
(* rows of each, then it does the same for the task versions.  Two         *)
(* instances may run at once: the regular one, which aggregates one hour,  *)
(* and a backfill of several that somebody starts.                         *)
(*                                                                         *)
(* Days and months are aggregated by the same code.  Times are ticks of    *)
(* less than a second; those of an episode are what the robot or an editor *)
(* sends, and nothing checks them: episodes of a robot may overlap, and    *)
(* end before they start.                                                  *)
(***************************************************************************)
EXTENDS Integers, FiniteSets, Functions

CONSTANTS
    Robots, Versions,
    MaxEpisodes,        \* bound: those ever recorded
    Times,              \* bound: when episodes start and finish, in ticks
    Hours, MaxRuns,     \* bounds: hours aggregated, runs of the job
    MaxEdits,           \* bound: edits and deletions by hand
    HourLength, Second  \* in ticks

ASSUME StatsAssumption ==
    /\ MaxEpisodes \in Nat /\ MaxRuns \in Nat /\ MaxEdits \in Nat
    /\ Times \subseteq Int
    /\ Hours \in Nat \ {0} /\ HourLength \in Nat \ {0} /\ Second \in Nat \ {0}

VARIABLES
    recorded,           \* the episodes
    robots, edits,      \* those there are; edits and deletions so far
    table,              \* of each period: the row of each robot or version that has one
    batch, runs,        \* of each job: its step, and what it carries; runs started
    settled             \* history: periods last replaced with what was still so

statsVars == <<recorded, robots, edits, table, batch, runs, settled>>

Episodes == 1 .. MaxEpisodes
Hour     == 0 .. Hours - 1
Ever     == Hours               \* the period of the task versions
Periods  == 0 .. Hours
Jobs     == {"regular", "backfill"}

From(h) == h * HourLength
To(h)   == (h + 1) * HourLength
Earlier(s, t) == IF s < t THEN s ELSE t
Later(s, t)   == IF s > t THEN s ELSE t

-----------------------------------------------------------------------------
(* Episodes and robots.                                                    *)

Absent == [status |-> "absent"]
Gone   == [status |-> "gone"]
Recording(r, v, s)    == [status |-> "recording", robot |-> r, version |-> v, started |-> s]
Recorded(r, v, s, f)  == [status |-> "completed", robot |-> r, version |-> v,
                          started |-> s, finished |-> f]

Records(r) == \E e \in Episodes : recorded[e].status = "recording" /\ recorded[e].robot = r

\* Somebody edits or deletes by hand.
Edit == edits < MaxEdits /\ edits' = edits + 1

BeginEpisode(e) ==
    /\ recorded[e] = Absent
    /\ \E r \in robots, v \in Versions, at \in Times :
         /\ ~Records(r)
         /\ recorded' = [recorded EXCEPT ![e] = Recording(r, v, at)]
    /\ UNCHANGED <<robots, edits, table, batch, runs, settled>>

\* What is stored or carried now may be out of date.
Outdate ==
    /\ settled' = {}
    /\ batch' = [j \in Jobs |-> IF batch[j].step \in {"delete", "write"}
                              THEN [batch[j] EXCEPT !.fresh = FALSE] ELSE batch[j]]

EndEpisode(e) ==
    /\ recorded[e].status = "recording"
    /\ \E at \in Times :
         recorded' = [recorded EXCEPT ![e] = Recorded(@.robot, @.version, @.started, at)]
    /\ Outdate
    /\ UNCHANGED <<robots, edits, table, runs>>

RetimeEpisode(e) ==
    /\ Edit
    /\ recorded[e].status = "completed"
    /\ \E s, f \in Times :
         recorded' = [recorded EXCEPT ![e] = Recorded(@.robot, @.version, s, f)]
    /\ Outdate
    /\ UNCHANGED <<robots, table, runs>>

\* Deleted, or edited to a status that does not count.
WithdrawEpisode(e) ==
    /\ Edit
    /\ recorded[e].status = "completed"
    /\ recorded' = [recorded EXCEPT ![e] = Gone]
    /\ Outdate
    /\ UNCHANGED <<robots, table, runs>>

\* A Busy robot is not deleted, nor is one that a row refers to; its episodes,
\* which have no foreign key, stay.
DeleteRobot(r) ==
    /\ Edit
    /\ r \in robots /\ ~Records(r)
    /\ \A h \in Hour : r \notin DOMAIN table[h]
    /\ robots' = robots \ {r}
    /\ UNCHANGED <<recorded, table, batch, runs, settled>>

-----------------------------------------------------------------------------
(* The sums.                                                               *)

\* The cast to bigint, of each episode before the sum: halves away from zero.
Rounded(d) == IF d < 0 THEN -((Second - 2 * d) \div (2 * Second))
                       ELSE (Second + 2 * d) \div (2 * Second)

Completed == {e \in Episodes : recorded[e].status = "completed"}

\* Mistake: an episode belongs to the hour in which it started.
CountedByStart(h) == {e \in Completed : /\ recorded[e].started < To(h)
                                        /\ recorded[e].started >= From(h)}

Counted(h) == {e \in Completed : /\ recorded[e].started < To(h)
                                 /\ recorded[e].finished > From(h)}

Seconds(e, h) ==
    Rounded(Earlier(recorded[e].finished, To(h)) - Later(recorded[e].started, From(h)))

Duration(e) == Rounded(recorded[e].finished - recorded[e].started)

AggregateEpisodesForPeriod(h) ==
    [r \in {recorded[e].robot : e \in Counted(h)} |->
        LET mine == {e \in Counted(h) : recorded[e].robot = r}
        IN [seconds |-> SumFunction([e \in mine |-> Seconds(e, h)]), count |-> Cardinality(mine)]]

AggregateByTaskVersion ==
    [v \in {recorded[e].version : e \in Completed} |->
        LET mine == {e \in Completed : recorded[e].version = v}
        IN [seconds |-> SumFunction([e \in mine |-> Duration(e)]), count |-> Cardinality(mine)]]

SumsOf(p) == IF p = Ever THEN AggregateByTaskVersion ELSE AggregateEpisodesForPeriod(p)

-----------------------------------------------------------------------------
(* The job.  Each period: read the sums, delete rows, insert and commit.   *)

Off == [step |-> "off"]
ToRead(p, last) == [step |-> "read", period |-> p, last |-> last]

Run(j, first, last) ==
    /\ batch[j] = Off
    /\ runs < MaxRuns
    /\ runs' = runs + 1
    /\ batch' = [batch EXCEPT ![j] = ToRead(first, last)]
    /\ UNCHANGED <<recorded, robots, edits, table, settled>>

RunRegular  == \E h \in Hour : Run("regular", h, h)
RunBackfill == \E h \in Hour : \E last \in h .. Hours - 1 : Run("backfill", h, last)

ReadSums(j) ==
    /\ batch[j].step = "read"
    /\ batch' = [batch EXCEPT ![j] = [step |-> "delete", period |-> @.period, last |-> @.last,
                                  rows |-> SumsOf(@.period), fresh |-> TRUE]]
    /\ UNCHANGED <<recorded, robots, edits, table, runs, settled>>

\* All rows of an hour, but only those of versions that have no episodes now.
Obsolete(j) == IF batch[j].period = Ever THEN DOMAIN table[Ever] \ DOMAIN batch[j].rows
               ELSE DOMAIN table[batch[j].period]

\* The delete sees the rows committed by now.
DeleteRows(j) ==
    /\ batch[j].step = "delete"
    /\ batch' = [batch EXCEPT ![j] = [step |-> "write", period |-> @.period, last |-> @.last,
                                  rows |-> @.rows, fresh |-> @.fresh, gone |-> Obsolete(j)]]
    /\ UNCHANGED <<recorded, robots, edits, table, runs, settled>>

NextPeriod(s) == IF s.period = Ever THEN Off
                 ELSE ToRead(IF s.period = s.last THEN Ever ELSE s.period + 1, s.last)

\* Rows that j deletes are not there for somebody else to delete, and rows of j
\* that the other's delete did not see stay beside the other's.
Overtaken(i, j) == [batch[i] EXCEPT !.gone = @ \ batch[j].gone, !.fresh = @ /\ batch[j].fresh]

Beside(i, j) == i # j /\ batch[i].step = "write" /\ batch[i].period = batch[j].period

Commit(j, rows) ==
    LET p == batch[j].period
    IN /\ table' = [table EXCEPT ![p] = rows]
       /\ settled' = IF batch[j].fresh THEN settled \cup {p} ELSE settled \ {p}
       /\ batch' = [i \in Jobs |-> IF i = j THEN NextPeriod(batch[j])
                                 ELSE IF Beside(i, j) THEN Overtaken(i, j) ELSE batch[i]]

\* What the table holds when j has written: its rows and those it did not delete.
Kept(j) == DOMAIN table[batch[j].period] \ batch[j].gone
Merged(j) == [k \in Kept(j) \cup DOMAIN batch[j].rows |->
                 IF k \in DOMAIN batch[j].rows THEN batch[j].rows[k] ELSE table[batch[j].period][k]]

\* Mistake: rows are inserted or updated; those of robots without episodes stay.
UpsertHour(j) ==
    /\ batch[j].step = "write" /\ batch[j].period # Ever
    /\ Commit(j, [k \in DOMAIN table[batch[j].period] \cup DOMAIN batch[j].rows |->
                     IF k \in DOMAIN batch[j].rows THEN batch[j].rows[k] ELSE table[batch[j].period][k]])
    /\ UNCHANGED <<recorded, robots, edits, runs>>

InsertHour(j) ==
    /\ batch[j].step = "write" /\ batch[j].period # Ever
    /\ Kept(j) \cap DOMAIN batch[j].rows = {}
    /\ DOMAIN batch[j].rows \subseteq robots
    /\ Commit(j, Merged(j))
    /\ UNCHANGED <<recorded, robots, edits, runs>>

\* A robot has a row again (the unique index) or is no longer there (the foreign
\* key): the run ends.
HourRefused(j) ==
    /\ batch[j].step = "write" /\ batch[j].period # Ever
    /\ \/ Kept(j) \cap DOMAIN batch[j].rows # {}
       \/ ~(DOMAIN batch[j].rows \subseteq robots)
    /\ batch' = [batch EXCEPT ![j] = Off]
    /\ UNCHANGED <<recorded, robots, edits, table, runs, settled>>

\* A row that another run deletes is waited for.
UpsertVersions(j) ==
    /\ batch[j].step = "write" /\ batch[j].period = Ever
    /\ \A i \in Jobs : Beside(i, j) => batch[i].gone \cap DOMAIN batch[j].rows = {}
    /\ Commit(j, Merged(j))
    /\ UNCHANGED <<recorded, robots, edits, runs>>

\* A statement fails, the process is stopped, or two runs wait for each other:
\* the transaction is rolled back.
Fail(j) ==
    /\ batch[j] # Off
    /\ batch' = [batch EXCEPT ![j] = Off]
    /\ UNCHANGED <<recorded, robots, edits, table, runs, settled>>

-----------------------------------------------------------------------------

NoRows == [x \in {} |-> 0]

StatsInit ==
    /\ recorded = [e \in Episodes |-> Absent]
    /\ robots = Robots /\ edits = 0
    /\ table = [p \in Periods |-> NoRows]
    /\ batch = [j \in Jobs |-> Off]
    /\ runs = 0
    /\ settled = {}

EpisodeStep(e) == BeginEpisode(e) \/ EndEpisode(e) \/ RetimeEpisode(e) \/ WithdrawEpisode(e)

JobStep(j) == \/ ReadSums(j) \/ DeleteRows(j) \/ InsertHour(j) \/ HourRefused(j)
              \/ UpsertVersions(j) \/ Fail(j)

StatsNext == \/ \E e \in Episodes : EpisodeStep(e)
             \/ \E r \in Robots : DeleteRobot(r)
             \/ RunRegular \/ RunBackfill
             \/ \E j \in Jobs : JobStep(j)

StatsSpec == StatsInit /\ [][StatsNext]_statsVars

-----------------------------------------------------------------------------
(* What must hold.                                                         *)

\* A run that replaces a period with what is still so leaves it exact, whatever
\* failed, late, deleted or edited episodes and overlapping runs have left there
\* before.  What it does not repair is a run beside it that had read earlier.
SettledIsExact == \A p \in settled : table[p] = SumsOf(p)

SecondsIn(rows) == SumFunction([x \in DOMAIN rows |-> rows[x].seconds])
CountIn(rows)   == SumFunction([x \in DOMAIN rows |-> rows[x].count])

InOrder(e) == /\ recorded[e].started <= recorded[e].finished
              /\ From(0) <= recorded[e].started /\ recorded[e].finished <= To(Hours - 1)

\* When all is settled, and unless a robot's times are out of order, the hours
\* add up to what the task versions add up to, but for the rounding of each part
\* and each duration by half a second: nothing is lost or counted twice at a full
\* hour.
HoursAddUp ==
    settled = Periods /\ (\A e \in Completed : InOrder(e)) =>
        LET seconds == SumFunction([h \in Hour |-> SecondsIn(table[h])])
            parts   == SumFunction([h \in Hour |-> CountIn(table[h])])
            off     == 2 * (seconds - SecondsIn(table[Ever]))
            slack   == parts + CountIn(table[Ever])
        IN off <= slack /\ -off <= slack
=============================================================================
