----------------------- MODULE StatsAggregation_proofs -----------------------
(***************************************************************************)
(* That a period replaced with what is still so is exact, whatever runs    *)
(* overlap or fail, and that the hours then add up to the task versions    *)
(* but for rounding.  Durations are counted as the ticks of an interval,   *)
(* and a sum of durations as the ticks that are in one of its intervals.   *)
(***************************************************************************)
EXTENDS StatsAggregation, Sums

EpisodesTyped == \A e \in Completed : recorded[e].started \in Int /\ recorded[e].finished \in Int

RecordingTyped ==
    \A e \in Episodes : recorded[e].status = "recording" => recorded[e].started \in Int

\* What a job carries: where it is, what it has read, and what it deletes.
At(s) == s.last \in Hour /\ (s.period = Ever \/ (s.period \in Hour /\ s.period <= s.last))

JobTyped(s) ==
    \/ s = Off
    \/ s = ToRead(s.period, s.last) /\ At(s)
    \/ /\ s = [step |-> "delete", period |-> s.period, last |-> s.last, rows |-> s.rows, fresh |-> s.fresh]
       /\ At(s) /\ s.fresh \in BOOLEAN
    \/ /\ s = [step |-> "write", period |-> s.period, last |-> s.last, rows |-> s.rows, fresh |-> s.fresh,
               gone |-> s.gone]
       /\ At(s) /\ s.fresh \in BOOLEAN

Typed ==
    /\ recorded = [e \in Episodes |-> recorded[e]]
    /\ EpisodesTyped /\ RecordingTyped
    /\ batch = [j \in Jobs |-> batch[j]]
    /\ table = [p \in Periods |-> table[p]]
    /\ settled \subseteq Periods
    /\ \A j \in Jobs : JobTyped(batch[j])

\* What a job has read is still so.
Fresh(j) == batch[j].step \in {"delete", "write"} /\ batch[j].fresh

FreshIsExact == \A j \in Jobs : Fresh(j) => batch[j].rows = SumsOf(batch[j].period)

\* Then the table has no row that the job neither deletes nor writes.
FreshLeavesNothing ==
    \A j \in Jobs : Fresh(j) /\ batch[j].step = "write" =>
        DOMAIN table[batch[j].period] \subseteq batch[j].gone \cup DOMAIN batch[j].rows

StatsInv == Typed /\ SettledIsExact /\ FreshIsExact /\ FreshLeavesNothing

-----------------------------------------------------------------------------
(* The sums change only with the episodes.                                 *)

LEMMA SumsStay ==
    ASSUME recorded' = recorded
    PROVE  \A p : SumsOf(p)' = SumsOf(p)
BY DEF SumsOf, AggregateByTaskVersion, AggregateEpisodesForPeriod, Completed, Counted, Seconds, Duration

\* And only with the completed ones.
LEMMA SumsOfCompleted ==
    ASSUME Completed' = Completed, \A e \in Completed : recorded'[e] = recorded[e]
    PROVE  \A p : SumsOf(p)' = SumsOf(p)
<1>1. AggregateByTaskVersion' = AggregateByTaskVersion
  BY DEF AggregateByTaskVersion, Duration
<1>2. ASSUME NEW h PROVE AggregateEpisodesForPeriod(h)' = AggregateEpisodesForPeriod(h)
  <2>1. Counted(h)' = Counted(h) /\ Counted(h) \subseteq Completed
    BY DEF Counted
  <2>2. \A e \in Counted(h) : Seconds(e, h)' = Seconds(e, h) /\ recorded'[e] = recorded[e]
    BY <2>1 DEF Seconds
  <2> QED BY <2>1, <2>2 DEF AggregateEpisodesForPeriod
<1> QED BY <1>1, <1>2 DEF SumsOf

\* They are rows: a function.
LEMMA SumsAreRows == \A p : SumsOf(p) = [k \in DOMAIN SumsOf(p) |-> SumsOf(p)[k]]
BY DEF SumsOf, AggregateByTaskVersion, AggregateEpisodesForPeriod

\* Hours come before the period of the versions.
LEMMA PeriodsAre ==
    /\ Periods = Hour \cup {Ever} /\ Ever \notin Hour /\ Hour \subseteq Int /\ Ever \in Int
    /\ \A h \in Hour : h + 1 \in Periods
    /\ \A h, last \in Hour : h <= last /\ h # last => h + 1 \in Hour /\ h + 1 <= last
<1> USE StatsAssumption DEF Periods, Hour, Ever
<1>1. Periods = Hour \cup {Ever}
  OBVIOUS
<1>2. Ever \notin Hour /\ Hour \subseteq Int /\ Ever \in Int
  OBVIOUS
<1>3. \A h \in Hour : h + 1 \in Periods
  OBVIOUS
<1>4. \A h, last \in Hour : h <= last /\ h # last => h + 1 \in Hour /\ h + 1 <= last
  OBVIOUS
<1> QED BY <1>1, <1>2, <1>3, <1>4

-----------------------------------------------------------------------------
(* Every step keeps what is fresh and settled exact.                       *)

LEMMA InitStats == StatsInit => StatsInv
<1> SUFFICES ASSUME StatsInit PROVE StatsInv
  OBVIOUS
<1>1. \A j \in Jobs : batch[j] = Off
  BY DEF StatsInit
<1>2. \A e \in Episodes : recorded[e] = Absent
  BY DEF StatsInit
<1>3. Typed
  BY <1>1, <1>2 DEF StatsInit, Typed, EpisodesTyped, RecordingTyped, Completed, Absent, JobTyped
<1>4. \A j \in Jobs : ~Fresh(j)
  BY <1>1 DEF Fresh, Off
<1> QED BY <1>3, <1>4 DEF StatsInv, StatsInit, SettledIsExact, FreshIsExact, FreshLeavesNothing

\* Where episodes change, nothing is fresh or settled any more.
LEMMA OutdateKeeps ==
    ASSUME StatsInv, Outdate, UNCHANGED table,
           recorded' = [e \in Episodes |-> recorded'[e]], EpisodesTyped', RecordingTyped'
    PROVE  StatsInv'
<1>1. \A j \in Jobs : JobTyped(batch'[j]) /\ (batch'[j].step \in {"delete", "write"} => ~batch'[j].fresh)
  <2> SUFFICES ASSUME NEW j \in Jobs
               PROVE  JobTyped(batch'[j]) /\ (batch'[j].step \in {"delete", "write"} => ~batch'[j].fresh)
    OBVIOUS
  <2>1. JobTyped(batch[j])
    BY DEF StatsInv, Typed
  <2>2. batch'[j] = IF batch[j].step \in {"delete", "write"} THEN [batch[j] EXCEPT !.fresh = FALSE] ELSE batch[j]
    BY DEF Outdate
  <2>3. CASE batch[j] = Off
    BY <2>2, <2>3 DEF Off, JobTyped
  <2>4. CASE batch[j] = ToRead(batch[j].period, batch[j].last) /\ At(batch[j])
    <3>1. batch[j].step = "read"
      BY <2>4 DEF ToRead
    <3>2. batch'[j] = batch[j]
      BY <2>2, <3>1
    <3> QED BY <2>1, <3>1, <3>2
  <2>5. CASE /\ batch[j] = [step |-> "delete", period |-> batch[j].period, last |-> batch[j].last,
                            rows |-> batch[j].rows, fresh |-> batch[j].fresh]
             /\ At(batch[j]) /\ batch[j].fresh \in BOOLEAN
    <3>1. batch[j].step = "delete"
      BY <2>5
    <3>2. batch'[j] = [step |-> "delete", period |-> batch[j].period, last |-> batch[j].last,
                       rows |-> batch[j].rows, fresh |-> FALSE]
      BY <2>2, <2>5, <3>1
    <3> QED BY <2>5, <3>2 DEF JobTyped, At
  <2>6. CASE /\ batch[j] = [step |-> "write", period |-> batch[j].period, last |-> batch[j].last,
                            rows |-> batch[j].rows, fresh |-> batch[j].fresh, gone |-> batch[j].gone]
             /\ At(batch[j]) /\ batch[j].fresh \in BOOLEAN
    <3>1. batch[j].step = "write"
      BY <2>6
    <3>2. batch'[j] = [step |-> "write", period |-> batch[j].period, last |-> batch[j].last,
                       rows |-> batch[j].rows, fresh |-> FALSE, gone |-> batch[j].gone]
      BY <2>2, <2>6, <3>1
    <3> QED BY <2>6, <3>2 DEF JobTyped, At
  <2> QED BY <2>1, <2>3, <2>4, <2>5, <2>6 DEF JobTyped
<1>2. batch' = [j \in Jobs |-> batch'[j]] /\ settled' = {}
  BY DEF Outdate
<1>3. Typed'
  BY <1>1, <1>2 DEF StatsInv, Typed
<1>4. \A j \in Jobs : ~Fresh(j)'
  BY <1>1 DEF Fresh
<1> QED BY <1>2, <1>3, <1>4 DEF StatsInv, SettledIsExact, FreshIsExact, FreshLeavesNothing

\* One job goes on; episodes and tables stay.
LEMMA GoesOn ==
    ASSUME StatsInv, UNCHANGED <<recorded, table, settled>>, NEW j \in Jobs, NEW s,
           batch' = [batch EXCEPT ![j] = s], JobTyped(s),
           s.step \in {"delete", "write"} /\ s.fresh => s.rows = SumsOf(s.period),
           s.step = "write" /\ s.fresh => DOMAIN table[s.period] \subseteq s.gone \cup DOMAIN s.rows
    PROVE  StatsInv'
<1>1. \A i \in Jobs : batch'[i] = IF i = j THEN s ELSE batch[i]
  BY DEF StatsInv, Typed
<1>2. batch' = [i \in Jobs |-> batch'[i]]
  BY DEF StatsInv, Typed
<1>3. \A i \in Jobs : JobTyped(batch'[i])
  BY <1>1 DEF StatsInv, Typed
<1>4. EpisodesTyped' /\ RecordingTyped'
  BY DEF StatsInv, Typed, EpisodesTyped, RecordingTyped, Completed
<1>5. Typed'
  BY <1>2, <1>3, <1>4 DEF StatsInv, Typed
<1>6. SettledIsExact'
  BY SumsStay DEF StatsInv, SettledIsExact
<1>7. FreshIsExact'
  BY <1>1, SumsStay DEF StatsInv, FreshIsExact, Fresh
<1>8. FreshLeavesNothing'
  BY <1>1 DEF StatsInv, FreshLeavesNothing, Fresh
<1> QED BY <1>5, <1>6, <1>7, <1>8 DEF StatsInv

\* Who writes what is still so leaves exactly that.
LEMMA FreshMerges ==
    ASSUME StatsInv, NEW j \in Jobs, Fresh(j), batch[j].step = "write",
           batch[j].period = Ever \/ Kept(j) \cap DOMAIN batch[j].rows = {}
    PROVE  Merged(j) = SumsOf(batch[j].period)
<1> DEFINE rows == batch[j].rows
<1>1. rows = SumsOf(batch[j].period)
  BY DEF StatsInv, FreshIsExact
<1>2. Kept(j) \subseteq DOMAIN rows
  BY DEF StatsInv, FreshLeavesNothing, Kept
<1>3. rows = [k \in DOMAIN rows |-> rows[k]]
  BY <1>1, SumsAreRows
<1>4. Kept(j) \cup DOMAIN rows = DOMAIN rows
  BY <1>2
<1>5. Merged(j) = [k \in DOMAIN rows |-> rows[k]]
  BY <1>4 DEF Merged
<1> QED BY <1>1, <1>3, <1>5

\* A job that commits a period.
LEMMA CommitKeeps ==
    ASSUME StatsInv, NEW j \in Jobs, batch[j].step = "write", Commit(j, Merged(j)), recorded' = recorded,
           batch[j].period = Ever \/ Kept(j) \cap DOMAIN batch[j].rows = {}
    PROVE  StatsInv'
<1> DEFINE p == batch[j].period
<1>1. /\ batch[j] = [step |-> "write", period |-> batch[j].period, last |-> batch[j].last,
                     rows |-> batch[j].rows, fresh |-> batch[j].fresh, gone |-> batch[j].gone]
      /\ At(batch[j]) /\ batch[j].fresh \in BOOLEAN
  BY DEF StatsInv, Typed, JobTyped, Off, ToRead
<1>2. p \in Periods
  BY <1>1, PeriodsAre DEF At
<1>3. \A q \in Periods : table'[q] = IF q = p THEN Merged(j) ELSE table[q]
  BY DEF Commit, StatsInv, Typed
<1>4. Fresh(j) <=> batch[j].fresh
  BY <1>1 DEF Fresh
<1>5. Fresh(j) => table'[p] = SumsOf(p)
  BY <1>2, <1>3, FreshMerges
<1>6. SettledIsExact'
  <2>1. settled' = IF batch[j].fresh THEN settled \cup {p} ELSE settled \ {p}
    BY DEF Commit
  <2>2. settled \subseteq Periods
    BY DEF StatsInv, Typed
  <2> SUFFICES ASSUME NEW q \in settled' PROVE table'[q] = SumsOf(q)
    BY SumsStay DEF SettledIsExact
  <2>3. CASE q = p
    BY <1>4, <1>5, <2>1, <2>3
  <2>4. CASE q # p
    BY <1>3, <2>1, <2>2, <2>4 DEF StatsInv, SettledIsExact
  <2> QED BY <2>3, <2>4
<1>7. \A i \in Jobs : batch'[i] = IF i = j THEN NextPeriod(batch[j])
                                  ELSE IF Beside(i, j) THEN Overtaken(i, j) ELSE batch[i]
  BY DEF Commit
<1>8. JobTyped(NextPeriod(batch[j])) /\ NextPeriod(batch[j]).step \in {"off", "read"}
  <2>1. CASE p = Ever
    BY <2>1 DEF NextPeriod, JobTyped, Off
  <2>2. CASE p # Ever
    <3> DEFINE q == IF p = batch[j].last THEN Ever ELSE p + 1
    <3>1. NextPeriod(batch[j]) = ToRead(q, batch[j].last)
      BY <2>2 DEF NextPeriod
    <3>2. batch[j].last \in Hour /\ (q = Ever \/ (q \in Hour /\ q <= batch[j].last))
      <4>1. batch[j].last \in Hour /\ p \in Hour /\ p <= batch[j].last
        BY <1>1, <2>2 DEF At
      <4>2. CASE p = batch[j].last
        BY <4>1, <4>2
      <4>3. CASE p # batch[j].last
        BY <4>1, <4>3, PeriodsAre
      <4> QED BY <4>2, <4>3
    <3> HIDE DEF q
    <3>3. ToRead(q, batch[j].last).period = q /\ ToRead(q, batch[j].last).last = batch[j].last
          /\ ToRead(q, batch[j].last).step = "read"
      BY DEF ToRead
    <3> QED BY <3>1, <3>2, <3>3 DEF JobTyped, At
  <2> QED BY <2>1, <2>2
\* Who is overtaken carries what it carried, and is fresh only if j was.
<1>9. ASSUME NEW i \in Jobs, Beside(i, j)
      PROVE  \E f \in BOOLEAN :
                /\ f => batch[i].fresh /\ batch[j].fresh
                /\ batch'[i] = [step |-> "write", period |-> p, last |-> batch[i].last,
                                rows |-> batch[i].rows, fresh |-> f, gone |-> batch[i].gone \ batch[j].gone]
                /\ At(batch[i]) /\ batch[i].step = "write" /\ batch[i].period = p /\ i # j
  <2>1. batch[i].step = "write" /\ batch[i].period = p /\ i # j
    BY <1>9 DEF Beside
  <2>2. /\ batch[i] = [step |-> "write", period |-> batch[i].period, last |-> batch[i].last,
                       rows |-> batch[i].rows, fresh |-> batch[i].fresh, gone |-> batch[i].gone]
        /\ At(batch[i]) /\ batch[i].fresh \in BOOLEAN
    BY <2>1 DEF StatsInv, Typed, JobTyped, Off, ToRead
  <2> DEFINE g == batch[i].gone \ batch[j].gone
             f == batch[i].fresh /\ batch[j].fresh
  <2>3. Overtaken(i, j) = [batch[i] EXCEPT !.gone = g, !.fresh = f]
    BY Zenon DEF Overtaken
  <2>4. f \in BOOLEAN /\ (f => batch[i].fresh /\ batch[j].fresh)
    OBVIOUS
  <2> HIDE DEF f
  <2>5. batch'[i] = [batch[i] EXCEPT !.gone = g, !.fresh = f]
    BY <1>7, <1>9, <2>1, <2>3
  <2>6. batch'[i] = [step |-> "write", period |-> p, last |-> batch[i].last,
                     rows |-> batch[i].rows, fresh |-> f, gone |-> g]
    BY <2>1, <2>2, <2>5
  <2> QED BY <2>1, <2>2, <2>4, <2>6
<1>10. ASSUME NEW i \in Jobs PROVE JobTyped(batch'[i])
  <2>1. CASE i = j
    BY <1>7, <1>8, <2>1
  <2>2. CASE Beside(i, j)
    <3>1. PICK f \in BOOLEAN :
             /\ batch'[i] = [step |-> "write", period |-> p, last |-> batch[i].last,
                             rows |-> batch[i].rows, fresh |-> f, gone |-> batch[i].gone \ batch[j].gone]
             /\ At(batch[i]) /\ batch[i].period = p
      BY <1>9, <2>2
    <3>2. At(batch'[i]) /\ batch'[i].fresh \in BOOLEAN
      BY <3>1 DEF At
    <3>3. batch'[i] = [step |-> "write", period |-> batch'[i].period, last |-> batch'[i].last,
                       rows |-> batch'[i].rows, fresh |-> batch'[i].fresh, gone |-> batch'[i].gone]
      BY <3>1
    <3> QED BY <3>2, <3>3 DEF JobTyped
  <2>3. CASE i # j /\ ~Beside(i, j)
    BY <1>7, <2>3 DEF StatsInv, Typed
  <2> QED BY <2>1, <2>2, <2>3
<1>11. FreshIsExact'
  <2> SUFFICES ASSUME NEW i \in Jobs, batch'[i].step \in {"delete", "write"}, batch'[i].fresh
               PROVE  batch'[i].rows = SumsOf(batch'[i].period)
    BY SumsStay DEF FreshIsExact, Fresh
  <2>1. CASE i = j
    BY <1>7, <1>8, <2>1
  <2>2. CASE Beside(i, j)
    <3>1. Fresh(i) /\ batch'[i].rows = batch[i].rows /\ batch'[i].period = batch[i].period
      <4>1. PICK f \in BOOLEAN :
               /\ f => batch[i].fresh
               /\ batch'[i] = [step |-> "write", period |-> p, last |-> batch[i].last,
                               rows |-> batch[i].rows, fresh |-> f, gone |-> batch[i].gone \ batch[j].gone]
               /\ batch[i].step = "write" /\ batch[i].period = p
        BY <1>9, <2>2
      <4>2. batch'[i].fresh = f /\ batch'[i].rows = batch[i].rows /\ batch'[i].period = p
        BY <4>1
      <4> QED BY <4>1, <4>2 DEF Fresh
    <3> QED BY <3>1 DEF StatsInv, FreshIsExact
  <2>3. CASE i # j /\ ~Beside(i, j)
    BY <1>7, <2>3 DEF StatsInv, FreshIsExact, Fresh
  <2> QED BY <2>1, <2>2, <2>3
<1>12. FreshLeavesNothing'
  <2> SUFFICES ASSUME NEW i \in Jobs, batch'[i].step = "write", batch'[i].fresh
               PROVE  DOMAIN table'[batch'[i].period] \subseteq batch'[i].gone \cup DOMAIN batch'[i].rows
    BY DEF FreshLeavesNothing, Fresh
  <2>1. CASE i = j
    BY <1>7, <1>8, <2>1
  <2>2. CASE Beside(i, j)
    <3>1. /\ Fresh(i) /\ Fresh(j) /\ batch'[i].rows = batch[i].rows /\ batch'[i].period = p
          /\ batch[i].period = p
      <4>1. PICK f \in BOOLEAN :
               /\ f => batch[i].fresh /\ batch[j].fresh
               /\ batch'[i] = [step |-> "write", period |-> p, last |-> batch[i].last,
                               rows |-> batch[i].rows, fresh |-> f, gone |-> batch[i].gone \ batch[j].gone]
               /\ batch[i].step = "write" /\ batch[i].period = p
        BY <1>9, <2>2
      <4>2. batch'[i].fresh = f /\ batch'[i].rows = batch[i].rows /\ batch'[i].period = p
        BY <4>1
      <4> QED BY <1>4, <4>1, <4>2 DEF Fresh
    <3>2. batch[i].rows = SumsOf(p)
      BY <3>1 DEF StatsInv, FreshIsExact
    <3> QED BY <1>5, <3>1, <3>2
  <2>3. CASE i # j /\ ~Beside(i, j)
    <3>1. batch'[i] = batch[i] /\ batch[i].period # p
      BY <1>7, <2>3 DEF Beside
    <3>2. batch[i].period \in Periods
      <4>1. At(batch[i])
        BY <3>1 DEF StatsInv, Typed, JobTyped, Off, ToRead
      <4> QED BY <4>1, PeriodsAre DEF At
    <3>3. table'[batch[i].period] = table[batch[i].period]
      BY <1>3, <3>1, <3>2
    <3> QED BY <3>1, <3>3 DEF StatsInv, FreshLeavesNothing, Fresh
  <2> QED BY <2>1, <2>2, <2>3
<1>13. Typed'
  <2>1. EpisodesTyped' /\ RecordingTyped'
    BY DEF StatsInv, Typed, EpisodesTyped, RecordingTyped, Completed
  <2>2. batch' = [i \in Jobs |-> batch'[i]] /\ table' = [q \in Periods |-> table'[q]]
    BY DEF Commit, StatsInv, Typed
  <2>3. settled' \subseteq Periods
    BY <1>2 DEF Commit, StatsInv, Typed
  <2> QED BY <1>10, <2>1, <2>2, <2>3 DEF StatsInv, Typed
<1> QED BY <1>6, <1>11, <1>12, <1>13 DEF StatsInv

LEMMA NextStats == StatsInv /\ [StatsNext]_statsVars => StatsInv'
<1> SUFFICES ASSUME StatsInv, [StatsNext]_statsVars PROVE StatsInv'
  OBVIOUS
<1>1. /\ recorded = [e \in Episodes |-> recorded[e]]
      /\ EpisodesTyped /\ RecordingTyped
      /\ \A j \in Jobs : JobTyped(batch[j])
  BY DEF StatsInv, Typed
\* Nothing that counts changes.
<1>2. ASSUME UNCHANGED <<table, batch, settled>>, recorded' = [e \in Episodes |-> recorded'[e]],
             EpisodesTyped', RecordingTyped', \A p : SumsOf(p)' = SumsOf(p)
      PROVE  StatsInv'
  <2>1. Typed'
    BY <1>2 DEF StatsInv, Typed
  <2> QED BY <1>2, <2>1 DEF StatsInv, SettledIsExact, FreshIsExact, FreshLeavesNothing, Fresh
<1>3. ASSUME UNCHANGED <<recorded, table, batch, settled>> PROVE StatsInv'
  <2>1. EpisodesTyped' /\ RecordingTyped'
    BY <1>1, <1>3 DEF EpisodesTyped, RecordingTyped, Completed
  <2> QED BY <1>1, <1>2, <1>3, <2>1, SumsStay
<1>4. ASSUME NEW e \in Episodes, BeginEpisode(e) PROVE StatsInv'
  <2>1. PICK r \in robots, v \in Versions, at \in Times :
           recorded' = [recorded EXCEPT ![e] = Recording(r, v, at)]
    BY <1>4 DEF BeginEpisode
  <2>2. Recording(r, v, at).status = "recording" /\ Recording(r, v, at).started = at /\ at \in Int
    BY StatsAssumption DEF Recording
  <2>3. recorded[e].status = "absent"
    BY <1>4 DEF BeginEpisode, Absent
  <2>4. \A d \in Episodes : recorded'[d] = IF d = e THEN Recording(r, v, at) ELSE recorded[d]
    BY <1>1, <2>1
  <2>5. recorded' = [d \in Episodes |-> recorded'[d]]
    BY <1>1, <2>1
  <2>6. Completed' = Completed
    BY <2>2, <2>3, <2>4 DEF Completed
  <2>7. \A d \in Completed : recorded'[d] = recorded[d]
    BY <2>3, <2>4 DEF Completed
  <2>8. EpisodesTyped' /\ RecordingTyped'
    BY <1>1, <2>2, <2>4, <2>6, <2>7 DEF EpisodesTyped, RecordingTyped
  <2>9. \A p : SumsOf(p)' = SumsOf(p)
    BY <2>6, <2>7, SumsOfCompleted
  <2> QED BY <1>2, <1>4, <2>5, <2>8, <2>9 DEF BeginEpisode
<1>5. ASSUME NEW e \in Episodes, EndEpisode(e) PROVE StatsInv'
  <2>1. PICK at \in Times :
           recorded' = [recorded EXCEPT ![e] =
               Recorded(recorded[e].robot, recorded[e].version, recorded[e].started, at)]
    BY <1>5 DEF EndEpisode
  <2> DEFINE new == Recorded(recorded[e].robot, recorded[e].version, recorded[e].started, at)
  <2>2. new.status = "completed" /\ new.started = recorded[e].started /\ new.finished = at /\ at \in Int
    BY StatsAssumption DEF Recorded
  <2>3. recorded[e].started \in Int
    BY <1>1, <1>5 DEF EndEpisode, RecordingTyped
  <2> HIDE DEF new
  <2>4. \A d \in Episodes : recorded'[d] = IF d = e THEN new ELSE recorded[d]
    BY <1>1, <2>1 DEF new
  <2>5. recorded' = [d \in Episodes |-> recorded'[d]]
    BY <1>1, <2>1
  <2>6. EpisodesTyped' /\ RecordingTyped'
    BY <1>1, <2>2, <2>3, <2>4 DEF EpisodesTyped, RecordingTyped, Completed
  <2> QED BY <1>5, <2>5, <2>6, OutdateKeeps DEF EndEpisode
<1>6. ASSUME NEW e \in Episodes, RetimeEpisode(e) PROVE StatsInv'
  <2>1. PICK s \in Times, f \in Times :
           recorded' = [recorded EXCEPT ![e] = Recorded(recorded[e].robot, recorded[e].version, s, f)]
    BY <1>6 DEF RetimeEpisode
  <2> DEFINE new == Recorded(recorded[e].robot, recorded[e].version, s, f)
  <2>2. new.status = "completed" /\ new.started = s /\ new.finished = f /\ s \in Int /\ f \in Int
    BY StatsAssumption DEF Recorded
  <2> HIDE DEF new
  <2>3. \A d \in Episodes : recorded'[d] = IF d = e THEN new ELSE recorded[d]
    BY <1>1, <2>1 DEF new
  <2>4. recorded' = [d \in Episodes |-> recorded'[d]]
    BY <1>1, <2>1
  <2>5. EpisodesTyped' /\ RecordingTyped'
    BY <1>1, <2>2, <2>3 DEF EpisodesTyped, RecordingTyped, Completed
  <2> QED BY <1>6, <2>4, <2>5, OutdateKeeps DEF RetimeEpisode
<1>7. ASSUME NEW e \in Episodes, WithdrawEpisode(e) PROVE StatsInv'
  <2>1. recorded' = [recorded EXCEPT ![e] = Gone] /\ Gone.status = "gone"
    BY <1>7 DEF WithdrawEpisode, Gone
  <2>2. \A d \in Episodes : recorded'[d] = IF d = e THEN Gone ELSE recorded[d]
    BY <1>1, <2>1
  <2>3. recorded' = [d \in Episodes |-> recorded'[d]]
    BY <1>1, <2>1
  <2>4. EpisodesTyped' /\ RecordingTyped'
    BY <1>1, <2>1, <2>2 DEF EpisodesTyped, RecordingTyped, Completed
  <2> QED BY <1>7, <2>3, <2>4, OutdateKeeps DEF WithdrawEpisode
<1>8. ASSUME NEW r \in Robots, DeleteRobot(r) PROVE StatsInv'
  BY <1>3, <1>8 DEF DeleteRobot
<1>9. ASSUME NEW j \in Jobs, NEW h \in Hour, NEW last \in h .. Hours - 1, Run(j, h, last) PROVE StatsInv'
  <2>1. h \in Hour /\ last \in Hour /\ h <= last
    BY StatsAssumption DEF Hour
  <2>2. ToRead(h, last).period = h /\ ToRead(h, last).last = last /\ ToRead(h, last).step = "read"
    BY DEF ToRead
  <2>3. JobTyped(ToRead(h, last))
    BY <2>1, <2>2 DEF JobTyped, At
  <2> QED BY <1>9, <2>2, <2>3, GoesOn DEF Run
<1>10. ASSUME NEW j \in Jobs, ReadSums(j) PROVE StatsInv'
  <2> DEFINE p == batch[j].period
             s == [step |-> "delete", period |-> p, last |-> batch[j].last,
                   rows |-> SumsOf(p), fresh |-> TRUE]
  <2>1. At(batch[j])
    <3>1. JobTyped(batch[j]) /\ batch[j].step = "read"
      BY <1>1, <1>10 DEF ReadSums
    <3> QED BY <3>1 DEF JobTyped, Off
  <2>2. batch' = [batch EXCEPT ![j] = s]
    BY <1>10 DEF ReadSums
  <2>3. s.step = "delete" /\ s.period = p /\ s.last = batch[j].last /\ s.rows = SumsOf(p) /\ s.fresh = TRUE
    OBVIOUS
  <2>4. s = [step |-> "delete", period |-> s.period, last |-> s.last, rows |-> s.rows, fresh |-> s.fresh]
    OBVIOUS
  <2> HIDE DEF s
  <2>5. JobTyped(s)
    BY <2>1, <2>3, <2>4 DEF JobTyped, At
  <2> QED BY <1>10, <2>2, <2>3, <2>5, GoesOn DEF ReadSums
<1>11. ASSUME NEW j \in Jobs, DeleteRows(j) PROVE StatsInv'
  <2> DEFINE p == batch[j].period
             s == [step |-> "write", period |-> p, last |-> batch[j].last,
                   rows |-> batch[j].rows, fresh |-> batch[j].fresh, gone |-> Obsolete(j)]
  <2>1. At(batch[j]) /\ batch[j].fresh \in BOOLEAN
    <3>1. JobTyped(batch[j]) /\ batch[j].step = "delete"
      BY <1>1, <1>11 DEF DeleteRows
    <3> QED BY <3>1 DEF JobTyped, Off, ToRead
  <2>2. batch' = [batch EXCEPT ![j] = s]
    BY <1>11 DEF DeleteRows
  <2>3. /\ s.step = "write" /\ s.period = p /\ s.last = batch[j].last /\ s.rows = batch[j].rows
        /\ s.fresh = batch[j].fresh /\ s.gone = Obsolete(j)
    OBVIOUS
  <2>4. s = [step |-> "write", period |-> s.period, last |-> s.last, rows |-> s.rows, fresh |-> s.fresh,
             gone |-> s.gone]
    OBVIOUS
  <2> HIDE DEF s
  <2>5. JobTyped(s)
    BY <2>1, <2>3, <2>4 DEF JobTyped, At
  <2>6. s.fresh => s.rows = SumsOf(s.period)
    BY <1>11, <2>3 DEF StatsInv, FreshIsExact, Fresh, DeleteRows
  <2>7. DOMAIN table[p] \subseteq Obsolete(j) \cup DOMAIN batch[j].rows
    BY DEF Obsolete
  <2> QED BY <1>11, <2>2, <2>3, <2>5, <2>6, <2>7, GoesOn DEF DeleteRows
<1>12. ASSUME NEW j \in Jobs, InsertHour(j) PROVE StatsInv'
  BY <1>12, CommitKeeps DEF InsertHour
<1>13. ASSUME NEW j \in Jobs, UpsertVersions(j) PROVE StatsInv'
  BY <1>13, CommitKeeps DEF UpsertVersions
<1>14. ASSUME NEW j \in Jobs, HourRefused(j) \/ Fail(j) PROVE StatsInv'
  <2>1. JobTyped(Off) /\ Off.step = "off"
    BY DEF JobTyped, Off
  <2> QED BY <1>14, <2>1, GoesOn DEF HourRefused, Fail
<1>15. ASSUME RunRegular \/ RunBackfill PROVE StatsInv'
  <2>1. PICK j \in Jobs, h \in Hour : \E last \in h .. Hours - 1 : Run(j, h, last)
    <3>1. \A h \in Hour : h \in h .. Hours - 1
      BY StatsAssumption DEF Hour
    <3> QED BY <1>15, <3>1 DEF RunRegular, RunBackfill, Jobs
  <2> QED BY <1>9, <2>1
<1>16. CASE UNCHANGED statsVars
  BY <1>3, <1>16 DEF statsVars
<1> QED BY <1>4, <1>5, <1>6, <1>7, <1>8, <1>10, <1>11, <1>12, <1>13, <1>14, <1>15, <1>16
        DEF StatsNext, EpisodeStep, JobStep

\* A run that replaces a period with what is still so leaves it exact, whatever
\* other runs, failures, edits and deletions left there before
\* (cmd/aggregate-episode-stats aggregatePeriod, gateway BulkReplaceHourly).
THEOREM SettledIsExactAlways == StatsSpec => []SettledIsExact
<1>1. StatsInv => SettledIsExact
  BY DEF StatsInv
<1> QED BY <1>1, InitStats, NextStats, PTL DEF StatsSpec

-----------------------------------------------------------------------------
(* The hours add up: both sides count the ticks of the completed episodes. *)

AllInOrder == EpisodesTyped /\ \A e \in Completed : InOrder(e)

Span(e)    == recorded[e].started .. recorded[e].finished - 1
TicksOf(h) == From(h) .. To(h) - 1
TicksIn(e, h) == Later(recorded[e].started, From(h)) .. Earlier(recorded[e].finished, To(h)) - 1

AllTicks      == UNION {{e} \X Span(e) : e \in Completed}
AllTicksIn(h) == UNION {{e} \X TicksIn(e, h) : e \in Counted(h)}

\* A duration is rounded by half a second at most.
LEMMA RoundedIs ==
    ASSUME NEW d \in Nat
    PROVE  /\ Rounded(d) \in Nat
           /\ 2 * Second * Rounded(d) <= 2 * d + Second
           /\ 2 * d <= 2 * Second * Rounded(d) + Second
<1> DEFINE m == 2 * Second
           n == Second + 2 * d
<1>1. Second \in Nat \ {0} /\ m \in Nat \ {0} /\ n \in Nat /\ n = Second + 2 * d /\ m = 2 * Second
  BY StatsAssumption
<1>2. Rounded(d) = n \div m
  BY DEF Rounded
<1> HIDE DEF m, n
<1>3. n \div m \in Nat /\ m * (n \div m) <= n /\ n < m * (n \div m) + m
  BY <1>1
<1> DEFINE k == m * (n \div m)
<1>4. k \in Nat
  BY <1>1, <1>3
<1> HIDE DEF k
<1>5. k <= Second + 2 * d /\ Second + 2 * d < k + 2 * Second
  BY <1>1, <1>3 DEF k
<1>6. k <= 2 * d + Second /\ 2 * d <= k + Second
  BY <1>1, <1>4, <1>5
<1>7. 2 * Second * Rounded(d) = k
  BY <1>1, <1>2 DEF k
<1> QED BY <1>2, <1>3, <1>6, <1>7

\* As many ticks from a up to b as b is more than a.
LEMMA TicksBetween ==
    ASSUME NEW a \in Int, NEW b \in Int, a <= b
    PROVE  IsFiniteSet(a .. b - 1) /\ Cardinality(a .. b - 1) = b - a
<1>1. a \in Int /\ b - 1 \in Int
  OBVIOUS
<1>2. /\ IsFiniteSet(a .. b - 1)
      /\ Cardinality(a .. b - 1) = IF a > b - 1 THEN 0 ELSE (b - 1) - a + 1
  BY <1>1, FS_Interval
<1> QED BY <1>2

\* What rows have, but for the rounding.
Within(rows, ticks) ==
    /\ SecondsIn(rows) \in Int /\ CountIn(rows) \in Int /\ ticks \in Nat
    /\ 2 * Second * SecondsIn(rows) <= 2 * ticks + Second * CountIn(rows)
    /\ 2 * ticks <= 2 * Second * SecondsIn(rows) + Second * CountIn(rows)

\* The ticks of all elements together, and the elements that K takes to k.
Together(F, S) == UNION {{x} \X F[x] : x \in S}
Group(S, K, k) == {y \in S : K[y] = k}

\* Rows of durations f, the rounded ticks of F, grouped by K.
AreRows(rows, S, F, f, K) ==
    /\ f = [x \in S |-> f[x]]
    /\ \A x \in S : IsFiniteSet(F[x]) /\ f[x] = Rounded(Cardinality(F[x]))
    /\ DOMAIN rows = {K[x] : x \in S}
    /\ \A k \in DOMAIN rows : /\ rows[k].seconds = SumOfGroup(f, S, K, k)
                             /\ rows[k].count = Cardinality(Group(S, K, k))

\* They are their ticks but for half a second of each.
LEMMA RowsWithin ==
    ASSUME NEW S, IsFiniteSet(S), NEW F, NEW f, NEW K, NEW rows, AreRows(rows, S, F, f, K)
    PROVE  IsFiniteSet(Together(F, S)) /\ Within(rows, Cardinality(Together(F, S)))
<1> DEFINE D == DOMAIN rows
<1>0. /\ f = [x \in S |-> f[x]] /\ D = {K[x] : x \in S}
      /\ \A x \in S : IsFiniteSet(F[x]) /\ f[x] = Rounded(Cardinality(F[x]))
      /\ \A k \in D : /\ rows[k].seconds = SumOfGroup(f, S, K, k)
                     /\ rows[k].count = Cardinality(Group(S, K, k))
  BY DEF AreRows
<1> DEFINE U == Together(F, S)
           n == [x \in S |-> Cardinality(F[x])]
           one == [x \in S |-> 1]
           c == [k \in D |-> rows[k].seconds]
           g == [k \in D |-> rows[k].count]
<1>1. n \in [S -> Nat] /\ one \in [S -> Nat]
  BY <1>0, FS_CardinalityType
<1>2. \A x \in S : f[x] \in Nat
  BY <1>0, RoundedIs, FS_CardinalityType
<1>3. f \in [S -> Nat]
  BY <1>0, <1>2
<1>4. IsFiniteSet(U) /\ SumFunction(n) = Cardinality(U)
  <2>1. \A x \in S : IsFiniteSet(F[x]) /\ n[x] = Cardinality(F[x])
    BY <1>0
  <2> HIDE DEF n
  <2> QED BY <1>1, <2>1, SumOfPairs DEF Together
<1>6. SecondsIn(rows) = SumFunction(f)
  <2>1. \A k \in D : c[k] = SumOfGroup(f, S, K, k)
    BY <1>0
  <2>2. SecondsIn(rows) = SumFunction(c)
    BY DEF SecondsIn
  <2>3. c = [k \in D |-> c[k]]
    OBVIOUS
  <2> HIDE DEF c, D
  <2>4. c \in [D -> Int]
    <3>1. \A k \in D : SumOfGroup(f, S, K, k) \in Int
      BY <1>3, SumOfGroupIsInt
    <3>2. \A k \in D : c[k] \in Int
      BY <2>1, <3>1
    <3> QED BY <2>3, <3>2
  <2> QED BY <1>3, <2>1, <2>2, <2>4, <1>0, SumRegrouped
<1>7. CountIn(rows) = SumFunction(one)
  <2>1. ASSUME NEW k \in D PROVE g[k] = SumOfGroup(one, S, K, k)
    <3> DEFINE T == Group(S, K, k)
    <3>1. IsFiniteSet(T)
      BY FS_Subset DEF Group
    <3>2. g[k] = Cardinality(T)
      BY <1>0
    <3>3. SumOfGroup(one, S, K, k) = SumFunction([x \in T |-> 1])
      <4>1. [x \in T |-> one[x]] = [x \in T |-> 1]
        BY DEF Group
      <4>2. SumOfGroup(one, S, K, k) = SumFunction([x \in T |-> one[x]])
        <5> HIDE DEF one
        <5> QED BY DEF SumOfGroup, Group
      <4> HIDE DEF T, one
      <4> QED BY <4>1, <4>2
    <3> HIDE DEF T, g
    <3> QED BY <3>1, <3>2, <3>3, SumOfOnes
  <2>2. CountIn(rows) = SumFunction(g)
    BY DEF CountIn
  <2>3. g = [k \in D |-> g[k]]
    OBVIOUS
  <2> HIDE DEF g, one, D
  <2>4. g \in [D -> Int]
    <3>1. \A k \in D : SumOfGroup(one, S, K, k) \in Int
      BY <1>1, SumOfGroupIsInt
    <3>2. \A k \in D : g[k] \in Int
      BY <2>1, <3>1
    <3> QED BY <2>3, <3>2
  <2> QED BY <1>1, <2>1, <2>2, <2>4, <1>0, SumRegrouped
<1>8. /\ SumFunction(f) \in Int /\ SumFunction(one) \in Int /\ Cardinality(U) \in Nat
  <2>1. f \in [S -> Int] /\ one \in [S -> Int]
    BY <1>1, <1>3
  <2> HIDE DEF one, U
  <2> QED BY <1>4, <2>1, SumHasPartialSums, FS_CardinalityType
<1>9. ASSUME NEW x \in S
      PROVE  /\ (2 * Second) * f[x] <= 2 * n[x] + Second * one[x]
             /\ 2 * n[x] <= (2 * Second) * f[x] + Second * one[x]
  <2>1. n[x] \in Nat /\ f[x] = Rounded(n[x]) /\ one[x] = 1
    BY <1>0, <1>1
  <2>2. Second * 1 = Second
    BY StatsAssumption
  <2> HIDE DEF n, one
  <2> QED BY <2>1, <2>2, RoundedIs
<1>10. /\ (2 * Second) * SumFunction(f) <= 2 * SumFunction(n) + Second * SumFunction(one)
       /\ 2 * SumFunction(n) <= (2 * Second) * SumFunction(f) + Second * SumFunction(one)
  <2>1. f \in [S -> Int] /\ one \in [S -> Int] /\ n \in [S -> Int] /\ 2 * Second \in Int /\ Second \in Int
    BY <1>1, <1>3, StatsAssumption
  <2> DEFINE w == 2 * Second
  <2>2. /\ w \in Int /\ 2 \in Int
        /\ Bounds(S, f, n, one, w, 2, Second) /\ Bounds(S, n, f, one, 2, w, Second)
    BY <1>9, <2>1 DEF Bounds
  <2> HIDE DEF n, one, w
  <2>3. w * SumFunction(f) <= 2 * SumFunction(n) + Second * SumFunction(one)
    BY <2>1, <2>2, SumWithin
  <2>4. 2 * SumFunction(n) <= w * SumFunction(f) + Second * SumFunction(one)
    BY <2>1, <2>2, SumWithin
  <2> QED BY <2>3, <2>4 DEF w
<1> HIDE DEF n, one, U
<1>11. IsFiniteSet(U) /\ Within(rows, Cardinality(U))
  BY <1>4, <1>6, <1>7, <1>8, <1>10 DEF Within
<1> QED BY <1>11 DEF U

\* What an episode in order has in an hour is the ticks they share.
LEMMA TicksAre ==
    ASSUME AllInOrder, NEW e \in Completed
    PROVE  /\ IsFiniteSet(Span(e)) /\ Duration(e) = Rounded(Cardinality(Span(e)))
           /\ \A h \in Hour : e \in Counted(h) =>
                 /\ IsFiniteSet(TicksIn(e, h)) /\ Seconds(e, h) = Rounded(Cardinality(TicksIn(e, h)))
           /\ \A h \in Hour : \A t : e \in Counted(h) /\ t \in TicksIn(e, h) <=> t \in Span(e) /\ t \in TicksOf(h)
<1> DEFINE s == recorded[e].started
           f == recorded[e].finished
<1>1. s \in Int /\ f \in Int /\ s <= f
  BY DEF AllInOrder, EpisodesTyped, InOrder
<1>2. IsFiniteSet(Span(e)) /\ Duration(e) = Rounded(Cardinality(Span(e)))
  BY <1>1, TicksBetween DEF Span, Duration
<1>3. ASSUME NEW h \in Hour PROVE From(h) \in Int /\ To(h) \in Int /\ From(h) <= To(h)
  BY StatsAssumption DEF From, To, Hour
<1>4. ASSUME NEW h \in Hour, e \in Counted(h)
      PROVE  IsFiniteSet(TicksIn(e, h)) /\ Seconds(e, h) = Rounded(Cardinality(TicksIn(e, h)))
  <2> DEFINE a == Later(s, From(h))
             b == Earlier(f, To(h))
  <2>1. s < To(h) /\ f > From(h)
    BY <1>4 DEF Counted
  <2>2. a \in Int /\ b \in Int /\ a <= b
    BY <1>1, <1>3, <2>1 DEF Later, Earlier
  <2> HIDE DEF a, b
  <2> QED BY <2>2, TicksBetween DEF TicksIn, Seconds, a, b
<1>5. ASSUME NEW h \in Hour, NEW t
      PROVE  e \in Counted(h) /\ t \in TicksIn(e, h) <=> t \in Span(e) /\ t \in TicksOf(h)
  <2>1. e \in Counted(h) <=> s < To(h) /\ f > From(h)
    BY DEF Counted
  <2>2. t \in TicksIn(e, h) <=> t \in Int /\ Later(s, From(h)) <= t /\ t <= Earlier(f, To(h)) - 1
    BY <1>1, <1>3 DEF TicksIn, Later, Earlier
  <2> QED BY <1>1, <1>3, <2>1, <2>2 DEF Span, TicksOf, Later, Earlier
<1> QED BY <1>2, <1>4, <1>5

LEMMA EpisodesAreFinite == IsFiniteSet(Completed) /\ \A h : IsFiniteSet(Counted(h)) /\ Counted(h) \subseteq Completed
<1>1. IsFiniteSet(Episodes)
  BY StatsAssumption, FS_Interval DEF Episodes
<1>2. Completed \subseteq Episodes /\ \A h : Counted(h) \subseteq Completed
  BY DEF Completed, Counted
<1> QED BY <1>1, <1>2, FS_Subset

LEMMA VersionsWithin ==
    ASSUME AllInOrder
    PROVE  Within(AggregateByTaskVersion, Cardinality(AllTicks))
<1> DEFINE F == [e \in Completed |-> Span(e)]
           f == [e \in Completed |-> Duration(e)]
           K == [e \in Completed |-> recorded[e].version]
           D == {K[e] : e \in Completed}
<1>1. \A e \in Completed : IsFiniteSet(F[e]) /\ f[e] = Rounded(Cardinality(F[e]))
  BY TicksAre
<1>2. D = {recorded[e].version : e \in Completed}
  OBVIOUS
<1>3. ASSUME NEW v
      PROVE  LET mine == {e \in Completed : recorded[e].version = v}
             IN /\ mine = {e \in Completed : K[e] = v}
                /\ SumFunction([e \in mine |-> Duration(e)]) = SumOfGroup(f, Completed, K, v)
  <2> DEFINE mine == {e \in Completed : recorded[e].version = v}
  <2>1. mine = {e \in Completed : K[e] = v}
    OBVIOUS
  <2>2. [e \in mine |-> Duration(e)] = [e \in mine |-> f[e]]
    OBVIOUS
  <2> HIDE DEF mine, f, K
  <2> QED BY <2>1, <2>2 DEF SumOfGroup, mine
<1> DEFINE rows == AggregateByTaskVersion
<1>4. DOMAIN rows = D /\ \A v \in D : /\ rows[v].seconds = SumOfGroup(f, Completed, K, v)
                                     /\ rows[v].count = Cardinality(Group(Completed, K, v))
  <2> HIDE DEF D, f, K
  <2> QED BY <1>2, <1>3 DEF AggregateByTaskVersion, Group
<1>5. AllTicks = Together(F, Completed)
  BY DEF AllTicks, Together
<1>6. f = [e \in Completed |-> f[e]]
  OBVIOUS
<1>7. IsFiniteSet(Completed)
  BY EpisodesAreFinite
<1> HIDE DEF F, f, K
<1>8. AreRows(rows, Completed, F, f, K)
  BY <1>1, <1>4, <1>6 DEF AreRows
<1> HIDE DEF rows
<1>9. Within(rows, Cardinality(Together(F, Completed)))
  BY <1>7, <1>8, RowsWithin
<1> QED BY <1>5, <1>9 DEF rows

LEMMA HourWithin ==
    ASSUME AllInOrder, NEW h \in Hour
    PROVE  IsFiniteSet(AllTicksIn(h)) /\ Within(AggregateEpisodesForPeriod(h), Cardinality(AllTicksIn(h)))
<1> DEFINE S == Counted(h)
           F == [e \in S |-> TicksIn(e, h)]
           f == [e \in S |-> Seconds(e, h)]
           K == [e \in S |-> recorded[e].robot]
           D == {K[e] : e \in S}
<1>1. IsFiniteSet(S) /\ \A e \in S : IsFiniteSet(F[e]) /\ f[e] = Rounded(Cardinality(F[e]))
  BY TicksAre, EpisodesAreFinite
<1>2. D = {recorded[e].robot : e \in S}
  OBVIOUS
<1>3. ASSUME NEW r
      PROVE  LET mine == {e \in S : recorded[e].robot = r}
             IN /\ mine = {e \in S : K[e] = r}
                /\ SumFunction([e \in mine |-> Seconds(e, h)]) = SumOfGroup(f, S, K, r)
  <2> DEFINE mine == {e \in S : recorded[e].robot = r}
  <2>1. mine = {e \in S : K[e] = r}
    OBVIOUS
  <2>2. [e \in mine |-> Seconds(e, h)] = [e \in mine |-> f[e]]
    OBVIOUS
  <2> HIDE DEF mine, f, K
  <2> QED BY <2>1, <2>2 DEF SumOfGroup, mine
<1> DEFINE rows == AggregateEpisodesForPeriod(h)
<1>4. DOMAIN rows = D /\ \A r \in D : /\ rows[r].seconds = SumOfGroup(f, S, K, r)
                                     /\ rows[r].count = Cardinality(Group(S, K, r))
  <2> HIDE DEF D, f, K
  <2> QED BY <1>2, <1>3 DEF AggregateEpisodesForPeriod, Group
<1>5. AllTicksIn(h) = Together(F, S)
  BY DEF AllTicksIn, Together
<1>6. f = [e \in S |-> f[e]]
  OBVIOUS
<1> HIDE DEF F, f, K, S
<1>7. AreRows(rows, S, F, f, K)
  BY <1>1, <1>4, <1>6 DEF AreRows
<1> HIDE DEF rows
<1>8. IsFiniteSet(Together(F, S)) /\ Within(rows, Cardinality(Together(F, S)))
  BY <1>1, <1>7, RowsWithin
<1> QED BY <1>5, <1>8 DEF rows

\* Hours follow one another without a gap and have no tick in common.
LEMMA HourOfTick ==
    ASSUME NEW t \in Int, From(0) <= t, t < To(Hours - 1)
    PROVE  \E h \in Hour : t \in TicksOf(h)
<1> DEFINE h == t \div HourLength
<1>1. HourLength \in Nat \ {0} /\ Hours \in Nat \ {0} /\ t \in Nat /\ t < Hours * HourLength
  BY StatsAssumption DEF From, To
<1>2. h \in Nat /\ h * HourLength <= t /\ t < (h + 1) * HourLength
  BY <1>1
<1>3. h < Hours
  BY <1>1, <1>2
<1> HIDE DEF h
<1>4. h * HourLength \in Nat /\ (h + 1) * HourLength \in Nat
  BY <1>1, <1>2
<1>5. h \in Hour
  BY <1>1, <1>2, <1>3 DEF Hour
<1>6. t \in TicksOf(h)
  BY <1>1, <1>2, <1>4 DEF TicksOf, From, To
<1> QED BY <1>5, <1>6

LEMMA HoursAreApart ==
    ASSUME NEW g \in Hour, NEW h \in Hour, g # h
    PROVE  TicksOf(g) \cap TicksOf(h) = {}
<1>1. ASSUME NEW a \in Hour, NEW b \in Hour, a < b PROVE To(a) <= From(b)
  <2>1. a \in Nat /\ b \in Nat /\ HourLength \in Nat /\ a + 1 <= b
    BY <1>1, StatsAssumption DEF Hour
  <2> QED BY <2>1 DEF To, From
<1>2. To(g) <= From(h) \/ To(h) <= From(g)
  <2>1. g < h \/ h < g
    BY StatsAssumption DEF Hour
  <2> QED BY <1>1, <2>1
<1>3. From(g) \in Int /\ To(g) \in Int /\ From(h) \in Int /\ To(h) \in Int
  BY StatsAssumption DEF From, To, Hour
<1> QED BY <1>2, <1>3 DEF TicksOf

\* Hence they part the ticks of every episode that is in order.
LEMMA HoursPartTicks ==
    ASSUME AllInOrder
    PROVE  SumFunction([h \in Hour |-> Cardinality(AllTicksIn(h))]) = Cardinality(AllTicks)
<1> DEFINE F == [h \in Hour |-> AllTicksIn(h)]
           n == [h \in Hour |-> Cardinality(AllTicksIn(h))]
           U == UNION {F[h] : h \in Hour}
<1>1. IsFiniteSet(Hour)
  BY StatsAssumption, FS_Interval DEF Hour
<1>2. \A h \in Hour : IsFiniteSet(F[h]) /\ n[h] = Cardinality(F[h])
  BY HourWithin
<1>3. n \in [Hour -> Nat]
  <2>1. \A h \in Hour : Cardinality(AllTicksIn(h)) \in Nat
    BY HourWithin, FS_CardinalityType
  <2> QED BY <2>1
<1>4. ASSUME NEW h \in Hour, NEW p
      PROVE  p \in F[h] <=> \E e \in Completed : \E t \in Span(e) : t \in TicksOf(h) /\ p = <<e, t>>
  <2>1. ASSUME p \in F[h]
        PROVE  \E e \in Completed : \E t \in Span(e) : t \in TicksOf(h) /\ p = <<e, t>>
    <3>1. PICK e \in Counted(h) : p \in {e} \X TicksIn(e, h)
      BY <2>1 DEF AllTicksIn
    <3>2. PICK t \in TicksIn(e, h) : p = <<e, t>>
      BY <3>1
    <3>3. e \in Completed
      BY EpisodesAreFinite
    <3>4. t \in Span(e) /\ t \in TicksOf(h)
      BY <3>3, TicksAre
    <3> QED BY <3>2, <3>3, <3>4
  <2>2. ASSUME NEW e \in Completed, NEW t \in Span(e), t \in TicksOf(h), p = <<e, t>>
        PROVE  p \in F[h]
    <3>1. e \in Counted(h) /\ t \in TicksIn(e, h)
      BY <2>2, TicksAre
    <3> QED BY <2>2, <3>1 DEF AllTicksIn
  <2> QED BY <2>1, <2>2
<1> HIDE DEF F, n
<1>5. \A g, h \in Hour : g # h => F[g] \cap F[h] = {}
  BY <1>4, HoursAreApart
<1>6. U = AllTicks
  <2>1. ASSUME NEW h \in Hour, NEW p \in F[h] PROVE p \in AllTicks
    BY <1>4 DEF AllTicks
  <2>2. ASSUME NEW p \in AllTicks PROVE p \in U
    <3>1. PICK e \in Completed : p \in {e} \X Span(e)
      BY DEF AllTicks
    <3>2. PICK t \in Span(e) : p = <<e, t>>
      BY <3>1
    <3>3. t \in Int /\ From(0) <= t /\ t < To(Hours - 1)
      <4>1. /\ recorded[e].started \in Int /\ recorded[e].finished \in Int
            /\ From(0) <= recorded[e].started /\ recorded[e].finished <= To(Hours - 1)
        BY DEF AllInOrder, EpisodesTyped, InOrder
      <4>2. From(0) \in Int /\ To(Hours - 1) \in Int
        BY StatsAssumption DEF From, To
      <4> QED BY <4>1, <4>2 DEF Span
    <3>4. PICK h \in Hour : t \in TicksOf(h)
      BY <3>3, HourOfTick
    <3>5. p \in F[h]
      BY <1>4, <3>2, <3>4
    <3> QED BY <3>5
  <2> QED BY <2>1, <2>2
<1> HIDE DEF U
<1>7. SumFunction(n) = Cardinality(U)
  BY <1>1, <1>2, <1>3, <1>5, SumOfCardinalities DEF U
<1> QED BY <1>6, <1>7 DEF n

LEMMA ExactHoursAddUp ==
    ASSUME Typed, SettledIsExact
    PROVE  HoursAddUp
<1> SUFFICES ASSUME settled = Periods, \A e \in Completed : InOrder(e)
             PROVE  LET seconds == SumFunction([h \in Hour |-> SecondsIn(table[h])])
                        parts   == SumFunction([h \in Hour |-> CountIn(table[h])])
                        off     == 2 * (seconds - SecondsIn(table[Ever]))
                        slack   == parts + CountIn(table[Ever])
                    IN off <= slack /\ -off <= slack
  BY DEF HoursAddUp
<1> DEFINE sec == [h \in Hour |-> SecondsIn(table[h])]
           part == [h \in Hour |-> CountIn(table[h])]
           tick == [h \in Hour |-> Cardinality(AllTicksIn(h))]
           S == SecondsIn(table[Ever])
           C == CountIn(table[Ever])
           T == Cardinality(AllTicks)
<1>1. AllInOrder
  BY DEF AllInOrder, Typed
<1>2. Within(table[Ever], T)
  <2>1. table[Ever] = AggregateByTaskVersion
    BY PeriodsAre DEF SettledIsExact, SumsOf
  <2> QED BY <1>1, <2>1, VersionsWithin
<1>3. ASSUME NEW h \in Hour PROVE Within(table[h], tick[h])
  <2>1. table[h] = AggregateEpisodesForPeriod(h)
    BY PeriodsAre DEF SettledIsExact, SumsOf
  <2> QED BY <1>1, <2>1, HourWithin
<1>4. sec \in [Hour -> Int] /\ part \in [Hour -> Int] /\ tick \in [Hour -> Int]
  <2>1. \A h \in Hour : SecondsIn(table[h]) \in Int /\ CountIn(table[h]) \in Int /\ Cardinality(AllTicksIn(h)) \in Int
    BY <1>3 DEF Within
  <2> QED BY <2>1
<1>5. \A h \in Hour : /\ (2 * Second) * sec[h] <= 2 * tick[h] + Second * part[h]
                      /\ 2 * tick[h] <= (2 * Second) * sec[h] + Second * part[h]
  BY <1>3 DEF Within
<1>6. SumFunction(tick) = T
  BY <1>1, HoursPartTicks
<1>7. S \in Int /\ C \in Int /\ T \in Int
      /\ 2 * Second * S <= 2 * T + Second * C /\ 2 * T <= 2 * Second * S + Second * C
  BY <1>2 DEF Within
<1>8. IsFiniteSet(Hour) /\ Second \in Nat \ {0} /\ 2 * Second \in Int /\ Second \in Int
  BY StatsAssumption, FS_Interval DEF Hour
<1> HIDE DEF sec, part, tick, S, C, T
<1>9. /\ (2 * Second) * SumFunction(sec) <= 2 * SumFunction(tick) + Second * SumFunction(part)
      /\ 2 * SumFunction(tick) <= (2 * Second) * SumFunction(sec) + Second * SumFunction(part)
  <2> DEFINE w == 2 * Second
  <2>1. /\ w \in Int /\ 2 \in Int
        /\ Bounds(Hour, sec, tick, part, w, 2, Second) /\ Bounds(Hour, tick, sec, part, 2, w, Second)
    BY <1>5, <1>8 DEF Bounds
  <2> HIDE DEF w
  <2>2. w * SumFunction(sec) <= 2 * SumFunction(tick) + Second * SumFunction(part)
    BY <1>4, <1>8, <2>1, SumWithin
  <2>3. 2 * SumFunction(tick) <= w * SumFunction(sec) + Second * SumFunction(part)
    BY <1>4, <1>8, <2>1, SumWithin
  <2> QED BY <2>2, <2>3 DEF w
<1>10. SumFunction(sec) \in Int /\ SumFunction(part) \in Int
  BY <1>4, <1>8, SumHasPartialSums
<1>11. \A w \in Nat \ {0}, a, b \in Int : w * a <= w * b => a <= b
  OBVIOUS
<1>12. \A w \in Nat \ {0}, s, p, v, c, t \in Int :
          /\ (2 * w) * s <= 2 * t + w * p /\ 2 * t <= (2 * w) * s + w * p
          /\ 2 * w * v <= 2 * t + w * c /\ 2 * t <= 2 * w * v + w * c
          => /\ w * (2 * (s - v)) <= w * (p + c) /\ w * (-(2 * (s - v))) <= w * (p + c)
  OBVIOUS
<1>13. \A w \in Nat \ {0}, s, p, v, c, t \in Int :
          /\ (2 * w) * s <= 2 * t + w * p /\ 2 * t <= (2 * w) * s + w * p
          /\ 2 * w * v <= 2 * t + w * c /\ 2 * t <= 2 * w * v + w * c
          => /\ 2 * (s - v) <= p + c /\ -(2 * (s - v)) <= p + c
  <2> SUFFICES ASSUME NEW w \in Nat \ {0}, NEW s \in Int, NEW p \in Int, NEW v \in Int, NEW c \in Int,
                      NEW t \in Int,
                      /\ (2 * w) * s <= 2 * t + w * p /\ 2 * t <= (2 * w) * s + w * p
                      /\ 2 * w * v <= 2 * t + w * c /\ 2 * t <= 2 * w * v + w * c
               PROVE  2 * (s - v) <= p + c /\ -(2 * (s - v)) <= p + c
    OBVIOUS
  <2>1. w * (2 * (s - v)) <= w * (p + c) /\ w * (-(2 * (s - v))) <= w * (p + c)
    BY <1>12
  <2>2. 2 * (s - v) \in Int /\ -(2 * (s - v)) \in Int /\ p + c \in Int
    OBVIOUS
  <2> QED BY <1>11, <2>1, <2>2
<1>14. /\ 2 * (SumFunction(sec) - S) <= SumFunction(part) + C
       /\ -(2 * (SumFunction(sec) - S)) <= SumFunction(part) + C
  BY <1>6, <1>7, <1>8, <1>9, <1>10, <1>13
<1> QED BY <1>14 DEF sec, part, S, C

\* Once all hours and the versions are settled, the hours add up to what the
\* task versions add up to but for rounding: no episode is lost or counted twice
\* at a full hour (internal/gateway/episode_stats.go AggregateEpisodesForPeriod).
THEOREM HoursAddUpAlways == StatsSpec => []HoursAddUp
<1>1. StatsInv => HoursAddUp
  BY ExactHoursAddUp DEF StatsInv
<1> QED BY <1>1, InitStats, NextStats, PTL DEF StatsSpec
=============================================================================
