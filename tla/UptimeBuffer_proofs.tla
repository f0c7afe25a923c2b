------------------------- MODULE UptimeBuffer_proofs -------------------------
(***************************************************************************)
(* That no second of uptime goes astray between the buffer and the table,  *)
(* and that none counts twice, whatever fails and when.                    *)
(***************************************************************************)
EXTENDS UptimeBuffer, Sums

Batches == [seconds : Nat \ {0}, period : Hours]

UptimeTypeOK ==
    /\ now \in Times
    /\ exists \in [Robots -> BOOLEAN]
    /\ status \in [Robots -> Times \cup {None}] /\ heard \in [Robots -> Times \cup {None}]
    /\ period \in [Robots -> Hours \cup {None}]
    /\ delta \in [Robots -> Nat] /\ online \in [Robots -> Nat] /\ counted \in [Robots -> Nat]
    /\ again \in [Robots -> Nat] /\ lost \in [Robots -> Int] /\ twice \in [Robots -> Nat]
    /\ uptime \in [Robots -> [Hours -> Nat]]
    /\ pc \in [Clients -> {"idle", "read", "incr", "period", "save"}]
    /\ at \in [Clients -> Times] /\ since \in [Clients -> Nat]
    /\ flush \in {"idle", "get", "delete"} /\ todo \subseteq Robots
    /\ batch \in [Robots -> Batches \cup {None}]

\* Only what was read is deleted.
DeletesBatch == flush = "delete" => todo \subseteq Batched

UptimeInv == UptimeTypeOK /\ DeletesBatch /\ Accounted

-----------------------------------------------------------------------------
(* Whole seconds and hours.                                                *)

\* Every time is in an hour.
LEMMA HourOfTime == \A t \in Times : HourOf(t) \in Hours
<1> SUFFICES ASSUME NEW t \in Times PROVE t \div Hour \in 0..(MaxTime \div Hour)
  BY DEF HourOf, Hours
<1>1. t \in Nat /\ MaxTime \in Nat /\ t <= MaxTime /\ Hour \in Nat \ {0}
  BY UptimeAssumption DEF Times
<1> QED BY <1>1

\* The hours of a bounded clock are finitely many.
LEMMA HoursAreFinite == IsFiniteSet(Hours)
<1>1. MaxTime \div Hour \in Int
  BY UptimeAssumption
<1> QED BY <1>1, FS_Interval DEF Hours

\* Whole seconds never exceed the ticks they are of.
LEMMA WholeSeconds ==
    ASSUME NEW d \in Nat
    PROVE  d \div TicksPerSecond \in Nat /\ TicksPerSecond * (d \div TicksPerSecond) <= d
BY UptimeAssumption

\* What is booked of a robot is a number.
LEMMA BookedIsSum ==
    ASSUME UptimeTypeOK, NEW r \in Robots
    PROVE  Booked(r) \in Int
<1>1. uptime[r] \in [Hours -> Int]
  BY DEF UptimeTypeOK
<1> QED BY <1>1, HoursAreFinite, SumHasPartialSums DEF Booked

\* The upsert adds what was read to the robot's hours.
LEMMA UpsertAdds ==
    ASSUME UptimeTypeOK, NEW r \in Robots, FlushWrite
    PROVE  Booked(r)' = Booked(r) + (IF r \in Batched THEN batch[r].seconds ELSE 0)
<1> DEFINE u == uptime[r]
           d == [h \in Hours |-> IF r \in Batched /\ batch[r].period = h THEN batch[r].seconds ELSE 0]
<1>1. r \in Batched => batch[r].seconds \in Nat /\ batch[r].period \in Hours
  BY DEF UptimeTypeOK, Batched, Batches
<1>2. u \in [Hours -> Int] /\ d \in [Hours -> Int]
  BY <1>1 DEF UptimeTypeOK
<1>3. uptime'[r] = [h \in Hours |-> u[h] + d[h]]
  BY DEF FlushWrite, Upsert
<1>4. Booked(r) = SumFunction(u) /\ Booked(r)' = SumFunction([h \in Hours |-> u[h] + d[h]])
  BY <1>3 DEF Booked
<1>5. SumFunction(d) = IF r \in Batched THEN batch[r].seconds ELSE 0
  <2>1. CASE r \in Batched
    <3>1. /\ batch[r].period \in Hours /\ d[batch[r].period] = batch[r].seconds
          /\ \A h \in Hours : h # batch[r].period => d[h] = 0
      BY <1>1, <2>1
    <3> HIDE DEF d
    <3>2. SumFunction(d) = d[batch[r].period]
      BY <1>2, <3>1, HoursAreFinite, SumOfOne
    <3> QED BY <2>1, <3>1, <3>2
  <2>2. CASE r \notin Batched
    <3>1. 0 \in Hours
      BY UptimeAssumption DEF Hours
    <3>2. \A h \in Hours : d[h] = 0
      BY <2>2
    <3> HIDE DEF d
    <3>3. SumFunction(d) = d[0]
      BY <1>2, <3>1, <3>2, HoursAreFinite, SumOfOne
    <3> QED BY <2>2, <3>1, <3>2, <3>3
  <2> QED BY <2>1, <2>2
<1> HIDE DEF u, d
<1>6. SumFunction([h \in Hours |-> u[h] + d[h]]) = SumFunction(u) + SumFunction(d)
  BY <1>2, HoursAreFinite, SumOfTwo
<1> QED BY <1>4, <1>5, <1>6

-----------------------------------------------------------------------------
(* Types.                                                                  *)

\* The buffer, its batch and the table start empty.
LEMMA InitTyped == UptimeInit => UptimeTypeOK /\ DeletesBatch
<1>1. 0 \in Times
  BY UptimeAssumption DEF Times
<1> QED BY <1>1 DEF UptimeInit, UptimeTypeOK, DeletesBatch, Batched, NoBatch, Times

\* Every step keeps the types, and a flush deletes what it has booked.
LEMMA NextTyped ==
    ASSUME UptimeTypeOK, DeletesBatch, [UptimeNext]_vars
    PROVE  UptimeTypeOK' /\ DeletesBatch'
<1> USE UptimeAssumption DEF UptimeTypeOK, DeletesBatch, Batched, Times
<1>1. ASSUME Tick PROVE UptimeTypeOK' /\ DeletesBatch'
  BY <1>1 DEF Tick, redis, reports, flusher, history
<1>2. ASSUME NEW r \in Robots, StatusExpires(r) PROVE UptimeTypeOK' /\ DeletesBatch'
  BY <1>2 DEF StatusExpires, reports, flusher, history
<1>3. ASSUME NEW r \in Robots, DeleteRobot(r) PROVE UptimeTypeOK' /\ DeletesBatch'
  <2>1. delta' \in [Robots -> Nat] /\ period' \in [Robots -> Hours \cup {None}]
        /\ lost' \in [Robots -> Int] /\ exists' \in [Robots -> BOOLEAN]
    <3>1. exists' \in [Robots -> BOOLEAN]
      BY <1>3 DEF DeleteRobot
    <3>2. CASE /\ delta' = [delta EXCEPT ![r] = 0]
               /\ period' = [period EXCEPT ![r] = None]
               /\ lost' = [lost EXCEPT ![r] = @ + delta[r]]
      <4>1. lost[r] + delta[r] \in Int
        OBVIOUS
      <4> QED BY <3>1, <3>2, <4>1
    <3>3. CASE UNCHANGED <<delta, period, lost>>
      BY <3>1, <3>3
    <3> QED BY <1>3, <3>2, <3>3 DEF DeleteRobot
  <2>2. UNCHANGED <<now, status, uptime, pc, at, since, flush, todo, batch, heard, online,
                    counted, again, twice>>
    BY <1>3 DEF DeleteRobot, reports, flusher
  <2> QED BY <2>1, <2>2
<1>4. ASSUME NEW r \in Robots, FlushGet(r) PROVE UptimeTypeOK' /\ DeletesBatch'
  <2>1. delta[r] > 0 /\ period[r] # None =>
           [seconds |-> delta[r], period |-> period[r]] \in Batches
    BY DEF Batches
  <2>2. batch' \in [Robots -> Batches \cup {None}]
    BY <1>4, <2>1 DEF FlushGet
  <2> QED BY <1>4, <2>2 DEF FlushGet, redis, reports, history
<1>5. ASSUME NEW r \in Robots, FlushGetFails(r) PROVE UptimeTypeOK' /\ DeletesBatch'
  BY <1>5 DEF FlushGetFails, redis, reports, history
<1>6. ASSUME NEW r \in Robots, FlushDelete(r) PROVE UptimeTypeOK' /\ DeletesBatch'
  <2>1. batch[r].seconds \in Nat
    BY <1>6 DEF FlushDelete, Batches
  <2>2. batch' \in [Robots -> Batches \cup {None}] /\ flush' \in {"idle", "get", "delete"}
        /\ todo' = todo \ {r} /\ (flush' = "delete" => batch' = batch)
    BY <1>6 DEF FlushDelete, Deleted, NoBatch
  <2>3. delta' \in [Robots -> Nat] /\ period' \in [Robots -> Hours \cup {None}]
        /\ lost' \in [Robots -> Int]
    BY <1>6, <2>1 DEF FlushDelete
  <2>4. DeletesBatch'
    BY <1>6, <2>2 DEF FlushDelete
  <2> QED BY <1>6, <2>2, <2>3, <2>4 DEF FlushDelete, reports
<1>7. ASSUME NEW r \in Robots, FlushDeleteFails(r) PROVE UptimeTypeOK' /\ DeletesBatch'
  <2>1. batch[r].seconds \in Nat
    BY <1>7 DEF FlushDeleteFails, Batches
  <2>2. batch' \in [Robots -> Batches \cup {None}] /\ flush' \in {"idle", "get", "delete"}
        /\ todo' = todo \ {r} /\ (flush' = "delete" => batch' = batch)
    BY <1>7 DEF FlushDeleteFails, Deleted, NoBatch
  <2>3. twice' \in [Robots -> Nat]
    BY <1>7, <2>1 DEF FlushDeleteFails
  <2>4. DeletesBatch'
    BY <1>7, <2>2 DEF FlushDeleteFails
  <2> QED BY <1>7, <2>2, <2>3, <2>4 DEF FlushDeleteFails, reports, redis
<1>8. ASSUME NEW c \in Clients, Report(c) PROVE UptimeTypeOK' /\ DeletesBatch'
  <2>1. PICK t \in {now, at[c]} :
          /\ at' = [at EXCEPT ![c] = t]
          /\ heard' = [heard EXCEPT ![RobotOf[c]] = IF @ = None \/ t > @ THEN t ELSE @]
          /\ online' = [online EXCEPT ![RobotOf[c]] =
                IF heard[RobotOf[c]] = None \/ t - heard[RobotOf[c]] >= Threshold THEN @
                ELSE @ + (heard'[RobotOf[c]] - heard[RobotOf[c]])]
    BY <1>8 DEF Report
  <2>2. RobotOf[c] \in Robots /\ t \in Times
    OBVIOUS
  <2>3. at' \in [Clients -> Times] /\ heard' \in [Robots -> Times \cup {None}]
    BY <2>1, <2>2
  <2>4. online' \in [Robots -> Nat]
    <3>1. heard[RobotOf[c]] # None => heard'[RobotOf[c]] - heard[RobotOf[c]] \in Nat
      BY <2>1, <2>2
    <3> QED BY <2>1, <2>2, <3>1
  <2> QED BY <1>8, <2>3, <2>4 DEF Report, redis, flusher
<1>9. ASSUME NEW c \in Clients, ReadStatus(c) PROVE UptimeTypeOK' /\ DeletesBatch'
  <2>1. DeltaSince(status[RobotOf[c]], at[c]) \in Nat
    BY DEF DeltaSince
  <2>2. since' \in [Clients -> Nat]
    BY <1>9, <2>1, WholeSeconds DEF ReadStatus
  <2> QED BY <1>9, <2>2 DEF ReadStatus, redis, flusher, history
<1>10. ASSUME NEW c \in Clients, IncrBy(c) PROVE UptimeTypeOK' /\ DeletesBatch'
  BY <1>10 DEF IncrBy, flusher
<1>11. ASSUME NEW c \in Clients, SetPeriod(c) PROVE UptimeTypeOK' /\ DeletesBatch'
  BY <1>11, HourOfTime DEF SetPeriod, flusher, history
<1>12. ASSUME NEW c \in Clients, SaveStatus(c) PROVE UptimeTypeOK' /\ DeletesBatch'
  BY <1>12 DEF SaveStatus, flusher, history
<1>13. ASSUME NEW c \in Clients, RedisFails(c) PROVE UptimeTypeOK' /\ DeletesBatch'
  BY <1>13 DEF RedisFails, flusher, history, redis
<1>14. ASSUME NEW c \in Clients, ReportEnds(c) PROVE UptimeTypeOK' /\ DeletesBatch'
  BY <1>14 DEF ReportEnds, flusher, redis
<1>15. ASSUME FlushList PROVE UptimeTypeOK' /\ DeletesBatch'
  BY <1>15 DEF FlushList, redis, reports, history, NoBatch
<1>16. ASSUME FlushWrite PROVE UptimeTypeOK' /\ DeletesBatch'
  <2>1. \A r \in Robots, h \in Hours : Upsert(r, h) \in Nat
    BY DEF Upsert, Batches
  <2>2. uptime' \in [Robots -> [Hours -> Nat]]
    BY <1>16, <2>1 DEF FlushWrite
  <2> QED BY <1>16, <2>2 DEF FlushWrite, redis, reports, history
<1>17. ASSUME FlushGivesUp PROVE UptimeTypeOK' /\ DeletesBatch'
  BY <1>17 DEF FlushGivesUp, redis, reports, history, NoBatch
<1>18. ASSUME FlushCrash PROVE UptimeTypeOK' /\ DeletesBatch'
  <2>1. twice' \in [Robots -> Nat]
    BY <1>18 DEF FlushCrash, Batches
  <2> QED BY <1>18, <2>1 DEF FlushCrash, redis, reports, NoBatch
<1>19. ASSUME UNCHANGED vars PROVE UptimeTypeOK' /\ DeletesBatch'
  BY <1>19 DEF vars, redis, reports, flusher, history
<1> QED BY <1>1, <1>2, <1>3, <1>4, <1>5, <1>6, <1>7, <1>8, <1>9, <1>10, <1>11, <1>12,
           <1>13, <1>14, <1>15, <1>16, <1>17, <1>18, <1>19 DEF UptimeNext

-----------------------------------------------------------------------------

\* What a robot has in the buffer is not less than what the flush has read of
\* it, unless the robot was deleted meanwhile; then the flush does not write,
\* and one whose hours are written cannot be deleted.
ReadIsBuffered ==
    \A r \in Batched :
        /\ flush = "get" => r \notin todo /\ (exists[r] => batch[r].seconds <= delta[r])
        /\ flush = "delete" /\ r \in todo =>
               /\ batch[r].seconds <= delta[r]
               /\ \E h \in Hours : uptime[r][h] # 0

\* What has been added once, in ticks.
Ticks(r) == TicksPerSecond * (counted[r] - again[r])

\* The seconds a client's report has added, if its status is not saved yet.
Unsaved(c) == IF pc[c] \in {"period", "save"} THEN since[c] ELSE 0

\* A robot's reports come from one client: the latest is the client's last, the
\* saved status not later than that.  What was added is covered by the time
\* online; and so it is when the next report adds the time since the status.
ReportsInOrder ==
    \A c \in Clients : LET r == RobotOf[c] IN
        /\ at[c] <= now
        /\ IF heard[r] = None THEN pc[c] = "idle" /\ at[c] = 0 /\ status[r] = None
                              ELSE heard[r] = at[c]
        /\ status[r] # None => status[r] <= at[c]
        /\ pc[c] \in {"idle", "read"} => since[c] = 0

Covered ==
    \A c \in Clients : LET r == RobotOf[c] IN
        /\ Ticks(r) + (IF pc[c] = "incr" THEN TicksPerSecond * since[c] ELSE 0) <= online[r]
        /\ status[r] # None /\ at[c] - status[r] < Threshold =>
              Ticks(r) - TicksPerSecond * Unsaved(c) + (at[c] - status[r]) <= online[r]

\* A robot without reports has no uptime.
Silent == \A r \in Robots : (\A c \in Clients : RobotOf[c] # r) => counted[r] = 0 /\ again[r] = 0

LostIsCounted == \A r \in Robots : lost[r] >= 0

OnlineInv == ReadIsBuffered /\ ReportsInOrder /\ Covered /\ Silent /\ LostIsCounted

-----------------------------------------------------------------------------
(* Accounted.                                                              *)

\* Nothing is online, buffered or booked at first.
LEMMA InitAccounted == UptimeInit => Accounted
<1> SUFFICES ASSUME UptimeInit, NEW r \in Robots
             PROVE  Booked(r) + delta[r] - Pending(r) = counted[r] - lost[r] + twice[r]
  BY DEF Accounted
<1> DEFINE z == [h \in Hours |-> 0]
<1>1. 0 \in Hours /\ z \in [Hours -> Int] /\ \A h \in Hours : z[h] = 0
  BY UptimeAssumption DEF Hours
<1> HIDE DEF z
<1>2. SumFunction(z) = 0
  BY <1>1, HoursAreFinite, SumOfOne
<1>3. uptime[r] = z
  BY DEF UptimeInit, z
<1>4. Booked(r) = 0
  BY <1>2, <1>3 DEF Booked
<1>5. delta[r] = 0 /\ Pending(r) = 0 /\ counted[r] = 0 /\ lost[r] = 0 /\ twice[r] = 0
  BY DEF UptimeInit, Pending
<1> QED BY <1>4, <1>5

\* Every step keeps the account: what it books it has taken from the buffer.
LEMMA NextAccounted ==
    ASSUME UptimeInv, [UptimeNext]_vars
    PROVE  Accounted'
<1> SUFFICES ASSUME NEW q \in Robots
             PROVE  Booked(q)' + delta'[q] - Pending(q)' = counted'[q] - lost'[q] + twice'[q]
  BY DEF Accounted
<1>1. /\ Booked(q) + delta[q] - Pending(q) = counted[q] - lost[q] + twice[q]
      /\ UptimeTypeOK /\ DeletesBatch
  BY DEF UptimeInv, Accounted
<1>2. /\ Booked(q) \in Int /\ Pending(q) \in Int
      /\ batch[q] # None => batch[q].seconds \in Nat
      /\ delta \in [Robots -> Nat] /\ counted \in [Robots -> Nat] /\ lost \in [Robots -> Int]
      /\ twice \in [Robots -> Nat] /\ since \in [Clients -> Nat] /\ RobotOf \in [Clients -> Robots]
  <2>1. batch[q] # None => batch[q].seconds \in Nat
    BY <1>1 DEF UptimeTypeOK, Batches
  <2>2. Pending(q) \in Int
    BY <1>1, <2>1 DEF DeletesBatch, Pending, Batched
  <2> QED BY <1>1, <2>1, <2>2, BookedIsSum, UptimeAssumption DEF UptimeTypeOK
<1> DEFINE Goal == Booked(q)' + delta'[q] - Pending(q)' = counted'[q] - lost'[q] + twice'[q]
\* Most steps touch neither the table nor what it is compared with.
<1>3. ASSUME UNCHANGED <<uptime, delta, flush, todo, batch, counted, lost, twice>> PROVE Goal
  BY <1>1, <1>3 DEF Booked, Pending
<1>4. ASSUME NEW r \in Robots, DeleteRobot(r) PROVE Goal
  <2>1. Booked(q)' = Booked(q) /\ Pending(q)' = Pending(q) /\ counted' = counted /\ twice' = twice
    BY <1>4 DEF DeleteRobot, Booked, Pending, flusher
  <2>2. lost'[q] - lost[q] = delta[q] - delta'[q] /\ lost'[q] \in Int /\ delta'[q] \in Int
    BY <1>2, <1>4 DEF DeleteRobot
  <2> QED BY <1>1, <1>2, <2>1, <2>2
<1>5. ASSUME NEW r \in Robots, FlushGet(r) \/ FlushGetFails(r) PROVE Goal
  <2>1. Booked(q)' = Booked(q) /\ Pending(q)' = 0 /\ Pending(q) = 0
        /\ UNCHANGED <<delta, counted, lost, twice>>
    BY <1>5 DEF FlushGet, FlushGetFails, Booked, Pending, redis, history
  <2> QED BY <1>1, <1>2, <2>1
<1>6. ASSUME NEW r \in Robots, FlushDelete(r) PROVE Goal
  <2>1. Booked(q)' = Booked(q) /\ counted' = counted /\ twice' = twice
    BY <1>6 DEF FlushDelete, Booked
  <2>2. CASE q = r
    <3>1. Pending(q)' = 0 /\ Pending(q) = batch[q].seconds /\ batch[q].seconds \in Nat
      BY <1>1, <1>2, <1>6, <2>2 DEF FlushDelete, Deleted, Pending, DeletesBatch, Batched
    <3>2. delta'[q] = 0 /\ lost'[q] = lost[q] + (delta[q] - batch[q].seconds)
      BY <1>2, <1>6, <2>2 DEF FlushDelete
    <3> QED BY <1>1, <1>2, <2>1, <3>1, <3>2
  <2>3. CASE q # r
    <3>1. Pending(q)' = Pending(q)
      BY <1>6, <2>3 DEF FlushDelete, Deleted, Pending
    <3>2. delta'[q] = delta[q] /\ lost'[q] = lost[q]
      BY <1>2, <1>6, <2>3 DEF FlushDelete
    <3> QED BY <1>1, <1>2, <2>1, <3>1, <3>2
  <2> QED BY <2>2, <2>3
<1>7. ASSUME NEW r \in Robots, FlushDeleteFails(r) PROVE Goal
  <2>1. Booked(q)' = Booked(q) /\ UNCHANGED <<delta, counted, lost>>
    BY <1>7 DEF FlushDeleteFails, Booked, redis
  <2>2. CASE q = r
    <3>1. Pending(q)' = 0 /\ Pending(q) = batch[q].seconds /\ batch[q].seconds \in Nat
      BY <1>1, <1>2, <1>7, <2>2 DEF FlushDeleteFails, Deleted, Pending, DeletesBatch, Batched
    <3>2. twice'[q] = twice[q] + batch[q].seconds
      BY <1>2, <1>7, <2>2 DEF FlushDeleteFails
    <3> QED BY <1>1, <1>2, <2>1, <3>1, <3>2
  <2>3. CASE q # r
    <3>1. Pending(q)' = Pending(q)
      BY <1>7, <2>3 DEF FlushDeleteFails, Deleted, Pending
    <3>2. twice'[q] = twice[q]
      BY <1>2, <1>7, <2>3 DEF FlushDeleteFails
    <3> QED BY <1>1, <1>2, <2>1, <3>1, <3>2
  <2> QED BY <2>2, <2>3
<1>8. ASSUME NEW c \in Clients, IncrBy(c) PROVE Goal
  <2>1. Booked(q)' = Booked(q) /\ Pending(q)' = Pending(q) /\ UNCHANGED <<lost, twice>>
    BY <1>8 DEF IncrBy, Booked, Pending, flusher
  <2>2. delta'[q] - delta[q] = counted'[q] - counted[q] /\ delta'[q] \in Int /\ counted'[q] \in Int
    BY <1>2, <1>8 DEF IncrBy
  <2> QED BY <1>1, <1>2, <2>1, <2>2
<1>9. ASSUME FlushList \/ FlushGivesUp PROVE Goal
  <2>1. Booked(q)' = Booked(q) /\ Pending(q)' = 0 /\ Pending(q) = 0
        /\ UNCHANGED <<delta, counted, lost, twice>>
    BY <1>9 DEF FlushList, FlushGivesUp, Booked, Pending, redis, history
  <2> QED BY <1>1, <1>2, <2>1
<1>10. ASSUME FlushWrite PROVE Goal
  <2>1. Booked(q)' = Booked(q) + (IF q \in Batched THEN batch[q].seconds ELSE 0)
    BY <1>1, <1>10, UpsertAdds
  <2>2. Pending(q)' = (IF q \in Batched THEN batch[q].seconds ELSE 0) /\ Pending(q) = 0
    BY <1>10 DEF FlushWrite, Pending
  <2>3. (IF q \in Batched THEN batch[q].seconds ELSE 0) \in Nat
    BY <1>2 DEF Batched
  <2>4. UNCHANGED <<delta, counted, lost, twice>>
    BY <1>10 DEF FlushWrite, redis, history
  <2> QED BY <1>1, <1>2, <2>1, <2>2, <2>3, <2>4
<1>11. ASSUME FlushCrash PROVE Goal
  <2>1. Booked(q)' = Booked(q) /\ Pending(q)' = 0 /\ UNCHANGED <<delta, counted, lost>>
    BY <1>11 DEF FlushCrash, Booked, Pending, redis
  <2>2. twice'[q] = twice[q] + Pending(q)
    BY <1>11 DEF FlushCrash, Pending
  <2> QED BY <1>1, <1>2, <2>1, <2>2
<1>12. ASSUME NEW c \in Clients,
              Report(c) \/ ReadStatus(c) \/ SetPeriod(c) \/ SaveStatus(c) \/ RedisFails(c) \/ ReportEnds(c)
       PROVE  UNCHANGED <<uptime, delta, flush, todo, batch, counted, lost, twice>>
  BY <1>12 DEF Report, ReadStatus, SetPeriod, SaveStatus, RedisFails, ReportEnds, redis, flusher, history
<1>13. ASSUME NEW r \in Robots, StatusExpires(r)
       PROVE  UNCHANGED <<uptime, delta, flush, todo, batch, counted, lost, twice>>
  BY <1>13 DEF StatusExpires, flusher, history
<1>14. ASSUME Tick \/ UNCHANGED vars
       PROVE  UNCHANGED <<uptime, delta, flush, todo, batch, counted, lost, twice>>
  BY <1>14 DEF Tick, vars, redis, flusher, history
<1> QED
  <2> HIDE DEF Goal
  <2>1. Goal
    BY <1>3, <1>4, <1>5, <1>6, <1>7, <1>8, <1>9, <1>10, <1>11, <1>12, <1>13, <1>14 DEF UptimeNext
  <2> QED BY <2>1 DEF Goal

\* No second that a report added goes astray or counts twice, but for those
\* of a flush that fails or that others overtake (usecase/robot_status_metrics.go
\* flush, usecase/robot_device.go UpdateRobotStatus).
THEOREM AccountedAlways == UptimeSpec => []Accounted
<1>1. UptimeInit => UptimeInv
  BY InitTyped, InitAccounted DEF UptimeInv
<1>2. UptimeInv /\ [UptimeNext]_vars => UptimeInv'
  BY NextTyped, NextAccounted DEF UptimeInv
<1>3. UptimeInv => Accounted
  BY DEF UptimeInv
<1> QED BY <1>1, <1>2, <1>3, PTL DEF UptimeSpec

-----------------------------------------------------------------------------
(* OnlineOnlyWhileReporting.                                               *)

\* The reports of a robot come from one client.
OneClientOfEach == \A c, d \in Clients : RobotOf[c] = RobotOf[d] => c = d

\* Nobody has reported at first.
LEMMA InitOnline == UptimeInit => OnlineInv
<1> SUFFICES ASSUME UptimeInit PROVE OnlineInv
  OBVIOUS
<1>1. UptimeTypeOK
  BY InitTyped
<1>2. ReadIsBuffered /\ Silent /\ LostIsCounted
  BY DEF UptimeInit, ReadIsBuffered, Silent, LostIsCounted, Batched, NoBatch
<1>3. RobotOf \in [Clients -> Robots] /\ TicksPerSecond \in Nat
  BY UptimeAssumption
<1>4. ReportsInOrder
  BY <1>3 DEF UptimeInit, ReportsInOrder
<1>5. Covered
  <2> SUFFICES ASSUME NEW c \in Clients
               PROVE  LET r == RobotOf[c] IN
                      /\ Ticks(r) + (IF pc[c] = "incr" THEN TicksPerSecond * since[c] ELSE 0) <= online[r]
                      /\ status[r] # None /\ at[c] - status[r] < Threshold =>
                            Ticks(r) - TicksPerSecond * Unsaved(c) + (at[c] - status[r]) <= online[r]
    BY DEF Covered
  <2>1. RobotOf[c] \in Robots /\ status[RobotOf[c]] = None /\ pc[c] = "idle"
    BY <1>3 DEF UptimeInit
  <2>2. Ticks(RobotOf[c]) = 0 /\ online[RobotOf[c]] = 0
    BY <1>3, <2>1 DEF UptimeInit, Ticks
  <2> QED BY <2>1, <2>2
<1> QED BY <1>2, <1>4, <1>5 DEF OnlineInv

\* What the flush has read is in the buffer still.
LEMMA NextBuffered ==
    ASSUME UptimeTypeOK, DeletesBatch, ReadIsBuffered, [UptimeNext]_vars
    PROVE  ReadIsBuffered'
<1> SUFFICES ASSUME NEW q \in Batched'
             PROVE  /\ flush' = "get" => q \notin todo' /\ (exists'[q] => batch'[q].seconds <= delta'[q])
                    /\ flush' = "delete" /\ q \in todo' =>
                           /\ batch'[q].seconds <= delta'[q]
                           /\ \E h \in Hours : uptime'[q][h] # 0
  BY DEF ReadIsBuffered
<1>1. /\ q \in Robots /\ batch'[q] # None
      /\ delta \in [Robots -> Nat] /\ uptime \in [Robots -> [Hours -> Nat]]
      /\ exists \in [Robots -> BOOLEAN] /\ since \in [Clients -> Nat] /\ RobotOf \in [Clients -> Robots]
      /\ batch \in [Robots -> Batches \cup {None}]
  BY UptimeAssumption DEF Batched, UptimeTypeOK
<1>2. batch[q] # None => /\ q \in Batched
                         /\ batch[q].seconds \in Nat \ {0} /\ batch[q].period \in Hours
                         /\ flush = "get" => q \notin todo /\ (exists[q] => batch[q].seconds <= delta[q])
                         /\ flush = "delete" /\ q \in todo =>
                               /\ batch[q].seconds <= delta[q]
                               /\ \E h \in Hours : uptime[q][h] # 0
  BY <1>1 DEF Batched, ReadIsBuffered, Batches
<1> DEFINE Goal == /\ flush' = "get" => q \notin todo' /\ (exists'[q] => batch'[q].seconds <= delta'[q])
                   /\ flush' = "delete" /\ q \in todo' =>
                         /\ batch'[q].seconds <= delta'[q]
                         /\ \E h \in Hours : uptime'[q][h] # 0
<1>3. ASSUME UNCHANGED <<flush, todo, batch, exists, delta, uptime>> PROVE Goal
  BY <1>1, <1>2, <1>3
<1>4. ASSUME NEW r \in Robots, DeleteRobot(r) PROVE Goal
  <2>1. UNCHANGED <<flush, todo, batch, uptime>> /\ \A h \in Hours : uptime[r][h] = 0
    BY <1>4 DEF DeleteRobot, flusher
  <2>2. CASE q = r
    <3>1. ~exists'[q] /\ ~ \E h \in Hours : uptime[q][h] # 0
      BY <1>1, <1>4, <2>1, <2>2 DEF DeleteRobot
    <3> QED BY <1>1, <1>2, <2>1, <3>1
  <2>3. CASE q # r
    <3>1. exists'[q] = exists[q] /\ delta'[q] = delta[q]
      BY <1>1, <1>4, <2>3 DEF DeleteRobot
    <3> QED BY <1>1, <1>2, <2>1, <3>1
  <2> QED BY <2>2, <2>3
<1>5. ASSUME NEW r \in Robots, FlushGet(r) PROVE Goal
  <2>1. flush = "get" /\ flush' = "get" /\ todo' = todo \ {r} /\ UNCHANGED <<exists, delta>>
    BY <1>5 DEF FlushGet, redis
  <2>2. CASE q = r
    <3>1. batch'[q] = IF delta[q] > 0 /\ period[q] # None
                      THEN [seconds |-> delta[q], period |-> period[q]] ELSE None
      BY <1>1, <1>5, <2>2 DEF FlushGet
    <3>2. batch'[q] = [seconds |-> delta[q], period |-> period[q]]
      BY <1>1, <3>1
    <3> QED BY <1>1, <2>1, <2>2, <3>2
  <2>3. CASE q # r
    <3>1. batch'[q] = batch[q]
      BY <1>1, <1>5, <2>3 DEF FlushGet
    <3> QED BY <1>1, <1>2, <2>1, <3>1
  <2> QED BY <2>2, <2>3
<1>6. ASSUME NEW r \in Robots, FlushGetFails(r) PROVE Goal
  BY <1>1, <1>2, <1>6 DEF FlushGetFails, redis
<1>7. ASSUME NEW r \in Robots, FlushDelete(r) \/ FlushDeleteFails(r) PROVE Goal
  <2>1. flush = "delete" /\ Deleted(r) /\ uptime' = uptime
    BY <1>7 DEF FlushDelete, FlushDeleteFails, redis
  <2>2. flush' # "idle" => flush' = flush /\ batch' = batch
    BY <2>1 DEF Deleted
  <2>3. todo' = todo \ {r} /\ flush' # "get"
    BY <2>1 DEF Deleted
  <2>4. q # r => delta'[q] = delta[q]
    BY <1>1, <1>7 DEF FlushDelete, FlushDeleteFails, redis
  <2> QED BY <1>1, <1>2, <2>1, <2>2, <2>3, <2>4
<1>8. ASSUME NEW c \in Clients, IncrBy(c) PROVE Goal
  <2>1. UNCHANGED <<flush, todo, batch, exists, uptime>> /\ delta'[q] >= delta[q] /\ delta'[q] \in Int
    BY <1>1, <1>8 DEF IncrBy, flusher
  <2> QED BY <1>1, <1>2, <2>1
<1>9. ASSUME FlushList PROVE Goal
  BY <1>1, <1>9 DEF FlushList, NoBatch
<1>10. ASSUME FlushWrite PROVE Goal
  <2>1. /\ flush = "get" /\ flush' = "delete" /\ batch' = batch /\ delta' = delta /\ exists[q]
        /\ uptime' = [r \in Robots |-> [h \in Hours |-> Upsert(r, h)]]
    BY <1>1, <1>2, <1>10 DEF FlushWrite, redis
  <2>2. uptime'[q][batch[q].period] = uptime[q][batch[q].period] + batch[q].seconds
    BY <1>1, <1>2, <2>1 DEF Upsert
  <2>3. uptime'[q][batch[q].period] # 0
    BY <1>1, <1>2, <2>1, <2>2
  <2> QED BY <1>1, <1>2, <2>1, <2>3
<1>11. ASSUME FlushGivesUp \/ FlushCrash PROVE Goal
  BY <1>11 DEF FlushGivesUp, FlushCrash
<1>12. ASSUME NEW c \in Clients,
              Report(c) \/ ReadStatus(c) \/ SetPeriod(c) \/ SaveStatus(c) \/ RedisFails(c) \/ ReportEnds(c)
       PROVE  UNCHANGED <<flush, todo, batch, exists, delta, uptime>>
  BY <1>12 DEF Report, ReadStatus, SetPeriod, SaveStatus, RedisFails, ReportEnds, redis, flusher
<1>13. ASSUME NEW r \in Robots, StatusExpires(r)
       PROVE  UNCHANGED <<flush, todo, batch, exists, delta, uptime>>
  BY <1>13 DEF StatusExpires, flusher
<1>14. ASSUME Tick \/ UNCHANGED vars
       PROVE  UNCHANGED <<flush, todo, batch, exists, delta, uptime>>
  BY <1>14 DEF Tick, vars, redis, flusher
<1> QED
  <2> HIDE DEF Goal
  <2>1. Goal
    BY <1>3, <1>4, <1>5, <1>6, <1>7, <1>8, <1>9, <1>10, <1>11, <1>12, <1>13, <1>14 DEF UptimeNext
  <2> QED BY <2>1 DEF Goal

\* Nothing is lost unread that was not in the buffer.
LEMMA NextLost ==
    ASSUME UptimeTypeOK, DeletesBatch, ReadIsBuffered, LostIsCounted, [UptimeNext]_vars
    PROVE  LostIsCounted'
<1> SUFFICES ASSUME NEW q \in Robots PROVE lost'[q] >= 0
  BY DEF LostIsCounted
<1>1. /\ lost[q] >= 0 /\ lost \in [Robots -> Int] /\ delta \in [Robots -> Nat]
      /\ batch \in [Robots -> Batches \cup {None}]
  BY DEF UptimeTypeOK, LostIsCounted
<1>2. ASSUME NEW r \in Robots, DeleteRobot(r) PROVE lost'[q] >= 0
  BY <1>1, <1>2 DEF DeleteRobot
<1>3. ASSUME NEW r \in Robots, FlushDelete(r) PROVE lost'[q] >= 0
  <2>1. r \in Batched /\ batch[r].seconds <= delta[r] /\ batch[r].seconds \in Nat
    BY <1>1, <1>3 DEF FlushDelete, DeletesBatch, ReadIsBuffered, Batched, Batches
  <2> QED BY <1>1, <1>3, <2>1 DEF FlushDelete
<1>4. ASSUME NEW r \in Robots,
             StatusExpires(r) \/ FlushGet(r) \/ FlushGetFails(r) \/ FlushDeleteFails(r)
      PROVE  lost' = lost
  BY <1>4 DEF StatusExpires, FlushGet, FlushGetFails, FlushDeleteFails, history
<1>5. ASSUME NEW c \in Clients,
             \/ Report(c) \/ ReadStatus(c) \/ IncrBy(c) \/ SetPeriod(c)
             \/ SaveStatus(c) \/ RedisFails(c) \/ ReportEnds(c)
      PROVE  lost' = lost
  BY <1>5 DEF Report, ReadStatus, IncrBy, SetPeriod, SaveStatus, RedisFails, ReportEnds, history
<1>6. ASSUME Tick \/ FlushList \/ FlushWrite \/ FlushGivesUp \/ FlushCrash \/ UNCHANGED vars
      PROVE  lost' = lost
  BY <1>6 DEF Tick, FlushList, FlushWrite, FlushGivesUp, FlushCrash, vars, history
<1> QED BY <1>1, <1>2, <1>3, <1>4, <1>5, <1>6 DEF UptimeNext

\* The time since the last report is that time, or nothing.
LEMMA SinceIsFloor ==
    ASSUME UptimeTypeOK, ReportsInOrder, NEW c \in Clients, status[RobotOf[c]] # None
    PROVE  LET d == DeltaSince(status[RobotOf[c]], at[c]) IN
           /\ d \in Nat
           /\ d # 0 => d = at[c] - status[RobotOf[c]] /\ d < Threshold
<1>1. status[RobotOf[c]] \in Nat /\ at[c] \in Nat /\ status[RobotOf[c]] <= at[c]
  BY UptimeAssumption DEF UptimeTypeOK, ReportsInOrder, Times
<1> QED BY <1>1, UptimeAssumption DEF DeltaSince

\* The order of a robot's reports is kept.
LEMMA NextInOrder ==
    ASSUME OneClientOfEach, UptimeTypeOK, ReportsInOrder, [UptimeNext]_vars
    PROVE  ReportsInOrder'
<1> SUFFICES ASSUME NEW c \in Clients
             PROVE  LET r == RobotOf[c] IN
                    /\ at'[c] <= now'
                    /\ IF heard'[r] = None THEN pc'[c] = "idle" /\ at'[c] = 0 /\ status'[r] = None
                                           ELSE heard'[r] = at'[c]
                    /\ status'[r] # None => status'[r] <= at'[c]
                    /\ pc'[c] \in {"idle", "read"} => since'[c] = 0
  BY DEF ReportsInOrder
<1> DEFINE r == RobotOf[c]
           Goal == /\ at'[c] <= now'
                   /\ IF heard'[r] = None THEN pc'[c] = "idle" /\ at'[c] = 0 /\ status'[r] = None
                                          ELSE heard'[r] = at'[c]
                   /\ status'[r] # None => status'[r] <= at'[c]
                   /\ pc'[c] \in {"idle", "read"} => since'[c] = 0
<1>1. /\ at[c] <= now
      /\ IF heard[r] = None THEN pc[c] = "idle" /\ at[c] = 0 /\ status[r] = None
                            ELSE heard[r] = at[c]
      /\ status[r] # None => status[r] <= at[c]
      /\ pc[c] \in {"idle", "read"} => since[c] = 0
  BY DEF ReportsInOrder
<1>2. /\ r \in Robots /\ at[c] \in Nat /\ now \in Nat /\ None \notin Nat
      /\ at \in [Clients -> Times] /\ now \in Times
      /\ heard[r] # None => heard[r] \in Nat
      /\ status[r] # None => status[r] \in Nat
      /\ heard \in [Robots -> Times \cup {None}] /\ status \in [Robots -> Times \cup {None}]
      /\ pc \in [Clients -> {"idle", "read", "incr", "period", "save"}] /\ since \in [Clients -> Nat]
  BY UptimeAssumption DEF UptimeTypeOK, Times
<1>3. \A d \in Clients : d # c => RobotOf[d] # r
  BY DEF OneClientOfEach
<1> HIDE DEF r
<1>4. ASSUME UNCHANGED <<now, at, heard, status, pc, since>> PROVE Goal
  BY <1>1, <1>4
<1>5. ASSUME Tick PROVE Goal
  <2>1. now' = now + 1 /\ UNCHANGED <<at, heard, status, pc, since>>
    BY <1>5 DEF Tick, redis, reports, history
  <2> QED BY <1>1, <1>2, <2>1
<1>6. ASSUME NEW q \in Robots, StatusExpires(q) PROVE Goal
  <2>1. UNCHANGED <<now, at, heard, pc, since>> /\ (status'[r] = status[r] \/ status'[r] = None)
    BY <1>2, <1>6 DEF StatusExpires, reports, history
  <2> QED BY <1>1, <2>1
\* A step of a client is one of this robot or of another.
<1>7. ASSUME NEW d \in Clients, d # c,
             \/ Report(d) \/ ReadStatus(d) \/ IncrBy(d) \/ SetPeriod(d)
             \/ SaveStatus(d) \/ RedisFails(d) \/ ReportEnds(d)
      PROVE  Goal
  <2>1. RobotOf[d] # r
    BY <1>3, <1>7
  <2>2. now' = now /\ at'[c] = at[c] /\ pc'[c] = pc[c] /\ since'[c] = since[c]
        /\ heard'[r] = heard[r] /\ status'[r] = status[r]
    BY <1>2, <1>7, <2>1 DEF Report, ReadStatus, IncrBy, SetPeriod, SaveStatus, RedisFails, ReportEnds,
                            redis, history
  <2> QED BY <1>1, <2>2
<1>8. ASSUME Report(c) PROVE Goal
  <2>1. pc[c] = "idle" /\ pc'[c] = "read" /\ UNCHANGED <<now, status, since>>
    BY <1>2, <1>8 DEF Report, redis
  <2>2. PICK t \in {now, at[c]} :
          /\ at' = [at EXCEPT ![c] = t]
          /\ heard' = [heard EXCEPT ![r] = IF @ = None \/ t > @ THEN t ELSE @]
    BY <1>8 DEF Report, r
  <2>3. at'[c] = t /\ heard'[r] = t /\ t \in Nat /\ at[c] <= t /\ t <= now
    BY <1>1, <1>2, <2>2
  <2>4. heard'[r] # None
    BY <1>2, <2>3
  <2> QED BY <1>1, <1>2, <2>1, <2>3, <2>4
<1>9. ASSUME ReadStatus(c) PROVE Goal
  <2>1. pc[c] = "read" /\ pc'[c] \in {"save", "incr"} /\ UNCHANGED <<now, at, heard, status>>
    BY <1>2, <1>9 DEF ReadStatus, redis, history
  <2> QED BY <1>1, <2>1
<1>10. ASSUME IncrBy(c) \/ SetPeriod(c) \/ RedisFails(c) PROVE Goal
  <2>1. pc[c] # "idle" /\ pc'[c] \in {"period", "save"} /\ UNCHANGED <<now, at, heard, status>>
    BY <1>2, <1>10 DEF IncrBy, SetPeriod, RedisFails, redis, history
  <2> QED BY <1>1, <2>1
<1>11. ASSUME SaveStatus(c) PROVE Goal
  <2>1. /\ pc[c] = "save" /\ pc'[c] = "idle" /\ since'[c] = 0 /\ UNCHANGED <<now, at, heard>>
        /\ status'[r] = at[c]
    BY <1>2, <1>11 DEF SaveStatus, history, r
  <2> QED BY <1>1, <1>2, <2>1
<1>12. ASSUME ReportEnds(c) PROVE Goal
  <2>1. pc[c] # "idle" /\ pc'[c] = "idle" /\ since'[c] = 0 /\ UNCHANGED <<now, at, heard, status>>
    BY <1>2, <1>12 DEF ReportEnds, redis
  <2> QED BY <1>1, <2>1
<1>13. ASSUME NEW q \in Robots,
              DeleteRobot(q) \/ FlushGet(q) \/ FlushGetFails(q) \/ FlushDelete(q) \/ FlushDeleteFails(q)
       PROVE  UNCHANGED <<now, at, heard, status, pc, since>>
  BY <1>13 DEF DeleteRobot, FlushGet, FlushGetFails, FlushDelete, FlushDeleteFails, redis, reports, history
<1>14. ASSUME FlushList \/ FlushWrite \/ FlushGivesUp \/ FlushCrash \/ UNCHANGED vars
       PROVE  UNCHANGED <<now, at, heard, status, pc, since>>
  BY <1>14 DEF FlushList, FlushWrite, FlushGivesUp, FlushCrash, vars, redis, reports, history
<1> QED
  <2> HIDE DEF Goal
  <2>1. Goal
    BY <1>4, <1>5, <1>6, <1>7, <1>8, <1>9, <1>10, <1>11, <1>12, <1>13, <1>14 DEF UptimeNext
  <2> QED BY <2>1 DEF Goal, r

\* The time online goes on covering what is added.
LEMMA NextCovered ==
    ASSUME OneClientOfEach, UptimeTypeOK, ReportsInOrder, Covered, [UptimeNext]_vars
    PROVE  Covered'
<1> DEFINE Added(c) == IF pc[c] = "incr" THEN TicksPerSecond * since[c] ELSE 0
           Undone(c) == TicksPerSecond * Unsaved(c)
<1> SUFFICES ASSUME NEW c \in Clients
             PROVE  /\ Ticks(RobotOf[c])' + Added(c)' <= online'[RobotOf[c]]
                    /\ status'[RobotOf[c]] # None /\ at'[c] - status'[RobotOf[c]] < Threshold =>
                          Ticks(RobotOf[c])' - Undone(c)' + (at'[c] - status'[RobotOf[c]])
                             <= online'[RobotOf[c]]
  BY DEF Covered
<1> DEFINE r == RobotOf[c]
           Goal == /\ Ticks(r)' + Added(c)' <= online'[r]
                   /\ status'[r] # None /\ at'[c] - status'[r] < Threshold =>
                         Ticks(r)' - Undone(c)' + (at'[c] - status'[r]) <= online'[r]
<1>1. /\ Ticks(r) + Added(c) <= online[r]
      /\ status[r] # None /\ at[c] - status[r] < Threshold =>
            Ticks(r) - Undone(c) + (at[c] - status[r]) <= online[r]
  BY DEF Covered
<1>2. /\ r \in Robots /\ at[c] \in Nat /\ None \notin Nat /\ Threshold \in Nat
      /\ online[r] \in Nat /\ counted[r] \in Nat /\ again[r] \in Nat /\ since[c] \in Nat
      /\ TicksPerSecond \in Nat
      /\ heard[r] # None => heard[r] \in Nat
      /\ status[r] # None => status[r] \in Nat
  BY UptimeAssumption DEF UptimeTypeOK, Times
<1>3. Ticks(r) \in Int /\ Added(c) \in Nat /\ Undone(c) \in Nat
  BY <1>2 DEF Ticks, Unsaved
<1>4. /\ online \in [Robots -> Nat] /\ counted \in [Robots -> Nat] /\ again \in [Robots -> Nat]
      /\ heard \in [Robots -> Times \cup {None}] /\ status \in [Robots -> Times \cup {None}]
      /\ at \in [Clients -> Times] /\ since \in [Clients -> Nat]
      /\ pc \in [Clients -> {"idle", "read", "incr", "period", "save"}]
  BY DEF UptimeTypeOK
<1>5. /\ IF heard[r] = None THEN pc[c] = "idle" /\ at[c] = 0 /\ status[r] = None
                            ELSE heard[r] = at[c]
      /\ status[r] # None => status[r] <= at[c]
      /\ pc[c] \in {"idle", "read"} => since[c] = 0
      /\ at[c] <= now /\ now \in Nat
  BY <1>2 DEF ReportsInOrder, UptimeTypeOK, Times
<1>6. \A d \in Clients : d # c => RobotOf[d] # r
  BY DEF OneClientOfEach
<1>7. ASSUME counted'[r] = counted[r], again'[r] = again[r] PROVE Ticks(r)' = Ticks(r)
  BY <1>7 DEF Ticks
<1>8. ASSUME pc'[c] = pc[c], since'[c] = since[c] PROVE Added(c)' = Added(c) /\ Undone(c)' = Undone(c)
  BY <1>8 DEF Unsaved
<1>9. ASSUME UNCHANGED <<at, status, online, counted, again, pc, since>> PROVE Goal
  <2>1. Ticks(r)' = Ticks(r) /\ Added(c)' = Added(c) /\ Undone(c)' = Undone(c)
    BY <1>7, <1>8, <1>9
  <2> HIDE DEF r, Added, Undone
  <2> QED BY <1>1, <1>9, <2>1 DEF r
<1>10. ASSUME NEW q \in Robots, StatusExpires(q) PROVE Goal
  <2>1. UNCHANGED <<at, online, counted, again, pc, since>>
        /\ (status'[r] = status[r] \/ status'[r] = None)
    BY <1>2, <1>4, <1>10 DEF StatusExpires, reports, history
  <2>2. Ticks(r)' = Ticks(r) /\ Added(c)' = Added(c) /\ Undone(c)' = Undone(c)
    BY <1>7, <1>8, <2>1
  <2> HIDE DEF r, Added, Undone
  <2> QED BY <1>1, <2>1, <2>2
<1>11. ASSUME NEW d \in Clients, d # c,
              \/ Report(d) \/ ReadStatus(d) \/ IncrBy(d) \/ SetPeriod(d)
              \/ SaveStatus(d) \/ RedisFails(d) \/ ReportEnds(d)
       PROVE  Goal
  <2>1. RobotOf[d] # r
    BY <1>6, <1>11
  <2>2. at'[c] = at[c] /\ pc'[c] = pc[c] /\ since'[c] = since[c]
        /\ status'[r] = status[r] /\ online'[r] = online[r]
        /\ counted'[r] = counted[r] /\ again'[r] = again[r]
    <3> HIDE DEF r
    <3> QED BY <1>2, <1>4, <1>11, <2>1
        DEF Report, ReadStatus, IncrBy, SetPeriod, SaveStatus, RedisFails, ReportEnds, redis, history
  <2>3. Ticks(r)' = Ticks(r) /\ Added(c)' = Added(c) /\ Undone(c)' = Undone(c)
    BY <1>7, <1>8, <2>2
  <2> HIDE DEF r, Added, Undone
  <2> QED BY <1>1, <2>2, <2>3
<1>12. ASSUME Report(c) PROVE Goal
  <2>1. pc[c] = "idle" /\ pc'[c] = "read" /\ UNCHANGED <<status, since, counted, again>>
    BY <1>4, <1>12 DEF Report, redis
  <2>2. Ticks(r)' = Ticks(r) /\ Added(c)' = 0 /\ Undone(c)' = 0 /\ Added(c) = 0 /\ Undone(c) = 0
    BY <1>2, <1>7, <2>1 DEF Unsaved
  <2>3. PICK t \in {now, at[c]} :
          /\ at' = [at EXCEPT ![c] = t]
          /\ heard' = [heard EXCEPT ![r] = IF @ = None \/ t > @ THEN t ELSE @]
          /\ online' = [online EXCEPT ![r] =
                IF heard[r] = None \/ t - heard[r] >= Threshold THEN @ ELSE @ + (heard'[r] - heard[r])]
    BY <1>12 DEF Report
  <2> HIDE DEF r, Added, Undone
  <2>4. at'[c] = t /\ t \in Nat /\ at[c] <= t
    BY <1>2, <1>4, <1>5, <2>3
  <2>5. CASE heard[r] = None
    <3>1. online'[r] = online[r] /\ status'[r] = None
      BY <1>2, <1>4, <1>5, <2>1, <2>3, <2>5
    <3> QED BY <1>1, <2>2, <3>1
  <2>6. CASE heard[r] # None
    <3>1. heard'[r] = t /\ heard[r] = at[c]
      BY <1>2, <1>4, <1>5, <2>3, <2>4, <2>6
    <3>2. online'[r] = online[r] + (IF t - at[c] >= Threshold THEN 0 ELSE t - at[c])
      BY <1>2, <1>4, <2>3, <2>6, <3>1
    <3>3. online'[r] >= online[r] /\ online'[r] \in Int
      BY <1>2, <2>4, <3>2
    <3>4. Ticks(r)' + Added(c)' <= online'[r]
      BY <1>1, <1>2, <1>3, <2>2, <3>3
    <3>5. ASSUME status'[r] # None, t - status'[r] < Threshold
          PROVE  Ticks(r)' + (t - status'[r]) <= online'[r]
      <4>1. status[r] # None /\ status[r] \in Nat /\ status'[r] = status[r] /\ status[r] <= at[c]
        BY <1>2, <1>5, <2>1, <3>5
      <4>2. at[c] - status[r] < Threshold /\ t - at[c] < Threshold
        BY <1>2, <2>4, <3>5, <4>1
      <4>3. online'[r] = online[r] + (t - at[c])
        BY <1>2, <2>4, <3>2, <4>2
      <4>4. Ticks(r) + (at[c] - status[r]) <= online[r]
        BY <1>1, <1>3, <2>2, <4>1, <4>2
      <4> QED BY <1>2, <1>3, <2>2, <2>4, <4>1, <4>3, <4>4
    <3> QED BY <1>3, <2>2, <2>4, <3>4, <3>5
  <2> QED BY <2>5, <2>6
<1>13. ASSUME ReadStatus(c) PROVE Goal
  <2> DEFINE d == DeltaSince(status[r], at[c])
  <2>1. /\ pc[c] = "read" /\ pc'[c] = (IF d = 0 THEN "save" ELSE "incr")
        /\ since'[c] = d \div TicksPerSecond
        /\ UNCHANGED <<at, status, online, counted, again>>
    BY <1>4, <1>13 DEF ReadStatus, redis, history
  <2>2. Ticks(r)' = Ticks(r) /\ Added(c) = 0 /\ Undone(c) = 0
    BY <1>2, <1>7, <2>1 DEF Unsaved
  <2>3. CASE d = 0
    <3>1. 0 \div TicksPerSecond = 0
      BY UptimeAssumption
    <3>2. since'[c] = 0 /\ pc'[c] = "save"
      BY <2>1, <2>3, <3>1
    <3>3. Added(c)' = 0 /\ Undone(c)' = 0
      BY <1>2, <3>2 DEF Unsaved
    <3> HIDE DEF r, Added, Undone
    <3> QED BY <1>1, <2>1, <2>2, <3>3
  <2>4. CASE d # 0
    <3>1. status[r] # None
      BY <2>4 DEF DeltaSince
    <3>2. d \in Nat /\ d = at[c] - status[r] /\ d < Threshold
      BY <2>4, <3>1, SinceIsFloor
    <3> HIDE DEF d
    <3>3. TicksPerSecond * (d \div TicksPerSecond) <= d
      BY <3>2, WholeSeconds
    <3>4. Added(c)' = TicksPerSecond * (d \div TicksPerSecond) /\ Undone(c)' = 0
      BY <1>2, <2>1, <2>4 DEF Unsaved
    <3>5. Added(c)' \in Nat
      BY <1>2, <3>2, <3>4, WholeSeconds
    <3> HIDE DEF r, Added, Undone
    <3>6. Ticks(r) + d <= online[r]
      BY <1>1, <1>2, <1>3, <2>2, <3>1, <3>2
    <3>7. Ticks(r)' + Added(c)' <= online'[r]
      <4>1. Added(c)' <= d
        BY <3>3, <3>4
      <4> HIDE DEF Goal
      <4> QED BY <1>2, <1>3, <2>1, <2>2, <3>2, <3>5, <3>6, <4>1
    <3> QED BY <1>1, <1>2, <1>3, <2>1, <2>2, <3>4, <3>7
  <2> QED BY <2>3, <2>4
<1>14. ASSUME IncrBy(c) PROVE Goal
  <2>1. /\ pc[c] = "incr" /\ pc'[c] = "period"
        /\ UNCHANGED <<at, since, status, online, again>>
        /\ counted'[r] = counted[r] + since[c]
    BY <1>2, <1>4, <1>14 DEF IncrBy
  <2>2. Added(c) = TicksPerSecond * since[c] /\ Undone(c) = 0
        /\ Added(c)' = 0 /\ Undone(c)' = TicksPerSecond * since[c]
    BY <1>2, <2>1 DEF Unsaved
  <2>3. Ticks(r)' = Ticks(r) + TicksPerSecond * since[c]
    BY <1>2, <2>1 DEF Ticks
  <2>4. TicksPerSecond * since[c] \in Nat
    BY <1>2
  <2> HIDE DEF r, Added, Undone
  <2> QED BY <1>1, <1>2, <1>3, <2>1, <2>2, <2>3, <2>4
<1>15. ASSUME SetPeriod(c) PROVE Goal
  <2>1. /\ pc[c] = "period" /\ pc'[c] = "save"
        /\ UNCHANGED <<at, since, status, online, counted, again>>
    BY <1>4, <1>15 DEF SetPeriod, history
  <2>2. Ticks(r)' = Ticks(r) /\ Added(c)' = Added(c) /\ Undone(c)' = Undone(c)
    BY <1>7, <2>1 DEF Unsaved
  <2> HIDE DEF r, Added, Undone
  <2> QED BY <1>1, <2>1, <2>2
<1>16. ASSUME SaveStatus(c) PROVE Goal
  <2>1. /\ pc[c] = "save" /\ pc'[c] = "idle" /\ UNCHANGED <<at, online, counted, again>>
        /\ status'[r] = at[c]
    BY <1>2, <1>4, <1>16 DEF SaveStatus, history
  <2>2. Ticks(r)' = Ticks(r) /\ Added(c)' = 0 /\ Undone(c)' = 0 /\ Added(c) = 0
    BY <1>2, <1>7, <2>1 DEF Unsaved
  <2> HIDE DEF r, Added, Undone
  <2> QED BY <1>1, <1>2, <1>3, <2>1, <2>2
<1>17. ASSUME RedisFails(c) PROVE Goal
  <2>1. /\ pc[c] \in {"read", "incr", "period"} /\ pc'[c] = "save"
        /\ since'[c] = (IF pc[c] = "period" THEN since[c] ELSE 0)
        /\ UNCHANGED <<at, status, online, counted, again>>
    BY <1>4, <1>17 DEF RedisFails, redis, history
  <2>2. Ticks(r)' = Ticks(r) /\ Added(c)' = 0 /\ Undone(c)' = Undone(c)
    BY <1>2, <1>7, <2>1 DEF Unsaved
  <2> HIDE DEF r, Added, Undone
  <2> QED BY <1>1, <1>2, <1>3, <2>1, <2>2
<1>18. ASSUME ReportEnds(c) PROVE Goal
  <2>1. /\ pc'[c] = "idle" /\ since'[c] = 0
        /\ UNCHANGED <<at, status, online, counted>>
        /\ again'[r] = (IF pc[c] \in {"period", "save"} THEN again[r] + since[c] ELSE again[r])
    BY <1>2, <1>4, <1>18 DEF ReportEnds, redis
  <2>2. Added(c)' = 0 /\ Undone(c)' = 0
    BY <1>2, <2>1 DEF Unsaved
  <2>3. Ticks(r)' = Ticks(r) - Undone(c)
    <3>1. again'[r] = again[r] + Unsaved(c) /\ Unsaved(c) \in Nat
      BY <1>2, <2>1 DEF Unsaved
    <3>2. Ticks(r)' = TicksPerSecond * (counted[r] - (again[r] + Unsaved(c)))
      BY <2>1, <3>1 DEF Ticks
    <3> QED BY <1>2, <3>1, <3>2 DEF Ticks
  <2> HIDE DEF r, Added, Undone
  <2> QED BY <1>1, <1>2, <1>3, <2>1, <2>2, <2>3
<1>19. ASSUME NEW q \in Robots,
              DeleteRobot(q) \/ FlushGet(q) \/ FlushGetFails(q) \/ FlushDelete(q) \/ FlushDeleteFails(q)
       PROVE  UNCHANGED <<at, status, online, counted, again, pc, since>>
  BY <1>19 DEF DeleteRobot, FlushGet, FlushGetFails, FlushDelete, FlushDeleteFails, redis, reports, history
<1>20. ASSUME Tick \/ FlushList \/ FlushWrite \/ FlushGivesUp \/ FlushCrash \/ UNCHANGED vars
       PROVE  UNCHANGED <<at, status, online, counted, again, pc, since>>
  BY <1>20 DEF Tick, FlushList, FlushWrite, FlushGivesUp, FlushCrash, vars, redis, reports, history
<1> QED
  <2> HIDE DEF Goal
  <2>1. Goal
    BY <1>9, <1>10, <1>11, <1>12, <1>13, <1>14, <1>15, <1>16, <1>17, <1>18, <1>19, <1>20
    DEF UptimeNext
  <2> QED BY <2>1 DEF Goal

\* A robot is silent as long as its client is.
LEMMA NextSilent ==
    ASSUME UptimeTypeOK, Silent, [UptimeNext]_vars
    PROVE  Silent'
<1> SUFFICES ASSUME NEW q \in Robots, \A c \in Clients : RobotOf[c] # q
             PROVE  counted'[q] = counted[q] /\ again'[q] = again[q]
  BY DEF Silent
<1>1. counted \in [Robots -> Nat] /\ again \in [Robots -> Nat]
  BY DEF UptimeTypeOK
<1>2. ASSUME NEW c \in Clients,
             \/ Report(c) \/ ReadStatus(c) \/ IncrBy(c) \/ SetPeriod(c)
             \/ SaveStatus(c) \/ RedisFails(c) \/ ReportEnds(c)
      PROVE  counted'[q] = counted[q] /\ again'[q] = again[q]
  <2>1. RobotOf[c] # q
    OBVIOUS
  <2> QED BY <1>1, <1>2, <2>1
          DEF Report, ReadStatus, IncrBy, SetPeriod, SaveStatus, RedisFails, ReportEnds, history
<1>3. ASSUME NEW r \in Robots,
             \/ StatusExpires(r) \/ DeleteRobot(r) \/ FlushGet(r) \/ FlushGetFails(r)
             \/ FlushDelete(r) \/ FlushDeleteFails(r)
      PROVE  UNCHANGED <<counted, again>>
  BY <1>3 DEF StatusExpires, DeleteRobot, FlushGet, FlushGetFails, FlushDelete, FlushDeleteFails, history
<1>4. ASSUME Tick \/ FlushList \/ FlushWrite \/ FlushGivesUp \/ FlushCrash \/ UNCHANGED vars
      PROVE  UNCHANGED <<counted, again>>
  BY <1>4 DEF Tick, FlushList, FlushWrite, FlushGivesUp, FlushCrash, vars, history
<1> QED BY <1>2, <1>3, <1>4 DEF UptimeNext

\* The table has what was added, but for what is still in the buffer or lost.
LEMMA OnlineFollows == UptimeInv /\ OnlineInv => OnlineOnlyWhileReporting
<1> SUFFICES ASSUME UptimeInv, OnlineInv, NEW r \in Robots
             PROVE  TicksPerSecond * (Booked(r) - twice[r] - again[r]) <= online[r]
  BY DEF OnlineOnlyWhileReporting
<1>1. /\ Booked(r) + delta[r] - Pending(r) = counted[r] - lost[r] + twice[r]
      /\ UptimeTypeOK /\ DeletesBatch /\ ReadIsBuffered
  BY DEF UptimeInv, Accounted, OnlineInv
<1>2. /\ Booked(r) \in Int /\ delta[r] \in Nat /\ counted[r] \in Nat /\ twice[r] \in Nat
      /\ again[r] \in Nat /\ online[r] \in Nat /\ lost[r] \in Int /\ lost[r] >= 0
      /\ TicksPerSecond \in Nat
  BY <1>1, BookedIsSum, UptimeAssumption DEF UptimeTypeOK, OnlineInv, LostIsCounted
<1>3. Pending(r) \in Int /\ Pending(r) <= delta[r]
  BY <1>1, <1>2 DEF Pending, DeletesBatch, ReadIsBuffered, Batched, UptimeTypeOK, Batches
<1>4. Booked(r) - twice[r] - again[r] <= counted[r] - again[r]
  BY <1>1, <1>2, <1>3
<1>5. TicksPerSecond * (Booked(r) - twice[r] - again[r]) <= TicksPerSecond * (counted[r] - again[r])
  <2>1. Booked(r) - twice[r] - again[r] \in Int /\ counted[r] - again[r] \in Int
    BY <1>2
  <2> QED BY <1>2, <1>4, <2>1
<1>6. TicksPerSecond * (counted[r] - again[r]) <= online[r]
  <2>1. CASE \A c \in Clients : RobotOf[c] # r
    <3>1. counted[r] = 0 /\ again[r] = 0
      BY <2>1 DEF OnlineInv, Silent
    <3> QED BY <1>2, <3>1
  <2>2. CASE \E c \in Clients : RobotOf[c] = r
    <3>1. PICK c \in Clients : RobotOf[c] = r
      BY <2>2
    <3> DEFINE k == IF pc[c] = "incr" THEN TicksPerSecond * since[c] ELSE 0
    <3>2. Ticks(r) + k <= online[r]
      BY <3>1 DEF OnlineInv, Covered
    <3>3. k \in Nat /\ Ticks(r) \in Int
      BY <1>1, <1>2 DEF UptimeTypeOK, Ticks
    <3> HIDE DEF k
    <3>4. Ticks(r) <= online[r]
      BY <1>2, <3>2, <3>3
    <3> QED BY <3>4 DEF Ticks
  <2> QED BY <2>1, <2>2
<1>7. TicksPerSecond * (Booked(r) - twice[r] - again[r]) \in Int
      /\ TicksPerSecond * (counted[r] - again[r]) \in Int
  BY <1>2
<1> QED BY <1>2, <1>5, <1>6, <1>7

\* If one client sends each robot's reports, one at a time and the last perhaps
\* again, its uptime is not longer than it reported without a gap, whatever
\* fails (usecase/robot_device.go UpdateRobotStatus).
THEOREM OnlineOnlyWhileReportingAlways ==
    OneClientOfEach => (UptimeSpec => []OnlineOnlyWhileReporting)
<1> SUFFICES ASSUME OneClientOfEach
             PROVE  UptimeSpec => []OnlineOnlyWhileReporting
  OBVIOUS
<1>1. UptimeInit => UptimeInv /\ OnlineInv
  BY InitTyped, InitAccounted, InitOnline DEF UptimeInv
<1>2. UptimeInv /\ OnlineInv /\ [UptimeNext]_vars => (UptimeInv /\ OnlineInv)'
  BY NextTyped, NextAccounted, NextBuffered, NextLost, NextInOrder, NextCovered, NextSilent
  DEF UptimeInv, OnlineInv
<1>3. UptimeInv /\ OnlineInv => OnlineOnlyWhileReporting
  BY OnlineFollows
<1> QED BY <1>1, <1>2, <1>3, PTL DEF UptimeSpec
=============================================================================
