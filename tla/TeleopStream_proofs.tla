------------------------- MODULE TeleopStream_proofs -------------------------
(***************************************************************************)
(* That a quiet room has the latest: whatever the loops of a teleoperation *)
(* room have written, whoever joined, left or missed a frame, once nothing *)
(* is under way each of its pages has been sent the episode and the task   *)
(* as they are, or has missed them. The loop of the room knows of its      *)
(* members what it pushed last; that is kept for every member and for the  *)
(* cache that the next member starts from.                                 *)
(***************************************************************************)
EXTENDS TeleopStream, Sums, SequenceTheorems

\* No request has yet to signal what it wrote, and no signal waits for g.
Served(g) == owed = 0 /\ inbox[g] # "signal"

\* The connections of the room, and what it keeps for the next.
Members == room.subs \cup {"room"}

Has(who, kind) == IF who = "room" THEN cache[kind] ELSE Latest(who, kind)

Missed(who, kind) == <<who, kind>> \in overdue

HasOrMissed(who, kind, data) == Has(who, kind) = data \/ Missed(who, kind)

\* What g knows of a member: the task that it pushed last; once it has pushed
\* what it read, the episode, and the task too.
KnownOf(who, g) ==
    /\ lastTask[g] # None => HasOrMissed(who, "task", lastTask[g])
    /\ loop[g] \in {"task", "wait"} /\ Served(g) => HasOrMissed(who, "episode", writes)
    /\ loop[g] = "wait" /\ Served(g) /\ TaskAt[writes] # None =>
          HasOrMissed(who, "task", TaskAt[writes])

LoopInv(g) ==
    /\ loop[g] = "off" => lastTask[g] = None /\ ~cancelled[g]
    /\ loop[g] \notin {"off", "start"} => inbox[g] # "absent"
    /\ loop[g] \in {"episode", "task"} => read[g] \in 0..MaxWrites
    /\ loop[g] = "task" => TaskAt[read[g]] # None

\* Without a loop there is no room and nothing that was missed; the room's loop
\* has read what is so, or has yet to read.
RoomInv ==
    /\ room.loop = None => room.subs = {} /\ cache = Nothing /\ overdue = {}
    /\ \A v \in Viewers \ room.subs : chan[v] = <<>> /\ shown[v] = Nothing
    /\ room.loop # None =>
          /\ loop[room.loop] # "off" /\ ~cancelled[room.loop]
          /\ loop[room.loop] \in {"episode", "task"} /\ Served(room.loop) => read[room.loop] = writes
          /\ \A who \in Members : KnownOf(who, room.loop)

TeleopStreamTypes ==
    /\ writes \in 0..MaxWrites /\ owed \in Nat
    /\ inbox \in [Subscribers -> {"absent", "empty", "signal"}]
    /\ room \in [loop : Loops \cup {None}, subs : SUBSET Viewers]
    /\ loop \in [Loops -> {"off", "start", "push", "episode", "task", "wait"}]
    /\ cancelled \in [Loops -> BOOLEAN]
    /\ read \in [Loops -> 0..MaxWrites \cup {None}]
    /\ lastTask \in [Loops -> Tasks \cup {None}]
    /\ cache \in [Kinds -> 0..MaxWrites \cup Tasks \cup {None}]
    /\ chan \in [Viewers -> Seq(Frame)]
    /\ shown \in [Viewers -> [Kinds -> 0..MaxWrites \cup Tasks \cup {None}]]

TeleopStreamInv == TeleopStreamTypes /\ RoomInv /\ \A g \in Loops : LoopInv(g)

-----------------------------------------------------------------------------
(* The last frame of a kind in a channel.                                  *)

\* What s leaves a page with that shows x.
After(s, x, kind) ==
    LET queued == {i \in DOMAIN s : s[i].kind = kind}
    IN IF queued = {} THEN x ELSE s[Max(queued)].data

NoneOf(s, kind) == \A i \in DOMAIN s : s[i].kind # kind

LastIs(s, kind, m) ==
    /\ m \in DOMAIN s /\ s[m].kind = kind
    /\ \A i \in DOMAIN s : s[i].kind = kind => i <= m

\* No frame of the kind: the page shows what it showed.
LEMMA AfterNone ==
    ASSUME NEW s, NEW x, NEW kind, NoneOf(s, kind)
    PROVE  After(s, x, kind) = x
BY DEF After, NoneOf

\* The last frame of the kind is what the page shows in the end.
LEMMA AfterLast ==
    ASSUME NEW s \in Seq(Frame), NEW x, NEW kind, NEW m, LastIs(s, kind, m)
    PROVE  After(s, x, kind) = s[m].data
<1> DEFINE Q == {i \in DOMAIN s : s[i].kind = kind}
<1>1. DOMAIN s = 1 .. Len(s) /\ Len(s) \in Nat
  BY LenProperties
<1>2. Q \in SUBSET (1 .. Len(s)) /\ Q # {} /\ m \in Q /\ \A i \in Q : i <= m
  BY <1>1 DEF LastIs
<1>3. Max(Q) \in Q /\ m <= Max(Q)
  BY <1>1, <1>2, LastOf
<1>4. Max(Q) = m
  BY <1>1, <1>2, <1>3
<1> QED BY <1>2, <1>4 DEF After

\* Of the frames of a kind, if any, there is a last one.
LEMMA LastFrame ==
    ASSUME NEW s \in Seq(Frame), NEW kind
    PROVE  NoneOf(s, kind) \/ \E m : LastIs(s, kind, m)
<1> DEFINE Q == {i \in DOMAIN s : s[i].kind = kind}
<1>1. DOMAIN s = 1 .. Len(s) /\ Len(s) \in Nat
  BY LenProperties
<1>2. CASE Q = {}
  BY <1>2 DEF NoneOf
<1>3. CASE Q # {}
  <2>1. Q \in SUBSET (1 .. Len(s))
    BY <1>1
  <2>2. Max(Q) \in Q /\ \A i \in Q : i <= Max(Q)
    BY <1>1, <1>3, <2>1, LastOf
  <2>3. LastIs(s, kind, Max(Q))
    BY <2>2 DEF LastIs
  <2> QED BY <2>3
<1> QED BY <1>2, <1>3

\* A frame that is sent is the last of its kind.
LEMMA AfterSent ==
    ASSUME NEW s \in Seq(Frame), NEW t \in Seq(Frame), Len(t) = Len(s) + 1,
           \A i \in 1 .. Len(s) : t[i] = s[i], NEW x, NEW kind
    PROVE  After(t, x, kind) = IF t[Len(t)].kind = kind THEN t[Len(t)].data ELSE After(s, x, kind)
<1>1. /\ Len(s) \in Nat /\ DOMAIN t = 1 .. (Len(s) + 1) /\ DOMAIN s = 1 .. Len(s)
  BY LenProperties
<1>2. CASE t[Len(t)].kind = kind
  <2>1. LastIs(t, kind, Len(t))
    BY <1>1, <1>2 DEF LastIs
  <2> QED BY <1>2, <2>1, AfterLast
<1>3. CASE t[Len(t)].kind # kind
  <2>1. \A i \in DOMAIN t : t[i].kind = kind => i \in DOMAIN s /\ s[i].kind = kind
    BY <1>1, <1>3
  <2>2. CASE NoneOf(s, kind)
    <3>1. NoneOf(t, kind)
      BY <2>1, <2>2 DEF NoneOf
    <3> QED BY <1>3, <2>2, <3>1, AfterNone
  <2>3. ASSUME NEW m, LastIs(s, kind, m) PROVE After(t, x, kind) = After(s, x, kind)
    <3>1. LastIs(t, kind, m) /\ t[m] = s[m]
      BY <1>1, <2>1, <2>3 DEF LastIs
    <3> QED BY <2>3, <3>1, AfterLast
  <2> QED BY <1>3, <2>2, <2>3, LastFrame
<1> QED BY <1>2, <1>3

\* A frame that is received is shown, and makes way for those behind it.
LEMMA AfterReceived ==
    ASSUME NEW s \in Seq(Frame), NEW t \in Seq(Frame), Len(s) = Len(t) + 1,
           \A i \in 1 .. Len(t) : t[i] = s[i + 1], NEW x, NEW y, NEW kind,
           y = IF s[1].kind = kind THEN s[1].data ELSE x
    PROVE  After(t, y, kind) = After(s, x, kind)
<1>1. Len(t) \in Nat /\ DOMAIN s = 1 .. (Len(t) + 1) /\ DOMAIN t = 1 .. Len(t)
  BY LenProperties
<1>2. \A i \in DOMAIN s : i # 1 => i - 1 \in DOMAIN t /\ t[i - 1] = s[i]
  <2> SUFFICES ASSUME NEW i \in DOMAIN s, i # 1 PROVE i - 1 \in DOMAIN t /\ t[i - 1] = s[i]
    OBVIOUS
  <2>1. i - 1 \in 1 .. Len(t) /\ (i - 1) + 1 = i
    BY <1>1
  <2> QED BY <1>1, <2>1
<1>3. ASSUME NEW m, LastIs(t, kind, m) PROVE After(t, y, kind) = After(s, x, kind)
  <2>1. m \in Nat /\ m + 1 \in DOMAIN s /\ s[m + 1] = t[m] /\ s[m + 1].kind = kind
    BY <1>1, <1>3 DEF LastIs
  <2>2. ASSUME NEW i \in DOMAIN s, s[i].kind = kind PROVE i <= m + 1
    <3>1. CASE i = 1
      BY <2>1, <3>1
    <3>2. CASE i # 1
      <4>1. i - 1 <= m
        BY <1>2, <1>3, <2>2, <3>2 DEF LastIs
      <4> QED BY <1>1, <2>1, <4>1
    <3> QED BY <3>1, <3>2
  <2>3. LastIs(s, kind, m + 1)
    BY <2>1, <2>2 DEF LastIs
  <2> QED BY <1>3, <2>1, <2>3, AfterLast
<1>4. CASE NoneOf(t, kind)
  <2>1. \A i \in DOMAIN s : s[i].kind = kind => i = 1
    BY <1>2, <1>4 DEF NoneOf
  <2>2. CASE s[1].kind = kind
    <3>1. LastIs(s, kind, 1)
      BY <1>1, <2>1, <2>2 DEF LastIs
    <3> QED BY <1>4, <2>2, <3>1, AfterLast, AfterNone
  <2>3. CASE s[1].kind # kind
    <3>1. NoneOf(s, kind)
      BY <2>1, <2>3 DEF NoneOf
    <3> QED BY <1>4, <2>3, <3>1, AfterNone
  <2> QED BY <2>2, <2>3
<1> QED BY <1>3, <1>4, LastFrame

\* A late joiner comes by what the room has kept.
LEMMA ReplayIs ==
    ASSUME TeleopStreamTypes, NEW kind \in Kinds
    PROVE  Replay \in Seq(Frame) /\ After(Replay, None, kind) = cache[kind]
<1> DEFINE e == [kind |-> "episode", data |-> cache["episode"]]
           t == [kind |-> "task", data |-> cache["task"]]
<1>1. /\ cache["episode"] # None => e \in Frame
      /\ cache["task"] # None => t \in Frame
  BY DEF TeleopStreamTypes, Frame, Kinds
<1>2. kind \in {"episode", "task"} /\ e.kind = "episode" /\ t.kind = "task"
      /\ e.data = cache["episode"] /\ t.data = cache["task"]
  BY DEF Kinds
<1> HIDE DEF e, t
<1>3. CASE cache["episode"] = None /\ cache["task"] = None
  <2>1. Replay = <<>>
    BY <1>3 DEF Replay, Kept
  <2>2. NoneOf(<<>>, kind)
    BY DEF NoneOf
  <2>3. After(Replay, None, kind) = None
    BY <2>1, <2>2, AfterNone
  <2> QED BY <1>2, <1>3, <2>1, <2>3
<1>4. CASE cache["episode"] # None /\ cache["task"] = None
  <2>1. Replay = <<e>>
    BY <1>4 DEF Replay, Kept, e
  <2>2. Replay \in Seq(Frame)
    BY <1>1, <1>4, <2>1
  <2>3. CASE kind = "episode"
    <3>1. LastIs(Replay, kind, 1) /\ Replay[1] = e
      BY <1>2, <2>1, <2>3 DEF LastIs
    <3> QED BY <1>2, <2>2, <2>3, <3>1, AfterLast
  <2>4. CASE kind = "task"
    <3>1. NoneOf(Replay, kind)
      BY <1>2, <2>1, <2>4 DEF NoneOf
    <3> QED BY <1>4, <2>2, <2>4, <3>1, AfterNone
  <2> QED BY <1>2, <2>3, <2>4
<1>5. CASE cache["episode"] = None /\ cache["task"] # None
  <2>1. Replay = <<t>>
    BY <1>5 DEF Replay, Kept, t
  <2>2. Replay \in Seq(Frame)
    BY <1>1, <1>5, <2>1
  <2>3. CASE kind = "task"
    <3>1. LastIs(Replay, kind, 1) /\ Replay[1] = t
      BY <1>2, <2>1, <2>3 DEF LastIs
    <3> QED BY <1>2, <2>2, <2>3, <3>1, AfterLast
  <2>4. CASE kind = "episode"
    <3>1. NoneOf(Replay, kind)
      BY <1>2, <2>1, <2>4 DEF NoneOf
    <3> QED BY <1>5, <2>2, <2>4, <3>1, AfterNone
  <2> QED BY <1>2, <2>3, <2>4
<1>6. CASE cache["episode"] # None /\ cache["task"] # None
  <2>a. Kept("episode") = <<e>>
    BY <1>6 DEF Kept, e
  <2>b. Kept("task") = <<t>>
    BY <1>6 DEF Kept, t
  <2>c. <<e>> \in Seq(Frame) /\ <<t>> \in Seq(Frame) /\ Len(<<e>>) = 1 /\ Len(<<t>>) = 1
    BY <1>1, <1>6
  <2>d. Replay = <<e>> \o <<t>>
    BY <2>a, <2>b DEF Replay
  <2>2. Replay \in Seq(Frame) /\ Len(Replay) = 2
    BY <2>c, <2>d, ConcatProperties
  <2>1. DOMAIN Replay = 1 .. 2 /\ Replay[1] = e /\ Replay[2] = t
    <3>1. <<e>>[1] = e /\ <<t>>[1] = t
      OBVIOUS
    <3>2. Replay[1] = <<e>>[1]
      BY <2>c, <2>d, ConcatProperties
    <3>3. Replay[2] = <<t>>[2 - 1]
      BY <2>c, <2>d, ConcatProperties
    <3> QED BY <2>2, <3>1, <3>2, <3>3
  <2>3. CASE kind = "episode"
    <3>1. LastIs(Replay, kind, 1) /\ Replay[1] = e
      BY <1>2, <2>1, <2>3 DEF LastIs
    <3> QED BY <1>2, <2>2, <2>3, <3>1, AfterLast
  <2>4. CASE kind = "task"
    <3>1. LastIs(Replay, kind, 2) /\ Replay[2] = t
      BY <1>2, <2>1, <2>4 DEF LastIs
    <3> QED BY <1>2, <2>2, <2>4, <3>1, AfterLast
  <2> QED BY <1>2, <2>3, <2>4
<1> QED BY <1>3, <1>4, <1>5, <1>6

\* What a page will show, in the terms of these lemmas.
LEMMA LatestIs ==
    ASSUME NEW v, NEW kind
    PROVE  /\ Latest(v, kind) = After(chan[v], shown[v][kind], kind)
           /\ Latest(v, kind)' = After(chan'[v], shown'[v][kind], kind)
BY DEF Latest, After

\* A frame reaches a member, or it has missed it; and it missed one that comes
\* from a loop which is not the room's.
LEMMA FannedOut ==
    ASSUME TeleopStreamTypes, NEW g \in Loops, NEW kind \in Kinds, NEW data,
           [kind |-> kind, data |-> data] \in Frame, FanOut(g, kind, data), room.loop # None,
           UNCHANGED <<room, shown>>, NEW who \in Members
    PROVE  /\ room.loop = g => Has(who, kind)' = data \/ Missed(who, kind)'
           /\ room.loop # g => Missed(who, kind)'
           /\ \A k \in Kinds : k # kind =>
                Has(who, k)' = Has(who, k) /\ (Missed(who, k)' <=> Missed(who, k))
<1> DEFINE f == [kind |-> kind, data |-> data]
           reached == {"room"} \cup {v \in room.subs : ~Full(v)}
<1>1. /\ room.subs \subseteq Viewers /\ who \in room.subs \cup {"room"}
      /\ f.kind = kind /\ f.data = data /\ f \in Frame
  BY DEF TeleopStreamTypes, Members
<1>2. overdue' = IF room.loop # g THEN overdue \cup ((room.subs \cup {"room"}) \X {kind})
                 ELSE (overdue \cup (room.subs \X {kind})) \ (reached \X {kind})
  BY DEF FanOut
<1>3. room.loop # g => Missed(who, kind)'
  BY <1>1, <1>2 DEF Missed
<1>4. \A k \in Kinds : k # kind => (Missed(who, k)' <=> Missed(who, k))
  BY <1>1, <1>2 DEF Missed
<1>5. CASE who = "room"
  <2>1. cache' = [cache EXCEPT ![kind] = data]
    BY DEF FanOut
  <2> QED BY <1>3, <1>4, <1>5, <2>1 DEF Has, TeleopStreamTypes
<1>6. CASE who # "room"
  <2>1. who \in Viewers /\ who \in room.subs /\ chan[who] \in Seq(Frame)
    BY <1>1, <1>6 DEF TeleopStreamTypes
  <2>2. CASE Full(who)
    <3>1. chan'[who] = chan[who]
      BY <2>1, <2>2 DEF FanOut
    <3>2. \A k : Has(who, k)' = Has(who, k)
      BY <1>6, <3>1, LatestIs DEF Has
    <3>3. room.loop = g => Missed(who, kind)'
      BY <1>2, <1>6, <2>1, <2>2 DEF Missed
    <3> QED BY <1>3, <1>4, <3>2, <3>3
  <2>3. CASE ~Full(who)
    <3>1. chan'[who] = Append(chan[who], f)
      BY <2>1, <2>3 DEF FanOut
    <3> HIDE DEF f
    <3>2. PICK t \in Seq(Frame) : t = Append(chan[who], f)
      BY <1>1, <2>1, AppendProperties
    <3>3. Len(t) = Len(chan[who]) + 1 /\ t[Len(t)] = f /\ \A i \in 1 .. Len(chan[who]) : t[i] = chan[who][i]
      BY <1>1, <2>1, <3>2, AppendProperties
    <3>4. ASSUME NEW k
          PROVE  After(t, shown[who][k], k) = IF kind = k THEN data ELSE After(chan[who], shown[who][k], k)
      BY <1>1, <2>1, <3>3, AfterSent
    <3>5. \A k : Has(who, k)' = IF kind = k THEN data ELSE Has(who, k)
      <4>1. ASSUME NEW k PROVE Has(who, k)' = IF kind = k THEN data ELSE Has(who, k)
        BY <1>6, <3>1, <3>2, <3>4, LatestIs DEF Has
      <4> QED BY <4>1
    <3> QED BY <1>3, <1>4, <3>5
  <2> QED BY <2>2, <2>3
<1> QED BY <1>5, <1>6
-----------------------------------------------------------------------------
(* The types.                                                              *)

\* A frame goes to channels of frames.
LEMMA FannedTypes ==
    ASSUME TeleopStreamTypes, NEW g, NEW kind \in Kinds, NEW data \in 0..MaxWrites \cup Tasks,
           FanOut(g, kind, data)
    PROVE  /\ cache' \in [Kinds -> 0..MaxWrites \cup Tasks \cup {None}]
           /\ chan' \in [Viewers -> Seq(Frame)]
           /\ [kind |-> kind, data |-> data] \in Frame
<1> DEFINE f == [kind |-> kind, data |-> data]
<1>1. f \in Frame
  BY DEF Frame
<1>2. cache' \in [Kinds -> 0..MaxWrites \cup Tasks \cup {None}]
  BY DEF FanOut, TeleopStreamTypes
<1>3. chan' = [v \in Viewers |-> IF v \in room.subs /\ ~Full(v) THEN Append(chan[v], f) ELSE chan[v]]
  BY DEF FanOut
<1> HIDE DEF f
<1>4. ASSUME NEW v \in Viewers PROVE chan'[v] \in Seq(Frame)
  <2>1. chan[v] \in Seq(Frame)
    BY DEF TeleopStreamTypes
  <2>2. Append(chan[v], f) \in Seq(Frame)
    BY <1>1, <2>1, AppendProperties
  <2> QED BY <1>3, <2>1, <2>2
<1> QED BY <1>1, <1>2, <1>3, <1>4 DEF f

\* What g is to push next.
LEMMA PushedIs ==
    ASSUME TeleopStreamInv, NEW g \in Loops, loop[g] \in {"episode", "task"}
    PROVE  /\ read[g] \in 0..MaxWrites /\ TaskAt[read[g]] \in Tasks \cup {None}
           /\ loop[g] = "task" => TaskAt[read[g]] \in Tasks
<1>1. read[g] \in 0..MaxWrites /\ (loop[g] = "task" => TaskAt[read[g]] # None)
  BY DEF TeleopStreamInv, LoopInv
<1> QED BY <1>1, TeleopStreamAssumption

\* Every step keeps the types.
LEMMA TypesNext ==
    ASSUME TeleopStreamInv, [StreamNext]_vars
    PROVE  TeleopStreamTypes'
<1> USE DEF TeleopStreamTypes
<1>0. TeleopStreamTypes
  BY DEF TeleopStreamInv
<1>1. CASE Reports
  <2>1. writes' \in 0..MaxWrites /\ owed' \in Nat
    BY <1>0, <1>1, BusAssumption DEF Reports, Write
  <2> QED BY <1>0, <1>1, <2>1 DEF Reports, Write, roomVars, loopVars, pageVars
<1>2. CASE Notifies
  <2>1. owed' \in Nat /\ inbox' \in [Subscribers -> {"absent", "empty", "signal"}]
    BY <1>0, <1>2 DEF Notifies, Notify, Signalled
  <2> QED BY <1>0, <1>2, <2>1 DEF Notifies, Notify, roomVars, loopVars, pageVars
<1>3. ASSUME NEW g \in Loops, LoopStep(g) \/ LoopReadFails(g) \/ LoopTaskFails(g)
      PROVE  TeleopStreamTypes'
  <2>1. CASE LoopStarts(g)
    BY <1>0, <2>1 DEF LoopStarts, BusSubscribe, Goto, roomVars, pageVars
  <2>2. CASE LoopWakes(g)
    BY <1>0, <2>2 DEF LoopWakes, TakeSignal, Goto, roomVars, pageVars
  <2>3. CASE LoopReads(g)
    BY <1>0, <2>3 DEF LoopReads, Goto, roomVars, pageVars, busVars
  <2>4. CASE LoopPushesEpisode(g)
    <3>1. read[g] \in 0..MaxWrites
      BY <2>4, PushedIs DEF LoopPushesEpisode
    <3>2. FanOut(g, "episode", read[g])
      BY <2>4 DEF LoopPushesEpisode
    <3>3. /\ cache' \in [Kinds -> 0..MaxWrites \cup Tasks \cup {None}]
          /\ chan' \in [Viewers -> Seq(Frame)]
      BY <1>0, <3>1, <3>2, FannedTypes DEF Kinds
    <3> QED BY <1>0, <2>4, <3>3 DEF LoopPushesEpisode, Goto, busVars
  <2>5. CASE LoopPushesTask(g)
    <3>1. TaskAt[read[g]] \in Tasks
      BY <2>5, PushedIs DEF LoopPushesTask
    <3>2. FanOut(g, "task", TaskAt[read[g]])
      BY <2>5 DEF LoopPushesTask
    <3>3. /\ cache' \in [Kinds -> 0..MaxWrites \cup Tasks \cup {None}]
          /\ chan' \in [Viewers -> Seq(Frame)]
      BY <1>0, <3>1, <3>2, FannedTypes DEF Kinds
    <3> QED BY <1>0, <2>5, <3>1, <3>3 DEF LoopPushesTask, Goto, busVars
  <2>6. CASE LoopEnds(g)
    BY <1>0, <2>6 DEF LoopEnds, BusUnsubscribe, Goto, roomVars, pageVars
  <2>7. CASE LoopReadFails(g)
    BY <1>0, <2>7 DEF LoopReadFails, Goto, roomVars, pageVars, busVars
  <2>8. CASE LoopTaskFails(g)
    BY <1>0, <2>8 DEF LoopTaskFails, Goto, roomVars, pageVars, busVars
  <2> QED BY <1>3, <2>1, <2>2, <2>3, <2>4, <2>5, <2>6, <2>7, <2>8 DEF LoopStep
<1>4. ASSUME NEW v \in Viewers, Join(v) PROVE TeleopStreamTypes'
  <2>1. /\ room' \in [loop : Loops \cup {None}, subs : SUBSET Viewers]
        /\ loop' \in [Loops -> {"off", "start", "push", "episode", "task", "wait"}]
    <3>1. CASE room.loop # None
      <4>1. room' = [room EXCEPT !.subs = @ \cup {v}] /\ UNCHANGED loop
        BY <1>4, <3>1 DEF Join
      <4> QED BY <1>0, <4>1
    <3>2. CASE room.loop = None
      <4>1. PICK g \in Loops : loop' = [loop EXCEPT ![g] = "start"] /\ room' = [loop |-> g, subs |-> {v}]
        BY <1>4, <3>2 DEF Join
      <4> QED BY <1>0, <4>1
    <3> QED BY <3>1, <3>2
  <2>2. Replay \in Seq(Frame)
    BY <1>0, ReplayIs DEF Kinds
  <2>3. chan' \in [Viewers -> Seq(Frame)]
    BY <1>0, <1>4, <2>2 DEF Join
  <2> QED BY <1>0, <1>4, <2>1, <2>3 DEF Join, busVars
<1>5. ASSUME NEW v \in Viewers, Leave(v) PROVE TeleopStreamTypes'
  <2>1. /\ room' \in [loop : Loops \cup {None}, subs : SUBSET Viewers]
        /\ cache' \in [Kinds -> 0..MaxWrites \cup Tasks \cup {None}]
        /\ cancelled' \in [Loops -> BOOLEAN]
    <3>1. NoRoom \in [loop : Loops \cup {None}, subs : SUBSET Viewers]
          /\ Nothing \in [Kinds -> 0..MaxWrites \cup Tasks \cup {None}]
      BY DEF NoRoom, Nothing
    <3>2. CASE room.subs # {v}
      <4>1. room' = [room EXCEPT !.subs = @ \ {v}] /\ UNCHANGED <<cache, cancelled>>
        BY <1>5, <3>2 DEF Leave
      <4> QED BY <1>0, <4>1
    <3>3. CASE room.subs = {v}
      <4>1. room' = NoRoom /\ cache' = Nothing /\ cancelled' = [cancelled EXCEPT ![room.loop] = TRUE]
        BY <1>5, <3>3 DEF Leave
      <4>2. cancelled' \in [Loops -> BOOLEAN]
        BY <1>0, <4>1
      <4> QED BY <3>1, <4>1, <4>2
    <3> QED BY <3>2, <3>3
  <2>2. chan' \in [Viewers -> Seq(Frame)]
    <3>1. <<>> \in Seq(Frame)
      BY EmptySeq
    <3> QED BY <1>0, <1>5, <3>1 DEF Leave
  <2>3. shown' \in [Viewers -> [Kinds -> 0..MaxWrites \cup Tasks \cup {None}]]
    BY <1>0, <1>5 DEF Leave, Nothing
  <2> QED BY <1>0, <1>5, <2>1, <2>2, <2>3 DEF Leave, busVars
<1>6. ASSUME NEW v \in Viewers, Receive(v) PROVE TeleopStreamTypes'
  <2>1. chan[v] \in Seq(Frame) /\ chan[v] # <<>>
    BY <1>0, <1>6 DEF Receive
  <2>2. Head(chan[v]) \in Frame /\ Tail(chan[v]) \in Seq(Frame)
    BY <2>1, HeadTailProperties
  <2>3. chan' \in [Viewers -> Seq(Frame)]
    BY <1>0, <1>6, <2>2 DEF Receive
  <2>4. shown' = [shown EXCEPT ![v][Head(chan[v]).kind] = Head(chan[v]).data]
    BY <1>6 DEF Receive
  <2>5. shown' \in [Viewers -> [Kinds -> 0..MaxWrites \cup Tasks \cup {None}]]
    BY <1>0, <2>2, <2>4 DEF Frame
  <2> QED BY <1>0, <1>6, <2>3, <2>5 DEF Receive, busVars, roomVars, loopVars
<1>7. CASE UNCHANGED vars
  BY <1>0, <1>7 DEF vars, busVars, roomVars, loopVars, pageVars
<1> QED BY <1>1, <1>2, <1>3, <1>4, <1>5, <1>6, <1>7 DEF StreamNext
-----------------------------------------------------------------------------
(* What the room's loop knows of its members.                              *)

\* A member has what another had, or it has missed what it lacks.
Inherits(who, other) == \A kind \in Kinds :
    Missed(who, kind)' \/ (Has(who, kind)' = Has(other, kind) /\ ~Missed(other, kind))

\* What a loop knows of a member is so still, if the member inherits what it had.
LEMMA KnownKept ==
    ASSUME NEW who, NEW other, NEW g, KnownOf(other, g), Inherits(who, other),
           lastTask'[g] = lastTask[g], loop'[g] = loop[g], writes' = writes,
           Served(g)' => Served(g)
    PROVE  KnownOf(who, g)'
<1>1. ASSUME NEW kind \in Kinds, NEW data, HasOrMissed(other, kind, data)
      PROVE  Has(who, kind)' = data \/ Missed(who, kind)'
  BY <1>1 DEF Inherits, HasOrMissed
<1>2. lastTask'[g] # None => Has(who, "task")' = lastTask'[g] \/ Missed(who, "task")'
  BY <1>1 DEF KnownOf, Kinds
<1>3. loop'[g] \in {"task", "wait"} /\ Served(g)' => Has(who, "episode")' = writes' \/ Missed(who, "episode")'
  BY <1>1 DEF KnownOf, Kinds
<1>4. loop'[g] = "wait" /\ Served(g)' /\ TaskAt[writes'] # None =>
          Has(who, "task")' = TaskAt[writes'] \/ Missed(who, "task")'
  BY <1>1 DEF KnownOf, Kinds
<1> QED BY <1>2, <1>3, <1>4 DEF KnownOf, HasOrMissed

\* A step of loop h is not one of another loop, nor of the bus or the room.
OnlyOf(h) ==
    /\ \A g \in Loops : g # h =>
          /\ inbox'[g] = inbox[g] /\ loop'[g] = loop[g] /\ cancelled'[g] = cancelled[g]
          /\ read'[g] = read[g] /\ lastTask'[g] = lastTask[g]
    /\ writes' = writes /\ owed' = owed /\ room' = room /\ shown' = shown
    /\ \A v \in Viewers : v \notin room.subs => chan'[v] = chan[v]
    /\ room.loop = None => cache' = cache /\ overdue' = overdue

\* A step of one loop has the loop, and the room if it is the room's, to answer for.
LEMMA LoopMoves ==
    ASSUME TeleopStreamInv, TeleopStreamTypes', NEW h \in Loops, OnlyOf(h), LoopInv(h)',
           room.loop = h => /\ loop'[h] # "off" /\ ~cancelled'[h]
                            /\ loop'[h] \in {"episode", "task"} /\ Served(h)' => read'[h] = writes
                            /\ \A who \in Members : KnownOf(who, h)',
           room.loop \notin {h, None} => \A who \in Members : Inherits(who, who)
    PROVE  TeleopStreamInv'
<1>1. ASSUME NEW g \in Loops PROVE LoopInv(g)'
  <2>1. CASE g = h
    BY <2>1
  <2>2. CASE g # h
    BY <2>2 DEF OnlyOf, TeleopStreamInv, LoopInv
  <2> QED BY <2>1, <2>2
<1>2. room'.loop = None => room'.subs = {} /\ cache' = Nothing /\ overdue' = {}
  BY DEF OnlyOf, TeleopStreamInv, RoomInv
<1>3. \A v \in Viewers \ room'.subs : chan'[v] = <<>> /\ shown'[v] = Nothing
  BY DEF OnlyOf, TeleopStreamInv, RoomInv
<1>4. ASSUME room'.loop # None
      PROVE  /\ loop'[room'.loop] # "off" /\ ~cancelled'[room'.loop]
             /\ loop'[room'.loop] \in {"episode", "task"} /\ Served(room.loop)' => read'[room'.loop] = writes'
             /\ \A who \in Members : KnownOf(who, room.loop)'
  <2>1. CASE room.loop = h
    BY <2>1 DEF OnlyOf, Served
  <2>2. CASE room.loop # h
    <3> DEFINE g == room.loop
    <3>1. g \in Loops /\ g # h /\ room' = room /\ writes' = writes /\ g # None
      BY <1>4, <2>2 DEF OnlyOf, TeleopStreamInv, TeleopStreamTypes
    <3>2. /\ loop'[g] = loop[g] /\ cancelled'[g] = cancelled[g] /\ read'[g] = read[g]
          /\ lastTask'[g] = lastTask[g] /\ (Served(g)' <=> Served(g))
      BY <3>1 DEF OnlyOf, Served
    <3>3. /\ loop[g] # "off" /\ ~cancelled[g]
          /\ loop[g] \in {"episode", "task"} /\ Served(g) => read[g] = writes
          /\ \A who \in Members : KnownOf(who, g)
      BY <3>1 DEF TeleopStreamInv, RoomInv
    <3>4. ASSUME NEW who \in Members PROVE KnownOf(who, g)'
      <4>1. Inherits(who, who) /\ KnownOf(who, g)
        BY <3>1, <3>3
      <4> QED BY <3>1, <3>2, <4>1, KnownKept
    <3> QED BY <3>1, <3>2, <3>3, <3>4
  <2> QED BY <2>1, <2>2
<1>5. room' = room /\ Members' = Members
  BY DEF OnlyOf, Members
<1>6. RoomInv'
  BY <1>2, <1>3, <1>4, <1>5 DEF RoomInv, Served, KnownOf, HasOrMissed
<1> QED BY <1>1, <1>6 DEF TeleopStreamInv

\* Nothing is sent: every member has what it had.
LEMMA Unmoved ==
    ASSUME NEW who, UNCHANGED <<cache, chan, shown, overdue>>
    PROVE  Inherits(who, who) /\ \A kind, data : HasOrMissed(who, kind, data)' <=> HasOrMissed(who, kind, data)
BY DEF Inherits, Has, Missed, HasOrMissed, Latest

\* On its way to a push the loop knows of the task that it pushed last only.
LEMMA LoopGoes ==
    ASSUME TeleopStreamInv, NEW h \in Loops, StreamNext, LoopStarts(h) \/ LoopWakes(h) \/ LoopReads(h)
    PROVE  TeleopStreamInv'
<1>0. TeleopStreamTypes /\ TeleopStreamTypes' /\ h \in Subscribers
  BY TypesNext, TeleopStreamAssumption DEF TeleopStreamInv
<1>1. OnlyOf(h) /\ UNCHANGED <<cache, chan, shown, overdue, cancelled, lastTask>>
  <2>1. CASE LoopStarts(h)
    BY <1>0, <2>1 DEF LoopStarts, BusSubscribe, Goto, OnlyOf, roomVars, pageVars, TeleopStreamTypes
  <2>2. CASE LoopWakes(h)
    BY <1>0, <2>2 DEF LoopWakes, TakeSignal, Goto, OnlyOf, roomVars, pageVars, TeleopStreamTypes
  <2>3. CASE LoopReads(h)
    BY <1>0, <2>3 DEF LoopReads, Goto, OnlyOf, busVars, roomVars, pageVars, TeleopStreamTypes
  <2> QED BY <2>1, <2>2, <2>3
<1>2. /\ loop'[h] \in {"push", "episode"} /\ inbox'[h] # "absent"
      /\ loop'[h] = "episode" => read'[h] = writes
  <2>1. CASE LoopStarts(h)
    BY <1>0, <2>1 DEF LoopStarts, BusSubscribe, Goto, TeleopStreamTypes
  <2>2. CASE LoopWakes(h)
    BY <1>0, <2>2 DEF LoopWakes, TakeSignal, Goto, TeleopStreamTypes
  <2>3. CASE LoopReads(h)
    BY <1>0, <2>3 DEF LoopReads, Goto, busVars, TeleopStreamTypes, TeleopStreamInv, LoopInv
  <2> QED BY <2>1, <2>2, <2>3
<1>3. LoopInv(h)'
  BY <1>0, <1>2 DEF LoopInv, TeleopStreamTypes
<1>4. ASSUME NEW who \in Members, room.loop = h PROVE KnownOf(who, h)'
  <2>1. KnownOf(who, h) /\ h # None
    BY <1>4, TeleopStreamAssumption DEF TeleopStreamInv, RoomInv
  <2> QED BY <1>1, <1>2, <2>1, Unmoved DEF KnownOf
<1>5. room.loop = h => ~cancelled'[h]
  BY <1>1, TeleopStreamAssumption DEF TeleopStreamInv, RoomInv
<1>6. \A who \in Members : Inherits(who, who)
  BY <1>1, Unmoved
<1> QED BY <1>0, <1>1, <1>2, <1>3, <1>4, <1>5, <1>6, LoopMoves

\* A frame takes its room's members with it, and leaves no trace without a room.
LEMMA PushIsOnlyOf ==
    ASSUME TeleopStreamInv, StreamNext, NEW h \in Loops, LoopPushesEpisode(h) \/ LoopPushesTask(h)
    PROVE  OnlyOf(h) /\ cancelled' = cancelled /\ inbox' = inbox
<1>0. TeleopStreamTypes
  BY DEF TeleopStreamInv
<1>1. PICK kind, data : FanOut(h, kind, data)
  BY DEF LoopPushesEpisode, LoopPushesTask
<1>2. /\ \A v \in Viewers : v \notin room.subs => chan'[v] = chan[v]
      /\ room.loop = None => cache' = cache /\ overdue' = overdue
  BY <1>1 DEF FanOut
<1>3. /\ writes' = writes /\ owed' = owed /\ inbox' = inbox /\ room' = room /\ shown' = shown
      /\ cancelled' = cancelled
  BY DEF LoopPushesEpisode, LoopPushesTask, busVars
<1>4. \A g \in Loops : g # h => loop'[g] = loop[g] /\ read'[g] = read[g] /\ lastTask'[g] = lastTask[g]
  <2>1. CASE LoopPushesEpisode(h)
    BY <1>0, <2>1 DEF LoopPushesEpisode, Goto, TeleopStreamTypes
  <2>2. CASE LoopPushesTask(h)
    BY <1>0, <2>2 DEF LoopPushesTask, Goto, TeleopStreamTypes
  <2> QED BY <2>1, <2>2
<1> QED BY <1>2, <1>3, <1>4 DEF OnlyOf

\* A push of the episode: what was read is sent to the whole room.
LEMMA PushesEpisode ==
    ASSUME TeleopStreamInv, StreamNext, NEW h \in Loops, LoopPushesEpisode(h)
    PROVE  TeleopStreamInv'
<1> DEFINE task == TaskAt[read[h]]
<1>0. TeleopStreamTypes /\ TeleopStreamTypes' /\ LoopInv(h) /\ RoomInv
  BY TypesNext DEF TeleopStreamInv
<1>1. OnlyOf(h) /\ cancelled' = cancelled /\ inbox' = inbox /\ owed' = owed /\ writes' = writes
  BY PushIsOnlyOf DEF OnlyOf
<1>2. loop[h] = "episode" /\ read[h] \in 0..MaxWrites /\ inbox[h] # "absent"
  BY <1>0 DEF LoopPushesEpisode, LoopInv
<1>3. /\ loop'[h] = IF task = None \/ task = lastTask[h] THEN "wait" ELSE "task"
      /\ loop'[h] = "task" => read'[h] = read[h]
      /\ lastTask'[h] = IF task = None THEN None ELSE lastTask[h]
  BY <1>0 DEF LoopPushesEpisode, Goto, TeleopStreamTypes
<1>4. LoopInv(h)'
  BY <1>1, <1>2, <1>3 DEF LoopInv
<1>5. ASSUME NEW who \in Members, room.loop # None
      PROVE  /\ room.loop = h => Has(who, "episode")' = read[h] \/ Missed(who, "episode")'
             /\ room.loop # h => Inherits(who, who)
             /\ \A data : HasOrMissed(who, "task", data) => HasOrMissed(who, "task", data)'
  <2>1. FanOut(h, "episode", read[h]) /\ UNCHANGED <<room, shown>>
    BY DEF LoopPushesEpisode
  <2>2. [kind |-> "episode", data |-> read[h]] \in Frame
    BY <1>2 DEF Frame, Kinds
  <2>3. /\ room.loop = h => Has(who, "episode")' = read[h] \/ Missed(who, "episode")'
        /\ room.loop # h => Missed(who, "episode")'
        /\ \A k \in Kinds : k # "episode" =>
             Has(who, k)' = Has(who, k) /\ (Missed(who, k)' <=> Missed(who, k))
    BY <1>0, <1>5, <2>1, <2>2, FannedOut DEF Kinds
  <2> QED BY <2>3 DEF Inherits, HasOrMissed, Kinds
<1>6. ASSUME room.loop = h, NEW who \in Members PROVE KnownOf(who, h)'
  <2>1. KnownOf(who, h) /\ room.loop # None /\ (Served(h) => read[h] = writes)
    BY <1>0, <1>2, <1>6, TeleopStreamAssumption DEF RoomInv
  <2>2. Has(who, "episode")' = read[h] \/ Missed(who, "episode")'
    BY <1>5, <1>6, <2>1
  <2>3. \A data : HasOrMissed(who, "task", data) => HasOrMissed(who, "task", data)'
    BY <1>5, <2>1
  <2>4. Served(h)' <=> Served(h)
    BY <1>1 DEF Served
  <2>5. lastTask'[h] # None => lastTask'[h] = lastTask[h] /\ HasOrMissed(who, "task", lastTask[h])
    BY <1>3, <2>1 DEF KnownOf
  <2>6. loop'[h] = "wait" /\ Served(h) /\ TaskAt[writes] # None => HasOrMissed(who, "task", TaskAt[writes])
    BY <1>3, <2>1 DEF KnownOf
  <2> QED BY <1>1, <2>1, <2>2, <2>3, <2>4, <2>5, <2>6 DEF KnownOf, HasOrMissed
<1>7. room.loop = h => loop'[h] # "off" /\ ~cancelled'[h]
  BY <1>0, <1>1, <1>3, TeleopStreamAssumption DEF RoomInv
<1>8. room.loop = h => (loop'[h] \in {"episode", "task"} /\ Served(h)' => read'[h] = writes)
  BY <1>0, <1>1, <1>2, <1>3, TeleopStreamAssumption DEF RoomInv, Served
<1> QED BY <1>0, <1>1, <1>4, <1>5, <1>6, <1>7, <1>8, LoopMoves

\* A push of the task, or none, if the loop believes that it pushed it already.
LEMMA PushesTask ==
    ASSUME TeleopStreamInv, StreamNext, NEW h \in Loops, LoopPushesTask(h)
    PROVE  TeleopStreamInv'
<1> DEFINE task == TaskAt[read[h]]
<1>0. TeleopStreamTypes /\ TeleopStreamTypes' /\ LoopInv(h) /\ RoomInv
  BY TypesNext DEF TeleopStreamInv
<1>1. OnlyOf(h) /\ cancelled' = cancelled /\ inbox' = inbox /\ owed' = owed /\ writes' = writes
  BY PushIsOnlyOf DEF OnlyOf
<1>2. loop[h] = "task" /\ task \in Tasks /\ task # None /\ inbox[h] # "absent"
  BY <1>0, PushedIs, TeleopStreamAssumption DEF LoopPushesTask, LoopInv
<1>3. loop'[h] = "wait" /\ lastTask'[h] = task
  BY <1>0 DEF LoopPushesTask, Goto, TeleopStreamTypes
<1>4. LoopInv(h)'
  BY <1>1, <1>2, <1>3 DEF LoopInv
<1>5. ASSUME NEW who \in Members, room.loop # None
      PROVE  /\ room.loop = h => Has(who, "task")' = task \/ Missed(who, "task")'
             /\ room.loop # h => Inherits(who, who)
             /\ \A data : HasOrMissed(who, "episode", data) => HasOrMissed(who, "episode", data)'
  <2>1. FanOut(h, "task", task) /\ UNCHANGED <<room, shown>>
    BY DEF LoopPushesTask
  <2>2. [kind |-> "task", data |-> task] \in Frame
    BY <1>2 DEF Frame, Kinds
  <2>3. /\ room.loop = h => Has(who, "task")' = task \/ Missed(who, "task")'
        /\ room.loop # h => Missed(who, "task")'
        /\ \A k \in Kinds : k # "task" =>
             Has(who, k)' = Has(who, k) /\ (Missed(who, k)' <=> Missed(who, k))
    BY <1>0, <1>5, <2>1, <2>2, FannedOut DEF Kinds
  <2> QED BY <2>3 DEF Inherits, HasOrMissed, Kinds
<1>6. ASSUME room.loop = h, NEW who \in Members PROVE KnownOf(who, h)'
  <2>1. KnownOf(who, h) /\ room.loop # None /\ (Served(h) => read[h] = writes)
    BY <1>0, <1>2, <1>6, TeleopStreamAssumption DEF RoomInv
  <2>2. Has(who, "task")' = task \/ Missed(who, "task")'
    BY <1>5, <1>6, <2>1
  <2>3. Served(h) => HasOrMissed(who, "episode", writes) /\ task = TaskAt[writes]
    BY <1>2, <2>1 DEF KnownOf
  <2>4. (Served(h)' <=> Served(h)) /\ \A data : HasOrMissed(who, "episode", data) => HasOrMissed(who, "episode", data)'
    BY <1>1, <1>5, <2>1 DEF Served
  <2> QED BY <1>1, <1>3, <2>2, <2>3, <2>4 DEF KnownOf, HasOrMissed
<1>7. room.loop = h => loop'[h] # "off" /\ ~cancelled'[h]
  BY <1>0, <1>1, <1>3, TeleopStreamAssumption DEF RoomInv
<1> QED BY <1>0, <1>1, <1>3, <1>4, <1>5, <1>6, <1>7, LoopMoves

\* What a failed fetch leaves out is missed by the members.
LEMMA PushFails ==
    ASSUME TeleopStreamInv, StreamNext, NEW h \in Loops, LoopReadFails(h) \/ LoopTaskFails(h)
    PROVE  TeleopStreamInv'
<1>0. TeleopStreamTypes /\ TeleopStreamTypes' /\ LoopInv(h) /\ RoomInv
  BY TypesNext DEF TeleopStreamInv
<1>1. OnlyOf(h) /\ UNCHANGED <<inbox, owed, writes, cancelled, lastTask, cache, chan, shown>>
  <2>1. CASE LoopReadFails(h)
    BY <1>0, <2>1, TeleopStreamAssumption DEF LoopReadFails, Goto, Owe, OnlyOf, busVars, roomVars, pageVars, TeleopStreamTypes
  <2>2. CASE LoopTaskFails(h)
    BY <1>0, <2>2, TeleopStreamAssumption DEF LoopTaskFails, Goto, Owe, OnlyOf, busVars, roomVars, pageVars, TeleopStreamTypes
  <2> QED BY <2>1, <2>2
<1>2. loop[h] \in {"push", "task"} /\ loop'[h] = "wait"
  BY <1>0 DEF LoopReadFails, LoopTaskFails, Goto, TeleopStreamTypes
<1>3. PICK kinds \in SUBSET Kinds : Owe(h, kinds) /\ "task" \in kinds /\ (loop[h] = "push" => "episode" \in kinds)
  BY DEF LoopReadFails, LoopTaskFails, Kinds
<1>4. LoopInv(h)'
  BY <1>0, <1>1, <1>2 DEF LoopInv
<1>5. ASSUME NEW who \in Members PROVE Inherits(who, who)
  <2>1. \A kind : Missed(who, kind) => Missed(who, kind)'
    BY <1>3 DEF Owe, Missed
  <2>2. \A kind : Has(who, kind)' = Has(who, kind)
    BY <1>1 DEF Has, Latest
  <2> QED BY <1>3, <2>1, <2>2 DEF Inherits, Owe
<1>6. ASSUME room.loop = h, NEW who \in Members PROVE KnownOf(who, h)'
  <2>1. KnownOf(who, h) /\ (Served(h)' <=> Served(h))
    BY <1>0, <1>1, <1>6, TeleopStreamAssumption DEF RoomInv, Served
  <2>2. Missed(who, "task")' /\ (loop[h] = "push" => Missed(who, "episode")')
    BY <1>3, <1>6 DEF Owe, Missed, Members
  <2>3. loop[h] = "task" => (HasOrMissed(who, "episode", writes) => Has(who, "episode")' = writes \/ Missed(who, "episode")')
    BY <1>1, <1>5 DEF Inherits, HasOrMissed, Kinds
  <2> QED BY <1>1, <1>2, <2>1, <2>2, <2>3 DEF KnownOf, HasOrMissed
<1>7. room.loop = h => loop'[h] # "off" /\ ~cancelled'[h]
  BY <1>0, <1>1, <1>2, TeleopStreamAssumption DEF RoomInv
<1> QED BY <1>0, <1>1, <1>2, <1>4, <1>5, <1>6, <1>7, LoopMoves

\* A loop that ends is not the room's any more.
LEMMA Ends ==
    ASSUME TeleopStreamInv, StreamNext, NEW h \in Loops, LoopEnds(h)
    PROVE  TeleopStreamInv'
<1>0. TeleopStreamTypes /\ TeleopStreamTypes' /\ RoomInv
  BY TypesNext DEF TeleopStreamInv
<1>1. OnlyOf(h) /\ UNCHANGED <<cache, chan, shown, overdue>>
  BY <1>0 DEF LoopEnds, BusUnsubscribe, Goto, OnlyOf, roomVars, pageVars, TeleopStreamTypes
<1>2. LoopInv(h)'
  BY <1>0 DEF LoopEnds, Goto, LoopInv, TeleopStreamTypes
<1>3. room.loop # h
  BY <1>0, TeleopStreamAssumption DEF LoopEnds, RoomInv
<1>4. \A who \in Members : Inherits(who, who)
  BY <1>1, Unmoved
<1> QED BY <1>0, <1>1, <1>2, <1>3, <1>4, LoopMoves

\* With a write nothing is served; with a signal no loop is that has a channel.
LEMMA BusMoves ==
    ASSUME TeleopStreamInv, StreamNext, Reports \/ Notifies
    PROVE  TeleopStreamInv'
<1>0. TeleopStreamTypes /\ TeleopStreamTypes' /\ RoomInv
  BY TypesNext DEF TeleopStreamInv
<1>1. UNCHANGED <<roomVars, loopVars, pageVars, overdue>>
  BY DEF Reports, Notifies
<1>2. ASSUME NEW g \in Loops
      PROVE  /\ inbox[g] # "absent" => inbox'[g] # "absent" /\ ~Served(g)'
  <2>1. CASE Reports
    BY <1>0, <2>1 DEF Reports, Write, Served, TeleopStreamTypes
  <2>2. CASE Notifies
    BY <1>0, <2>2, TeleopStreamAssumption DEF Notifies, Notify, Signalled, Served, TeleopStreamTypes
  <2> QED BY <2>1, <2>2
<1>3. ASSUME NEW g \in Loops PROVE LoopInv(g)'
  BY <1>1, <1>2 DEF LoopInv, TeleopStreamInv, loopVars
<1>4. ASSUME room.loop # None
      PROVE  /\ loop'[room.loop] # "off" /\ ~cancelled'[room.loop]
             /\ loop'[room.loop] \in {"episode", "task"} /\ Served(room.loop)' => read'[room.loop] = writes'
             /\ \A who \in Members : KnownOf(who, room.loop)'
  <2>1. room.loop \in Loops
    BY <1>0, <1>4 DEF TeleopStreamTypes
  <2>2. loop[room.loop] \notin {"off", "start"} => ~Served(room.loop)'
    BY <1>1, <1>2, <2>1 DEF TeleopStreamInv, LoopInv, Served, roomVars
  <2>3. ASSUME NEW who \in Members PROVE KnownOf(who, room.loop)'
    <3>1. KnownOf(who, room.loop)
      BY <1>0, <1>4 DEF RoomInv
    <3>2. Has(who, "task")' = Has(who, "task") /\ (Missed(who, "task")' <=> Missed(who, "task"))
      BY <1>1 DEF Has, Missed, Latest, roomVars, pageVars
    <3> QED BY <1>1, <2>2, <3>1, <3>2 DEF KnownOf, HasOrMissed, loopVars, roomVars
  <2> QED BY <1>0, <1>1, <1>4, <2>2, <2>3 DEF RoomInv, loopVars, roomVars, Served
<1>5. room' = room /\ Members' = Members
  BY <1>1 DEF Members, roomVars
<1>6. RoomInv'
  BY <1>0, <1>1, <1>4, <1>5 DEF RoomInv, roomVars, pageVars, Served, KnownOf, HasOrMissed
<1> QED BY <1>0, <1>3, <1>6 DEF TeleopStreamInv

\* The room, when its loop goes on and each member has what a member had.
LEMMA RoomKept ==
    ASSUME TeleopStreamInv, TeleopStreamTypes', UNCHANGED <<busVars, loopVars>>,
           room.loop # None, room'.loop = room.loop,
           \A v \in Viewers \ room'.subs : chan'[v] = <<>> /\ shown'[v] = Nothing,
           \A who \in Members' : \E other \in Members : Inherits(who, other)
    PROVE  TeleopStreamInv'
<1>1. \A g \in Loops : LoopInv(g)'
  BY DEF TeleopStreamInv, LoopInv, busVars, loopVars
<1> DEFINE g == room.loop
<1>2. /\ loop[g] # "off" /\ ~cancelled[g]
      /\ loop[g] \in {"episode", "task"} /\ Served(g) => read[g] = writes
      /\ \A who \in Members : KnownOf(who, g)
  BY DEF TeleopStreamInv, RoomInv
<1>3. ASSUME NEW who \in Members' PROVE KnownOf(who, room.loop)'
  <2>1. PICK other \in Members : Inherits(who, other)
    OBVIOUS
  <2>2. /\ KnownOf(other, g) /\ lastTask'[g] = lastTask[g] /\ loop'[g] = loop[g]
        /\ writes' = writes /\ (Served(room.loop)' => Served(g))
    BY <1>2 DEF busVars, loopVars, Served
  <2>3. KnownOf(who, g)'
    BY <2>1, <2>2, KnownKept
  <2> QED BY <2>3
<1>4. RoomInv'
  BY <1>2, <1>3 DEF RoomInv, busVars, loopVars, Served
<1> QED BY <1>1, <1>4 DEF TeleopStreamInv

\* The first to join has a new loop, which knows nothing yet; another inherits
\* what the room keeps.
LEMMA Joins ==
    ASSUME TeleopStreamInv, StreamNext, NEW v \in Viewers, Join(v)
    PROVE  TeleopStreamInv'
<1>0. TeleopStreamTypes /\ TeleopStreamTypes' /\ RoomInv
  BY TypesNext DEF TeleopStreamInv
<1>1. /\ UNCHANGED <<busVars, cache, cancelled, read, lastTask, shown>> /\ v \notin room.subs
      /\ overdue' = overdue \cup {<<v, k>> : k \in {k \in Kinds : <<"room", k>> \in overdue}}
      /\ v # "room" /\ chan[v] = <<>> /\ shown[v] = Nothing
  BY <1>0, TeleopStreamAssumption DEF Join, RoomInv
<1>2. CASE room.loop = None
  <2>1. PICK g \in Loops : /\ loop[g] = "off" /\ loop' = [loop EXCEPT ![g] = "start"]
                           /\ room' = [loop |-> g, subs |-> {v}] /\ UNCHANGED chan
    BY <1>2 DEF Join
  <2>2. room.subs = {} /\ lastTask[g] = None /\ ~cancelled[g]
    BY <1>0, <1>2, <2>1 DEF RoomInv, TeleopStreamInv, LoopInv
  <2>3. ASSUME NEW h \in Loops PROVE LoopInv(h)'
    BY <1>0, <1>1, <2>1, <2>2 DEF TeleopStreamInv, LoopInv, TeleopStreamTypes, busVars
  <2>4. room'.loop = g /\ room'.subs = {v} /\ loop'[g] = "start" /\ g # None /\ lastTask'[g] = None /\ ~cancelled'[g]
    BY <1>0, <1>1, <2>1, <2>2, TeleopStreamAssumption DEF TeleopStreamTypes
  <2>5. \A who : KnownOf(who, g)'
    BY <2>4 DEF KnownOf
  <2>6. \A u \in Viewers \ room'.subs : chan'[u] = <<>> /\ shown'[u] = Nothing
    BY <1>0, <1>1, <2>1, <2>2 DEF RoomInv
  <2>7. RoomInv'
    BY <2>4, <2>5, <2>6 DEF RoomInv
  <2> QED BY <1>0, <2>3, <2>7 DEF TeleopStreamInv
<1>3. CASE room.loop # None
  <2>1. room' = [room EXCEPT !.subs = @ \cup {v}] /\ chan' = [chan EXCEPT ![v] = Replay] /\ UNCHANGED loop
    BY <1>1, <1>3 DEF Join
  <2>2. room'.loop = room.loop /\ room'.subs = room.subs \cup {v} /\ Members' = Members \cup {v}
    BY <1>0, <2>1 DEF TeleopStreamTypes, Members
  <2>3. ASSUME NEW who \in Members, who # v PROVE Inherits(who, who)
    <3>1. \A kind : Has(who, kind)' = Has(who, kind)
      BY <1>0, <1>1, <2>1, <2>3 DEF Has, Latest, TeleopStreamTypes, Members
    <3> QED BY <1>1, <3>1 DEF Inherits, Missed
  <2>4. Inherits(v, "room")
    <3>1. ASSUME NEW kind \in Kinds PROVE Has(v, kind)' = Has("room", kind)
      <4>1. chan'[v] = Replay /\ shown'[v][kind] = None
        BY <1>0, <1>1, <2>1 DEF TeleopStreamTypes, Nothing
      <4>2. After(Replay, None, kind) = cache[kind]
        BY <1>0, ReplayIs
      <4>3. Latest(v, kind)' = After(chan'[v], shown'[v][kind], kind)
        BY LatestIs
      <4> QED BY <1>1, <4>1, <4>2, <4>3 DEF Has
    <3>2. \A kind \in Kinds : Missed("room", kind) => Missed(v, kind)'
      BY <1>1 DEF Missed
    <3> QED BY <3>1, <3>2 DEF Inherits
  <2>5. \A who \in Members' : \E other \in Members : Inherits(who, other)
    BY <2>2, <2>3, <2>4 DEF Members
  <2>6. \A u \in Viewers \ room'.subs : chan'[u] = <<>> /\ shown'[u] = Nothing
    BY <1>0, <1>1, <2>1, <2>2 DEF RoomInv, TeleopStreamTypes
  <2> QED BY <1>0, <1>1, <1>3, <2>1, <2>2, <2>5, <2>6, RoomKept DEF loopVars
<1> QED BY <1>2, <1>3

\* The others keep what they have; the last leaves no room, but a loop that is
\* cancelled.
LEMMA Leaves ==
    ASSUME TeleopStreamInv, StreamNext, NEW v \in Viewers, Leave(v)
    PROVE  TeleopStreamInv'
<1>0. TeleopStreamTypes /\ TeleopStreamTypes' /\ RoomInv
  BY TypesNext DEF TeleopStreamInv
<1>1. /\ UNCHANGED <<busVars, loop, read, lastTask>> /\ v \in room.subs /\ v # "room"
      /\ chan' = [chan EXCEPT ![v] = <<>>] /\ shown' = [shown EXCEPT ![v] = Nothing]
      /\ room.loop # None
  BY <1>0, TeleopStreamAssumption DEF Leave, RoomInv
<1>2. \A u \in Viewers \ (room.subs \ {v}) : chan'[u] = <<>> /\ shown'[u] = Nothing
  BY <1>0, <1>1 DEF RoomInv, TeleopStreamTypes
<1>3. CASE room.subs # {v}
  <2>1. /\ room' = [room EXCEPT !.subs = @ \ {v}] /\ overdue' = overdue \ ({v} \X Kinds)
        /\ UNCHANGED <<cache, cancelled>>
    BY <1>3 DEF Leave
  <2>2. room'.loop = room.loop /\ room'.subs = room.subs \ {v} /\ Members' = Members \ {v}
    BY <1>0, <1>1, <2>1 DEF TeleopStreamTypes, Members
  <2>3. ASSUME NEW who \in Members' PROVE who \in Members /\ Inherits(who, who)
    <3>1. who # v /\ who \in Members
      BY <2>2, <2>3
    <3>2. \A kind : Has(who, kind)' = Has(who, kind)
      BY <1>0, <1>1, <2>1, <3>1 DEF Has, Latest, TeleopStreamTypes, Members
    <3>3. \A kind : Missed(who, kind) => Missed(who, kind)'
      BY <2>1, <3>1 DEF Missed
    <3> QED BY <3>1, <3>2, <3>3 DEF Inherits
  <2>4. \A who \in Members' : \E other \in Members : Inherits(who, other)
    BY <2>3
  <2> QED BY <1>0, <1>1, <1>2, <2>1, <2>2, <2>4, RoomKept DEF loopVars
<1>4. CASE room.subs = {v}
  <2>1. /\ room' = NoRoom /\ cache' = Nothing /\ overdue' = {}
        /\ cancelled' = [cancelled EXCEPT ![room.loop] = TRUE]
    BY <1>4 DEF Leave
  <2>2. loop[room.loop] # "off"
    BY <1>0, <1>1 DEF RoomInv
  <2>3. ASSUME NEW g \in Loops PROVE LoopInv(g)'
    BY <1>0, <1>1, <2>1, <2>2 DEF TeleopStreamInv, LoopInv, TeleopStreamTypes, busVars
  <2>4. room'.loop = None /\ room'.subs = {}
    BY <2>1 DEF NoRoom
  <2>5. RoomInv'
    BY <1>2, <1>4, <2>1, <2>4 DEF RoomInv
  <2> QED BY <1>0, <2>3, <2>5 DEF TeleopStreamInv
<1> QED BY <1>3, <1>4

\* A page has what is on its way to it.
LEMMA Receives ==
    ASSUME TeleopStreamInv, StreamNext, NEW v \in Viewers, Receive(v)
    PROVE  TeleopStreamInv'
<1>0. TeleopStreamTypes /\ TeleopStreamTypes' /\ RoomInv
  BY TypesNext DEF TeleopStreamInv
<1>1. /\ UNCHANGED <<busVars, roomVars, loopVars, overdue>> /\ chan[v] # <<>> /\ v # "room"
      /\ shown' = [shown EXCEPT ![v][Head(chan[v]).kind] = Head(chan[v]).data]
      /\ chan' = [chan EXCEPT ![v] = Tail(@)]
  BY TeleopStreamAssumption DEF Receive
<1>2. v \in room.subs /\ room.loop # None /\ Members' = Members /\ room' = room
  BY <1>0, <1>1 DEF RoomInv, roomVars, Members
<1>3. ASSUME NEW who \in Members, NEW kind \in Kinds PROVE Has(who, kind)' = Has(who, kind)
  <2>1. CASE who # v
    BY <1>0, <1>1, <2>1 DEF Has, Latest, TeleopStreamTypes, Members, roomVars
  <2>2. CASE who = v
    <3>1. PICK s \in Seq(Frame) : s = chan[v]
      BY <1>0 DEF TeleopStreamTypes
    <3>2. PICK t \in Seq(Frame) : t = Tail(s)
      BY <1>1, <3>1, HeadTailProperties
    <3>3. Head(s) = s[1] /\ Len(s) = Len(t) + 1 /\ \A i \in 1 .. Len(t) : t[i] = s[i + 1]
      BY <1>1, <3>1, <3>2, HeadTailProperties
    <3>4. s[1] \in Frame
      BY <1>1, <3>1, <3>3, HeadTailProperties
    <3>5. chan'[v] = t /\ shown'[v][kind] = IF s[1].kind = kind THEN s[1].data ELSE shown[v][kind]
      BY <1>0, <1>1, <3>1, <3>2, <3>3, <3>4 DEF TeleopStreamTypes, Frame
    <3>6. After(t, shown'[v][kind], kind) = After(s, shown[v][kind], kind)
      BY <3>3, <3>5, AfterReceived
    <3> QED BY <1>1, <2>2, <3>1, <3>5, <3>6, LatestIs DEF Has
  <2> QED BY <2>1, <2>2
<1>4. \A who \in Members' : \E other \in Members : Inherits(who, other)
  BY <1>1, <1>2, <1>3 DEF Inherits, Missed
<1>5. \A u \in Viewers \ room'.subs : chan'[u] = <<>> /\ shown'[u] = Nothing
  BY <1>0, <1>1, <1>2 DEF RoomInv, TeleopStreamTypes
<1> QED BY <1>0, <1>1, <1>2, <1>4, <1>5, RoomKept

-----------------------------------------------------------------------------

\* The room is empty at first.
LEMMA TeleopStreamInvInit == StreamInit => TeleopStreamInv
<1> SUFFICES ASSUME StreamInit PROVE TeleopStreamInv
  OBVIOUS
<1>1. <<>> \in Seq(Frame)
  BY EmptySeq
<1>2. TeleopStreamTypes
  BY <1>1, BusAssumption DEF StreamInit, BusInit, TeleopStreamTypes, NoRoom, Nothing
<1>3. RoomInv
  BY DEF StreamInit, RoomInv, NoRoom
<1>4. \A g \in Loops : LoopInv(g)
  BY DEF StreamInit, LoopInv
<1> QED BY <1>2, <1>3, <1>4 DEF TeleopStreamInv

\* Every step keeps the invariant.
LEMMA TeleopStreamInvNext == TeleopStreamInv /\ [StreamNext]_vars => TeleopStreamInv'
<1>1. ASSUME TeleopStreamInv, StreamNext PROVE TeleopStreamInv'
  BY <1>1, BusMoves, LoopGoes, PushesEpisode, PushesTask, PushFails, Ends, Joins, Leaves, Receives
  DEF StreamNext, LoopStep
<1>2. ASSUME TeleopStreamInv, UNCHANGED vars PROVE TeleopStreamInv'
  <2> USE <1>2 DEF vars, busVars, roomVars, loopVars, pageVars
  <2>1. TeleopStreamTypes' /\ \A g \in Loops : LoopInv(g)'
    BY TypesNext DEF TeleopStreamInv, LoopInv
  <2>2. \A who, g : KnownOf(who, g)' <=> KnownOf(who, g)
    BY DEF KnownOf, HasOrMissed, Has, Missed, Latest, Served
  <2>3. RoomInv'
    BY <2>2 DEF TeleopStreamInv, RoomInv, Members, Served, KnownOf, HasOrMissed, Missed, Has, Latest
  <2> QED BY <2>1, <2>3 DEF TeleopStreamInv
<1> QED BY <1>1, <1>2

\* Whenever the room's loop has served every signal, the room and its pages are
\* up to date, but for what they missed (handler/teleop_broadcaster.go).
THEOREM QuietRoomIsCurrentAlways == StreamSpec => []QuietRoomIsCurrent
<1>1. ASSUME TeleopStreamInv PROVE QuietRoomIsCurrent
  <2> SUFFICES ASSUME Quiet
               PROVE  /\ UpToDate("room", cache["episode"], cache["task"])
                      /\ \A v \in room.subs : UpToDate(v, Latest(v, "episode"), Latest(v, "task"))
    BY DEF QuietRoomIsCurrent
  <2>1. /\ loop[room.loop] = "wait" /\ Served(room.loop)
        /\ \A who \in Members : KnownOf(who, room.loop)
    BY <1>1 DEF Quiet, TeleopStreamInv, RoomInv, Served
  <2>2. \A who \in Members : UpToDate(who, Has(who, "episode"), Has(who, "task"))
    BY <2>1 DEF KnownOf, HasOrMissed, Missed, UpToDate
  <2>3. "room" \in Members /\ \A v \in room.subs : v \in Members /\ v # "room"
    BY <1>1, TeleopStreamAssumption DEF Members, TeleopStreamInv, TeleopStreamTypes
  <2>4. Has("room", "episode") = cache["episode"] /\ Has("room", "task") = cache["task"]
    BY DEF Has
  <2>5. ASSUME NEW v \in room.subs PROVE UpToDate(v, Latest(v, "episode"), Latest(v, "task"))
    BY <2>2, <2>3 DEF Has
  <2> QED BY <2>2, <2>3, <2>4, <2>5
<1> QED BY <1>1, TeleopStreamInvInit, TeleopStreamInvNext, PTL DEF StreamSpec
=============================================================================
