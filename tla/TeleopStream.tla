---------------------------- MODULE TeleopStream ----------------------------
(***************************************************************************)
(* The frames of one robot's teleoperation pages: teleopBroadcaster, whose *)
(* loop pushes the robot's current episode at every signal of the bus, and *)
(* the episode's task when it is another one than the last it pushed.  A   *)
(* room keeps the last frame of each kind for connections that join later. *)
(***************************************************************************)
EXTENDS EventBus, Sequences, FiniteSetsExt

CONSTANTS
    Viewers,    \* the connections, each with a buffered channel of frames
    Loops,      \* goroutines; as many loops as run at once
    Tasks,
    TaskAt,     \* the task of the robot's current episode after each write, None
                \* when it has no episode
    SubBuffer,  \* teleopSubBuffer
    None

Kinds == {"episode", "task"}

ASSUME TeleopStreamAssumption ==
    /\ TaskAt \in [0..MaxWrites -> Tasks \cup {None}] /\ None \notin Tasks
    /\ None \notin Loops /\ None \notin Nat /\ Tasks \cap Nat = {}
    /\ Loops \subseteq Subscribers /\ "room" \notin Viewers
    /\ SubBuffer \in Nat /\ SubBuffer >= 2

VARIABLES
    room,           \* its loop and its subscribers
    cache,          \* lastEpisode and lastTask, by kind
    loop, cancelled, \* of each loop: its step, and whether its context is done
    read,           \* the episode that it has read
    lastTask,       \* its lastTaskID
    chan,           \* a connection's channel
    shown,          \* what the page shows of its connection's frames, by kind
    overdue         \* history: what a connection, and the room's cache, has missed

roomVars == <<room, cache>>
loopVars == <<loop, cancelled, read, lastTask>>
pageVars == <<chan, shown>>
vars == <<busVars, roomVars, loopVars, pageVars, overdue>>

Frames(kind) == IF kind = "episode" THEN 0..MaxWrites ELSE Tasks
Frame == [kind : Kinds, data : 0..MaxWrites \cup Tasks]
NoRoom == [loop |-> None, subs |-> {}]
Nothing == [k \in Kinds |-> None]

StreamTypeOK ==
    /\ BusTypeOK
    /\ room.loop \in Loops \cup {None} /\ room.subs \subseteq Viewers
    /\ \A k \in Kinds : cache[k] \in Frames(k) \cup {None}
    /\ loop \in [Loops -> {"off", "start", "push", "episode", "task", "wait"}]
    /\ cancelled \in [Loops -> BOOLEAN]
    /\ read \in [Loops -> 0..MaxWrites \cup {None}]
    /\ lastTask \in [Loops -> Tasks \cup {None}]
    /\ \A v \in Viewers : chan[v] \in Seq(Frame) /\ Len(chan[v]) <= SubBuffer
    /\ \A v \in Viewers, k \in Kinds : shown[v][k] \in Frames(k) \cup {None}
    /\ overdue \subseteq (Viewers \cup {"room"}) \X Kinds

StreamInit ==
    /\ BusInit
    /\ room = NoRoom /\ cache = Nothing
    /\ loop = [g \in Loops |-> "off"]
    /\ cancelled = [g \in Loops |-> FALSE]
    /\ read = [g \in Loops |-> None] /\ lastTask = read
    /\ chan = [v \in Viewers |-> <<>>]
    /\ shown = [v \in Viewers |-> Nothing]
    /\ overdue = {}

Reports == Write /\ UNCHANGED <<roomVars, loopVars, pageVars, overdue>>

Notifies == Notify /\ UNCHANGED <<roomVars, loopVars, pageVars, overdue>>

-----------------------------------------------------------------------------
(* Subscribe and Unsubscribe, each under the lock, and the page's frames.  *)

Kept(kind) == IF cache[kind] = None THEN <<>> ELSE <<[kind |-> kind, data |-> cache[kind]]>>

\* Mistake: the task is left to the loop.
ReplayEpisode == Kept("episode")

\* What the room has kept for a late joiner.
Replay == Kept("episode") \o Kept("task")

\* The first connection starts a loop.
Join(v) ==
    /\ v \notin room.subs
    /\ IF room.loop # None
       THEN /\ room' = [room EXCEPT !.subs = @ \cup {v}]
            /\ chan' = [chan EXCEPT ![v] = Replay]
            /\ UNCHANGED loop
       ELSE \E g \in Loops :
            /\ loop[g] = "off"
            /\ loop' = [loop EXCEPT ![g] = "start"]
            /\ room' = [loop |-> g, subs |-> {v}]
            /\ UNCHANGED chan
    /\ overdue' = overdue \cup {<<v, k>> : k \in {k \in Kinds : <<"room", k>> \in overdue}}
    /\ UNCHANGED <<busVars, cache, cancelled, read, lastTask, shown>>

\* The last to leave takes the room and its cache away.
Leave(v) ==
    /\ v \in room.subs
    /\ chan' = [chan EXCEPT ![v] = <<>>]
    /\ shown' = [shown EXCEPT ![v] = Nothing]
    /\ IF room.subs # {v}
       THEN /\ room' = [room EXCEPT !.subs = @ \ {v}]
            /\ overdue' = overdue \ ({v} \X Kinds)
            /\ UNCHANGED <<cache, cancelled>>
       ELSE /\ room' = NoRoom /\ cache' = Nothing /\ overdue' = {}
            /\ cancelled' = [cancelled EXCEPT ![room.loop] = TRUE]
    /\ UNCHANGED <<busVars, loop, read, lastTask>>

Receive(v) ==
    /\ chan[v] # <<>>
    /\ LET frame == Head(chan[v]) IN shown' = [shown EXCEPT ![v][frame.kind] = frame.data]
    /\ chan' = [chan EXCEPT ![v] = Tail(@)]
    /\ UNCHANGED <<busVars, roomVars, loopVars, overdue>>

-----------------------------------------------------------------------------
(* fanOut                                                                  *)

Full(v) == Len(chan[v]) = SubBuffer

\* A frame of loop g for the room, if there is one, whoever's it is; it passes a
\* connection by whose channel is full.
FanOut(g, kind, data) ==
    /\ cache' = IF room.loop = None THEN cache ELSE [cache EXCEPT ![kind] = data]
    /\ chan' = [v \in Viewers |-> IF v \in room.subs /\ ~Full(v)
                                  THEN Append(chan[v], [kind |-> kind, data |-> data])
                                  ELSE chan[v]]
    /\ LET reached == {"room"} \cup {v \in room.subs : ~Full(v)}
       IN overdue' = IF room.loop = None THEN overdue
                     ELSE IF room.loop # g THEN overdue \cup ((room.subs \cup {"room"}) \X {kind})
                     ELSE (overdue \cup (room.subs \X {kind})) \ (reached \X {kind})

-----------------------------------------------------------------------------
(* The loop.                                                               *)

Goto(g, step) == loop' = [loop EXCEPT ![g] = step]

\* To the bus first, and then the first push.
LoopStarts(g) ==
    /\ loop[g] = "start"
    /\ BusSubscribe(g)
    /\ Goto(g, "push")
    /\ UNCHANGED <<writes, owed, roomVars, cancelled, read, lastTask, pageVars, overdue>>

LoopWakes(g) ==
    /\ loop[g] = "wait" /\ TakeSignal(g)
    /\ Goto(g, "push")
    /\ UNCHANGED <<writes, owed, roomVars, cancelled, read, lastTask, pageVars, overdue>>

\* What the fetches of a push return: the episode with its subtasks and its task.
LoopReads(g) ==
    /\ loop[g] = "push"
    /\ read' = [read EXCEPT ![g] = writes]
    /\ Goto(g, "episode")
    /\ UNCHANGED <<busVars, roomVars, cancelled, lastTask, pageVars, overdue>>

Owe(g, kinds) ==
    overdue' = IF room.loop = g THEN overdue \cup ((room.subs \cup {"room"}) \X kinds) ELSE overdue

\* A fetch of the episode fails: no frame, and nothing to retry it.
LoopReadFails(g) ==
    /\ loop[g] = "push"
    /\ Goto(g, "wait")
    /\ Owe(g, Kinds)
    /\ UNCHANGED <<busVars, roomVars, cancelled, read, lastTask, pageVars>>

\* Mistake: a room that has a task is not sent another.
LoopPushesFirstTask(g) == LET task == TaskAt[read[g]] IN
    /\ loop[g] = "episode"
    /\ FanOut(g, "episode", read[g])
    /\ IF task = None \/ cache["task"] # None
       THEN Goto(g, "wait") /\ read' = [read EXCEPT ![g] = None]
       ELSE Goto(g, "task") /\ UNCHANGED read
    /\ UNCHANGED <<busVars, room, cancelled, lastTask, shown>>

\* The episode's frame, null without one, which also forgets the last task.
LoopPushesEpisode(g) == LET task == TaskAt[read[g]] IN
    /\ loop[g] = "episode"
    /\ FanOut(g, "episode", read[g])
    /\ IF task = None \/ task = lastTask[g]
       THEN Goto(g, "wait") /\ read' = [read EXCEPT ![g] = None]
       ELSE Goto(g, "task") /\ UNCHANGED read
    /\ lastTask' = [lastTask EXCEPT ![g] = IF task = None THEN None ELSE @]
    /\ UNCHANGED <<busVars, room, cancelled, shown>>

LoopPushesTask(g) == LET task == TaskAt[read[g]] IN
    /\ loop[g] = "task"
    /\ FanOut(g, "task", task)
    /\ Goto(g, "wait")
    /\ lastTask' = [lastTask EXCEPT ![g] = task]
    /\ read' = [read EXCEPT ![g] = None]
    /\ UNCHANGED <<busVars, room, cancelled, shown>>

\* A fetch of the task or of its version failed: the next push sends it.
LoopTaskFails(g) ==
    /\ loop[g] = "task"
    /\ Goto(g, "wait")
    /\ Owe(g, {"task"})
    /\ read' = [read EXCEPT ![g] = None]
    /\ UNCHANGED <<busVars, roomVars, cancelled, lastTask, pageVars>>

LoopEnds(g) ==
    /\ loop[g] = "wait" /\ cancelled[g]
    /\ BusUnsubscribe(g)
    /\ Goto(g, "off")
    /\ cancelled' = [cancelled EXCEPT ![g] = FALSE]
    /\ lastTask' = [lastTask EXCEPT ![g] = None]
    /\ UNCHANGED <<writes, owed, roomVars, read, pageVars, overdue>>

-----------------------------------------------------------------------------

LoopStep(g) ==
    \/ LoopStarts(g) \/ LoopWakes(g) \/ LoopReads(g)
    \/ LoopPushesEpisode(g) \/ LoopPushesTask(g) \/ LoopEnds(g)

StreamNext ==
    \/ Reports \/ Notifies
    \/ \E g \in Loops : LoopStep(g) \/ LoopReadFails(g) \/ LoopTaskFails(g)
    \/ \E v \in Viewers : Join(v) \/ Leave(v) \/ Receive(v)

StreamSpec == StreamInit /\ [][StreamNext]_vars

\* Goroutines run, and a page receives what its connection is sent.
StreamFairness ==
    /\ WF_vars(Notifies)
    /\ \A g \in Loops : WF_vars(LoopStep(g))
    /\ \A v \in Viewers : WF_vars(Receive(v))

FairStreamSpec == StreamSpec /\ StreamFairness

-----------------------------------------------------------------------------

\* The loop has served every signal that is or will be.
Quiet == /\ room.loop # None /\ loop[room.loop] = "wait" /\ inbox[room.loop] = "empty"
         /\ owed = 0

\* What a page shows when it has received what is in its channel.
Latest(v, kind) ==
    LET queued == {i \in DOMAIN chan[v] : chan[v][i].kind = kind}
    IN IF queued = {} THEN shown[v][kind] ELSE chan[v][Max(queued)].data

\* The frames are of the robot's current episode and of its task, but for what
\* was missed.
UpToDate(who, episode, task) ==
    /\ episode = writes \/ <<who, "episode">> \in overdue
    /\ task = TaskAt[writes] \/ TaskAt[writes] = None \/ <<who, "task">> \in overdue

\* Whenever the loop has served all signals, every page and what the room keeps
\* for joiners are up to date, although the loop sends a task once only, loops
\* are cancelled and replaced, and joiners live on what the room keeps.  Not so
\* what was missed since the last frame of the kind: at a failed fetch, for a
\* full channel, behind the late frame of a cancelled loop
\* (interfaces/http/handler/teleop_broadcaster.go).
QuietRoomIsCurrent ==
    Quiet => /\ UpToDate("room", cache["episode"], cache["task"])
             /\ \A v \in room.subs : UpToDate(v, Latest(v, "episode"), Latest(v, "task"))

\* A page that stays connected shows the robot's current episode and its task in
\* the end, but for what it missed (interfaces/http/handler/teleop_broadcaster.go).
TeleopReachesPages ==
    \A v \in Viewers :
        <>[](v \in room.subs) =>
            <>[]UpToDate(v, shown[v]["episode"], shown[v]["task"])
=============================================================================
