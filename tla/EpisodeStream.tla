--------------------------- MODULE EpisodeStream ---------------------------
(***************************************************************************)
(* One episode on the pages that show it and on the pages that list it:    *)
(* StreamEpisodeUpdates sends a frame at every signal of the bus, read in  *)
(* three queries; StreamEpisodeListUpdates sends a ping, at which the page *)
(* asks for its list again.  The page of an episode closes its connection  *)
(* for good at the first frame with a terminal status (useEpisodeStream).  *)
(*                                                                         *)
(* The buses of episodes and of lists are told together, and are one here. *)
(* Hidden tabs are StatusStream's; the requests of the robot are           *)
(* EpisodeUsecase's and ExecutionUsecase's, one at a time.                 *)
(***************************************************************************)
EXTENDS EventBus, Sequences

CONSTANT Lists      \* the subscribers that are lists; the others are pages

ASSUME EpisodeStreamAssumption == Lists \subseteq Subscribers

Pages == Subscribers \ Lists

VARIABLES
    row,        \* the episode; whether it has subtasks; these and their executions, as
                \* the number of the write that changed them last; ended: the same, when
                \* the status last became terminal
    conn,       \* of each connection: how far the handler and the hook are
    frame,      \* of each page: what its next frame has read by now; of each list: the
                \* answer to its query
    asked,      \* of each list: how far its query is
    kept,       \* history: the lists that kept, at their last ping, an older answer
    seen        \* what each page and list shows

episodeVars == <<row, conn, frame, asked, kept, seen>>
streamVars == <<busVars, episodeVars>>

Terminal == {"completed", "cancel"}
Unread == [status |-> "unread", ended |-> 0, records |-> 0, executions |-> 0]

-----------------------------------------------------------------------------
(* The episode.                                                            *)

There == row.status # "gone"

Commits(r) ==
    /\ There
    /\ Write
    /\ row' = r
    /\ UNCHANGED <<conn, frame, asked, kept, seen>>

StartEpisode  == row.status = "ready" /\ Commits([row EXCEPT !.status = "recording"])

FinishEpisode ==
    /\ row.status = "recording"
    /\ Commits([row EXCEPT !.status = "completed", !.ended = row.work])

\* Subtasks and executions are cancelled with the episode.
CancelEpisode ==
    LET work == IF row.subTasks THEN writes + 1 ELSE row.work
    IN  /\ row.status = "recording"
        /\ Commits([row EXCEPT !.status = "cancel", !.stopped = TRUE,
                               !.work = work, !.ended = work])

\* Work on a subtask, which asks for the status of the subtask and never for that
\* of the episode: it may come before Start and after Finish.
Works == row.subTasks /\ ~row.stopped /\ Commits([row EXCEPT !.work = writes + 1])

\* Update: any status.
EditEpisode ==
    \E status \in {"ready", "recording", "completed", "cancel"} \ {row.status} :
        Commits([row EXCEPT !.status = status,
                            !.ended = IF status \in Terminal THEN row.work ELSE @])

\* Delete, which the foreign key of subtasks refuses to an episode that has some,
\* tells nobody.
DeleteEpisode ==
    /\ There /\ ~row.subTasks
    /\ row' = [row EXCEPT !.status = "gone"]
    /\ UNCHANGED <<busVars, conn, frame, asked, kept, seen>>

NotifyStreams == Notify /\ UNCHANGED episodeVars

-----------------------------------------------------------------------------
(* StreamEpisodeUpdates.                                                   *)

\* The episode is looked up first, and not used but for its task.
Accept(p) ==
    /\ conn[p].step = "connecting" /\ There
    /\ conn' = [conn EXCEPT ![p].step = "accepted"]
    /\ UNCHANGED <<busVars, row, frame, asked, kept, seen>>

Sending(at) == [step |-> "sending", at |-> at]

Join(p) ==
    /\ conn[p].step = "accepted"
    /\ BusSubscribe(p)
    /\ conn' = [conn EXCEPT ![p] = Sending(1)]
    /\ UNCHANGED <<writes, owed, row, frame, asked, kept, seen>>

Wake(p) ==
    /\ conn[p].step = "live"
    /\ TakeSignal(p)
    /\ conn' = [conn EXCEPT ![p] = Sending(1)]
    /\ UNCHANGED <<writes, owed, row, frame, asked, kept, seen>>

\* Mistake: the episode is read last.
QueriesEpisodeLast == <<"records", "executions", "episode">>

Queries == <<"episode", "records", "executions">>

Reads(f, query) ==
    CASE query = "episode"    -> [f EXCEPT !.status = row.status, !.ended = row.ended]
      [] query = "records"    -> [f EXCEPT !.records = row.work]
      [] query = "executions" -> [f EXCEPT !.executions = row.work]

ReadFrame(p) ==
    /\ conn[p].step = "sending" /\ conn[p].at <= Len(Queries)
    /\ Queries[conn[p].at] = "episode" => There
    /\ frame' = [frame EXCEPT ![p] = Reads(@, Queries[conn[p].at])]
    /\ conn' = [conn EXCEPT ![p].at = @ + 1]
    /\ UNCHANGED <<busVars, row, asked, kept, seen>>

\* Mistake: what was signalled while the frame was read is taken for read.
RestDrained(p) == BusSubscribe(p)

Rest(p) == UNCHANGED inbox

\* The page shows the frame, and leaves for good if it is terminal.
SendFrame(p) ==
    /\ conn[p].step = "sending" /\ conn[p].at > Len(Queries)
    /\ seen' = [seen EXCEPT ![p] = frame[p]]
    /\ IF frame[p].status \in Terminal
       THEN BusUnsubscribe(p) /\ conn' = [conn EXCEPT ![p] = [step |-> "closed"]]
       ELSE Rest(p) /\ conn' = [conn EXCEPT ![p] = [step |-> "live"]]
    /\ frame' = [frame EXCEPT ![p] = Unread]
    /\ UNCHANGED <<writes, owed, row, asked, kept>>

-----------------------------------------------------------------------------
(* StreamEpisodeListUpdates and the list's query.                          *)

Loaded(l) == seen[l] # Unread

\* A ping invalidates the list: a query under way is given up for a new one, but
\* not the first, which goes on and whose answer then counts as new.
Invalidate(l) ==
    IF Loaded(l) \/ asked[l] \in {"no", "failed"}
    THEN /\ asked' = [asked EXCEPT ![l] = "asked"]
         /\ frame' = [frame EXCEPT ![l] = Unread]
         /\ kept' = kept \ {l}
    ELSE /\ UNCHANGED <<asked, frame>>
         /\ kept' = IF asked[l] = "answered" THEN kept \cup {l} ELSE kept

\* The first ping of a connection, and one at every signal.
JoinList(l) ==
    /\ conn[l].step = "connecting"
    /\ BusSubscribe(l)
    /\ conn' = [conn EXCEPT ![l] = [step |-> "live"]]
    /\ Invalidate(l)
    /\ UNCHANGED <<writes, owed, row, seen>>

Ping(l) ==
    /\ conn[l].step = "live"
    /\ TakeSignal(l)
    /\ Invalidate(l)
    /\ UNCHANGED <<writes, owed, row, conn, seen>>

AnswerList(l) ==
    /\ asked[l] \in {"asked", "again"}
    /\ frame' = [frame EXCEPT ![l] = Reads(Unread, "episode")]
    /\ asked' = [asked EXCEPT ![l] = "answered"]
    /\ UNCHANGED <<busVars, row, conn, kept, seen>>

\* A query that fails is repeated once; then the page shows the error.
FailList(l) ==
    /\ asked[l] \in {"asked", "again"}
    /\ asked' = [asked EXCEPT ![l] = IF @ = "asked" THEN "again" ELSE "failed"]
    /\ UNCHANGED <<busVars, row, conn, frame, kept, seen>>

ShowList(l) ==
    /\ asked[l] = "answered"
    /\ seen' = [seen EXCEPT ![l] = frame[l]]
    /\ asked' = [asked EXCEPT ![l] = "no"]
    /\ frame' = [frame EXCEPT ![l] = Unread]
    /\ UNCHANGED <<busVars, row, conn, kept>>

-----------------------------------------------------------------------------
(* Both.                                                                   *)

\* A query fails, the episode is not found, or the connection breaks; a list's
\* query does not depend on it.
ConnectionLost(s) ==
    /\ conn[s].step \notin {"retry", "closed"}
    /\ BusUnsubscribe(s)
    /\ conn' = [conn EXCEPT ![s] = [step |-> "retry"]]
    /\ frame' = [frame EXCEPT ![s] = IF s \in Pages THEN Unread ELSE @]
    /\ UNCHANGED <<writes, owed, row, asked, kept, seen>>

Retry(s) ==
    /\ conn[s].step = "retry"
    /\ conn' = [conn EXCEPT ![s].step = "connecting"]
    /\ UNCHANGED <<busVars, row, frame, asked, kept, seen>>

-----------------------------------------------------------------------------

EpisodeStreamInit ==
    /\ BusInit
    /\ \E some \in BOOLEAN :
         row = [status |-> "ready", work |-> 0, ended |-> 0, stopped |-> FALSE, subTasks |-> some]
    /\ conn = [s \in Subscribers |-> [step |-> "connecting"]]
    /\ frame = [s \in Subscribers |-> Unread]
    /\ asked = [l \in Lists |-> "asked"]
    /\ kept = {}
    /\ seen = [s \in Subscribers |-> Unread]

EpisodeStreamNext ==
    \/ StartEpisode \/ FinishEpisode \/ CancelEpisode \/ Works
    \/ EditEpisode \/ DeleteEpisode \/ NotifyStreams
    \/ \E p \in Pages : Accept(p) \/ Join(p) \/ Wake(p) \/ ReadFrame(p) \/ SendFrame(p)
    \/ \E l \in Lists : JoinList(l) \/ Ping(l) \/ AnswerList(l) \/ FailList(l) \/ ShowList(l)
    \/ \E s \in Subscribers : ConnectionLost(s) \/ Retry(s)

EpisodeStreamSpec == EpisodeStreamInit /\ [][EpisodeStreamNext]_streamVars

-----------------------------------------------------------------------------
(* What must hold.                                                         *)

\* Nothing is under way that would change what s shows.
Waits(s) ==
    /\ owed = 0 /\ inbox[s] = "empty" /\ conn[s].step = "live"
    /\ s \in Lists => asked[s] = "no"

\* Whenever a page waits and every request has told of what it wrote, the page
\* shows the episode, its subtasks and its executions as they are, though its
\* frames are read in several queries, one write signals for many, and it joins the
\* bus some time after the episode was looked up.  So does a list, unless the answer
\* to its first query was on its way at its last ping.  A page that waits when its
\* episode is deleted goes on showing it.
WaitingPageIsCurrent ==
    \A s \in Subscribers \ kept :
        Waits(s) /\ There =>
            /\ seen[s].status = row.status
            /\ s \in Pages => seen[s].records = row.work /\ seen[s].executions = row.work

\* A page closes at the first frame with a terminal status and never hears of the
\* episode again: the subtasks and executions in that frame are no older than the
\* end that it shows, which for a cancelled recording makes them the last.
ClosedPageIsFinal ==
    \A p \in Pages :
        conn[p].step = "closed" /\ There =>
            /\ seen[p].status \in Terminal
            /\ seen[p].records >= seen[p].ended /\ seen[p].executions >= seen[p].ended
=============================================================================
