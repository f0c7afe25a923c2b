----------------------------- MODULE Broadcaster ----------------------------
(***************************************************************************)
(* event.Broadcaster for one key: the first subscriber starts a loop that  *)
(* fetches once per signal of the bus and sends what it fetched to every   *)
(* subscriber's channel; the last one to leave cancels the loop, which may *)
(* by then be anywhere and goes on beside the loop of the next subscriber. *)
(***************************************************************************)
EXTENDS EventBus

CONSTANTS
    Viewers,    \* the connections, each with a channel for one value
    Loops,      \* goroutines; as many loops as run at once
    None

ASSUME BroadcasterAssumption == None \notin Loops \cup Nat

VARIABLES
    subs, current,      \* keys[key]: the channels and the loop that cancel ends
    loop, cancelled,    \* of each loop: its step, and whether its context is done
    value,              \* what it has fetched
    chan                \* a connection's channel: a value or None; gone when it leaves

broadcasterVars == <<subs, current, loop, cancelled, value, chan>>

BroadcasterInit ==
    /\ subs = {} /\ current = None
    /\ loop = [g \in Loops |-> "off"]
    /\ cancelled = [g \in Loops |-> FALSE]
    /\ value = [g \in Loops |-> None]
    /\ chan = [v \in Viewers |-> None]

-----------------------------------------------------------------------------
(* Subscribe and Unsubscribe, each under the lock.                         *)

Subscribe(v) ==
    /\ v \notin subs
    /\ subs' = subs \cup {v}
    /\ IF current # None
       THEN UNCHANGED <<current, loop, cancelled>>
       ELSE \E g \in Loops :
              /\ loop[g] = "off"
              /\ current' = g
              /\ loop' = [loop EXCEPT ![g] = "start"]
              /\ UNCHANGED cancelled
    /\ UNCHANGED <<value, chan>>

\* Mistake: the loop is left to itself.
UnsubscribeKeepsLoop(v) ==
    /\ v \in subs
    /\ subs' = subs \ {v}
    /\ chan' = [chan EXCEPT ![v] = None]
    /\ current' = IF subs' = {} THEN None ELSE current
    /\ UNCHANGED <<cancelled, loop, value>>

Unsubscribe(v) ==
    /\ v \in subs
    /\ subs' = subs \ {v}
    /\ chan' = [chan EXCEPT ![v] = None]
    /\ IF subs' # {} THEN UNCHANGED <<current, cancelled>>
                     ELSE /\ current' = None
                          /\ cancelled' = [cancelled EXCEPT ![current] = TRUE]
    /\ UNCHANGED <<loop, value>>

-----------------------------------------------------------------------------
(* The loop.                                                               *)

Goto(g, step) == loop' = [loop EXCEPT ![g] = step]

LoopStarts(g) ==
    /\ loop[g] = "start"
    /\ BusSubscribe(g)
    /\ Goto(g, "wait")
    /\ UNCHANGED <<writes, owed, subs, current, cancelled, value, chan>>

LoopWakes(g) ==
    /\ loop[g] = "wait" /\ TakeSignal(g)
    /\ Goto(g, "fetch")
    /\ UNCHANGED <<writes, owed, subs, current, cancelled, value, chan>>

LoopFetches(g) ==
    /\ loop[g] = "fetch"
    /\ value' = [value EXCEPT ![g] = writes]
    /\ Goto(g, "send")
    /\ UNCHANGED <<busVars, subs, current, cancelled, chan>>

\* The signal is spent; the loop goes back to wait for the next.
LoopFetchFails(g) ==
    /\ loop[g] = "fetch"
    /\ Goto(g, "wait")
    /\ UNCHANGED <<busVars, subs, current, cancelled, value, chan>>

\* Mistake: a channel that is full keeps its value.
SentIfRoom(v, x) == IF v \in subs /\ chan[v] = None THEN x ELSE chan[v]

\* A channel after a send to all: the value replaces one that was not received.
Sent(v, x) == IF v \in subs THEN x ELSE chan[v]

\* To the subscribers that the key has now, whichever loop's they are.  A channel
\* that joins between the snapshot and the sends makes its own first fetch later.
LoopSends(g) ==
    /\ loop[g] = "send"
    /\ chan' = [v \in Viewers |-> Sent(v, value[g])]
    /\ value' = [value EXCEPT ![g] = None]
    /\ Goto(g, "wait")
    /\ UNCHANGED <<busVars, subs, current, cancelled>>

\* select: a loop whose context is done may serve signals before it notices.
LoopEnds(g) ==
    /\ loop[g] = "wait" /\ cancelled[g]
    /\ BusUnsubscribe(g)
    /\ Goto(g, "off")
    /\ cancelled' = [cancelled EXCEPT ![g] = FALSE]
    /\ UNCHANGED <<writes, owed, subs, current, value, chan>>

-----------------------------------------------------------------------------

\* A key with subscribers has one loop that will serve them, one without has
\* none: every other loop has been cancelled and will end (event/broadcaster.go
\* Subscribe, Unsubscribe).
OneLoop ==
    {g \in Loops : loop[g] # "off" /\ ~cancelled[g]} = IF subs = {} THEN {} ELSE {current}
=============================================================================
