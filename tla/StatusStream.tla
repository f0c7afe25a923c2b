---------------------------- MODULE StatusStream ----------------------------
(***************************************************************************)
(* The status of a robot on the pages that show it: the handler            *)
(* StreamRobotStatus, which joins the Broadcaster and then sends a first   *)
(* frame of its own, and the hook useManagedEventSource, which closes the  *)
(* connection of a tab that is hidden for long and opens it again after an *)
(* error.  A connection is closed at both ends at once.                    *)
(***************************************************************************)
EXTENDS Broadcaster

CONSTANTS
    Tabs,       \* the pages whose tab may be hidden
    MaxErrors   \* bound of the connections that break

ASSUME StatusStreamAssumption == Tabs \subseteq Viewers /\ MaxErrors \in Nat

VARIABLES
    visible,    \* is the tab of a page visible?
    hiding,     \* its timer that closes the connection: hideTimeout
    retry,      \* its timer that opens it again: retryTimeout, of which
                \* the code does not know whether it has fired
    source,     \* its EventSource: what has become of the connection
    shown,      \* the status that it shows
    errors,     \* connections that broke
    missed      \* history: pages that a signal or a value was lost for

viewerVars == <<visible, hiding, retry, source, shown, errors>>
statusVars == <<busVars, broadcasterVars, viewerVars, missed>>

StatusTypeOK ==
    /\ BusTypeOK
    /\ subs \subseteq Viewers /\ missed \subseteq Viewers
    /\ current \in Loops \cup {None}
    /\ loop \in [Loops -> {"off", "start", "wait", "fetch", "send"}]
    /\ cancelled \in [Loops -> BOOLEAN]
    /\ value \in [Loops -> 0..MaxWrites \cup {None}]
    /\ chan \in [Viewers -> 0..MaxWrites \cup {None}]
    /\ visible \in [Viewers -> BOOLEAN] /\ hiding \in [Viewers -> BOOLEAN]
    /\ retry \in [Viewers -> {"none", "pending", "fired"}]
    /\ source \in [Viewers -> {"none", "connecting", "joined", "live"}]
    /\ shown \in [Viewers -> 0..MaxWrites \cup {None}]
    /\ errors \in 0..MaxErrors

\* A page opens in a tab that is visible or hidden.
StatusInit ==
    /\ BusInit /\ BroadcasterInit
    /\ visible \in [Viewers -> BOOLEAN] /\ \A v \in Viewers \ Tabs : visible[v]
    /\ hiding = [v \in Viewers |-> FALSE]
    /\ retry = [v \in Viewers |-> "none"]
    /\ source = [v \in Viewers |-> IF visible[v] THEN "connecting" ELSE "none"]
    /\ shown = [v \in Viewers |-> None]
    /\ errors = 0
    /\ missed = {}

-----------------------------------------------------------------------------
(* The robot reports, the loops fan out.                                   *)

Started == current # None /\ loop[current] # "start"

Reports == Write /\ UNCHANGED <<broadcasterVars, viewerVars, missed>>

\* Before the loop has subscribed to the bus the signal reaches nobody.
Notifies ==
    /\ Notify
    /\ missed' = IF Started THEN missed ELSE missed \cup subs
    /\ UNCHANGED <<broadcasterVars, viewerVars>>

FetchFails(g) ==
    /\ LoopFetchFails(g)
    /\ missed' = IF g = current THEN missed \cup subs ELSE missed
    /\ UNCHANGED viewerVars

\* The latest value makes up for what was lost; a cancelled loop may send an
\* older one last.
Sends(g) ==
    /\ LoopSends(g)
    /\ missed' = CASE value[g] = writes -> missed \ subs
                   [] value[g] # writes /\ g # current -> missed \cup subs
                   [] OTHER -> missed
    /\ UNCHANGED viewerVars

LoopStep(g) ==
    /\ LoopStarts(g) \/ LoopWakes(g) \/ LoopFetches(g) \/ LoopEnds(g)
    /\ UNCHANGED <<viewerVars, missed>>

-----------------------------------------------------------------------------
(* StreamRobotStatus and streamSSE.                                        *)

Accept(v) ==
    /\ source[v] = "connecting"
    /\ Subscribe(v)
    /\ source' = [source EXCEPT ![v] = "joined"]
    /\ UNCHANGED <<busVars, visible, hiding, retry, shown, errors, missed>>

\* initial: what the frame has read is no older than any value sent before it
\* joined, but one that is in its channel by now is shown after it.
FirstFrame(v) ==
    /\ source[v] = "joined"
    /\ shown' = [shown EXCEPT ![v] = writes]
    /\ source' = [source EXCEPT ![v] = "live"]
    /\ missed' = IF chan[v] = None THEN missed \ {v} ELSE missed
    /\ UNCHANGED <<busVars, broadcasterVars, visible, hiding, retry, errors>>

Receive(v) ==
    /\ source[v] = "live" /\ chan[v] # None
    /\ shown' = [shown EXCEPT ![v] = chan[v]]
    /\ chan' = [chan EXCEPT ![v] = None]
    /\ UNCHANGED <<busVars, subs, current, loop, cancelled, value>>
    /\ UNCHANGED <<visible, hiding, retry, source, errors, missed>>

\* The handler's deferred Unsubscribe, if it got as far as joining.
Disconnect(v) ==
    IF v \in subs THEN Unsubscribe(v) ELSE UNCHANGED broadcasterVars

-----------------------------------------------------------------------------
(* useManagedEventSource.                                                  *)

\* onerror: the connection breaks, is refused, or ends with an error frame.
ConnectionLost(v) ==
    /\ source[v] # "none" /\ errors < MaxErrors
    /\ errors' = errors + 1
    /\ Disconnect(v)
    /\ source' = [source EXCEPT ![v] = "none"]
    /\ retry' = [retry EXCEPT ![v] = "pending"]
    /\ UNCHANGED <<busVars, visible, hiding, shown, missed>>

\* connect does nothing in a hidden tab, and nothing takes note that the timer
\* has fired.
RetryFires(v) ==
    /\ retry[v] = "pending"
    /\ retry' = [retry EXCEPT ![v] = "fired"]
    /\ source' = [source EXCEPT ![v] = IF visible[v] THEN "connecting" ELSE @]
    /\ UNCHANGED <<busVars, broadcasterVars, visible, hiding, shown, errors, missed>>

Hide(v) ==
    /\ v \in Tabs /\ visible[v]
    /\ visible' = [visible EXCEPT ![v] = FALSE]
    /\ hiding' = [hiding EXCEPT ![v] = TRUE]
    /\ UNCHANGED <<busVars, broadcasterVars, retry, source, shown, errors, missed>>

\* closeConnection
HideTimeout(v) ==
    /\ hiding[v]
    /\ hiding' = [hiding EXCEPT ![v] = FALSE]
    /\ Disconnect(v)
    /\ source' = [source EXCEPT ![v] = "none"]
    /\ retry' = [retry EXCEPT ![v] = "none"]
    /\ UNCHANGED <<busVars, visible, shown, errors, missed>>

Show(v) ==
    /\ ~visible[v]
    /\ visible' = [visible EXCEPT ![v] = TRUE]
    /\ hiding' = [hiding EXCEPT ![v] = FALSE]
    /\ source' = [source EXCEPT ![v] = IF @ = "none" /\ retry[v] = "none" THEN "connecting"
                                                                          ELSE @]
    /\ UNCHANGED <<busVars, broadcasterVars, retry, shown, errors, missed>>

-----------------------------------------------------------------------------

StatusNext ==
    \/ Reports \/ Notifies
    \/ \E g \in Loops : LoopStep(g) \/ FetchFails(g) \/ Sends(g)
    \/ \E v \in Viewers : \/ Accept(v) \/ FirstFrame(v) \/ Receive(v)
                          \/ ConnectionLost(v) \/ RetryFires(v)
                          \/ Hide(v) \/ HideTimeout(v) \/ Show(v)

StatusSpec == StatusInit /\ [][StatusNext]_statusVars

\* Goroutines and timers run; robots need not report, nor people switch tabs.
\* A connection finds a goroutine however often others come and go.
StatusFairness ==
    /\ WF_statusVars(Notifies)
    /\ \A g \in Loops : WF_statusVars(LoopStep(g)) /\ WF_statusVars(Sends(g))
    /\ \A v \in Viewers : /\ SF_statusVars(Accept(v)) /\ WF_statusVars(FirstFrame(v))
                          /\ WF_statusVars(Receive(v)) /\ WF_statusVars(RetryFires(v))

FairStatusSpec == StatusSpec /\ StatusFairness

-----------------------------------------------------------------------------

\* The page says "Connection lost, retrying..." and waits for a timer that has
\* fired in a hidden tab and that nobody has reset.
Stranded(v) == source[v] = "none" /\ retry[v] = "fired"

\* A page that stays visible shows the latest status in the end, whatever came
\* before it: connections that broke, tabs that were hidden, loops that were
\* cancelled and replaced.  Not so when a signal or a value was lost for it since
\* its last frame (before the loop subscribed, at a failed fetch, behind the late
\* value of a cancelled loop), and when its timer fired in a hidden tab
\* (event/broadcaster.go, interfaces/http/handler/sse.go StreamRobotStatus).
StatusReachesPages ==
    \A v \in Viewers :
        <>[]visible[v] =>
            <>[](\/ Stranded(v)
                 \/ source[v] = "live" /\ shown[v] = writes
                 \/ source[v] = "live" /\ v \in missed)
=============================================================================
