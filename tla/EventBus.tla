------------------------------ MODULE EventBus ------------------------------
(***************************************************************************)
(* event.Bus for one key, and what it tells of: a row that requests write  *)
(* and that its readers fetch when the bus signals.  A request notifies    *)
(* after its transaction has committed, so that between the two it owes a  *)
(* signal; the channel of a subscriber holds one.                          *)
(***************************************************************************)
EXTENDS Naturals

CONSTANTS
    Subscribers,
    MaxWrites   \* bound of the writes

ASSUME BusAssumption == MaxWrites \in Nat

VARIABLES
    writes,     \* how often the row was written
    owed,       \* requests that have committed and will call Notify
    inbox       \* a subscriber's channel: no channel, or one with or without a signal

busVars == <<writes, owed, inbox>>

BusTypeOK ==
    /\ writes \in 0..MaxWrites
    /\ owed \in 0..MaxWrites
    /\ inbox \in [Subscribers -> {"absent", "empty", "signal"}]

BusInit ==
    /\ writes = 0
    /\ owed = 0
    /\ inbox = [s \in Subscribers |-> "absent"]

Write ==
    /\ writes < MaxWrites
    /\ writes' = writes + 1
    /\ owed' = owed + 1
    /\ UNCHANGED inbox

\* Notify does not block: a channel that has a signal keeps the one it has.
Signalled(s) == IF inbox[s] = "absent" THEN "absent" ELSE "signal"

Notify ==
    /\ owed > 0
    /\ owed' = owed - 1
    /\ inbox' = [s \in Subscribers |-> Signalled(s)]
    /\ UNCHANGED writes

BusSubscribe(s) == inbox' = [inbox EXCEPT ![s] = "empty"]

BusUnsubscribe(s) == inbox' = [inbox EXCEPT ![s] = "absent"]

\* <-busCh
TakeSignal(s) ==
    /\ inbox[s] = "signal"
    /\ inbox' = [inbox EXCEPT ![s] = "empty"]
=============================================================================
