-------------------------------- MODULE Lock --------------------------------
(***************************************************************************)
(* What the users of a robot can count on about its operator lock: who has *)
(* seen it free, or their own, may take it or give it back later; nobody   *)
(* else does, and it does not expire while a heartbeat keeps it.           *)
(***************************************************************************)
CONSTANTS Users, NoUser

VARIABLES
    holder,
    keeping,    \* the users with a page whose heartbeat keeps the lock alive
    claiming,   \* the users who have seen it free or theirs, and will take it
    releasing   \* and those who will give it back

lockVars == <<holder, keeping, claiming, releasing>>

LockInit == holder = NoUser /\ keeping = {} /\ claiming = {} /\ releasing = {}

FreeFor(u) == holder \in {NoUser, u}

\* A heartbeat that gets through begins to keep the lock; one that is lost or
\* refused, or a page that ends its heartbeats, ends that.
Keep(u) == keeping' \in {keeping, keeping \cup {u}, keeping \ {u}}

Acquire(u) ==
    /\ holder = NoUser
    /\ holder' = u
    /\ Keep(u)
    /\ UNCHANGED <<claiming, releasing>>

BeginClaim(u) ==
    /\ FreeFor(u)
    /\ claiming' = claiming \cup {u}
    /\ UNCHANGED <<holder, keeping, releasing>>

\* Taken from whoever has it by now, or not at all; one of several claims.
EndClaim(u) ==
    /\ u \in claiming
    /\ claiming' \in {claiming, claiming \ {u}}
    /\ holder' \in {holder, u}
    /\ Keep(u)
    /\ UNCHANGED releasing

BeginRelease(u) ==
    /\ FreeFor(u)
    /\ releasing' = releasing \cup {u}
    /\ UNCHANGED <<holder, keeping, claiming>>

EndRelease(u) ==
    /\ u \in releasing
    /\ releasing' \in {releasing, releasing \ {u}}
    /\ holder' \in {holder, NoUser}
    /\ UNCHANGED <<keeping, claiming>>

Turn(u) == Keep(u) /\ UNCHANGED <<holder, claiming, releasing>>

Expire ==
    /\ holder # NoUser /\ holder \notin keeping
    /\ holder' = NoUser
    /\ UNCHANGED <<keeping, claiming, releasing>>

LockNext ==
    \/ \E u \in Users : \/ Acquire(u) \/ BeginClaim(u) \/ EndClaim(u)
                        \/ BeginRelease(u) \/ EndRelease(u) \/ Turn(u)
    \/ Expire

LockSpec == LockInit /\ [][LockNext]_lockVars
=============================================================================
