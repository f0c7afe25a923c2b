---------------------------- MODULE OperatorLock ----------------------------
(***************************************************************************)
(* Who operates a robot: the Redis key with 60 seconds to live             *)
(* (usecase/robot_operator.go), the three requests on it, one Redis        *)
(* command per step, and the pages that send them (use-operator-heartbeat  *)
(* .ts): a PUT every 30 seconds while active, a GET every 15 while not, a  *)
(* DELETE on stopping or leaving.  Robots have nothing to do with each     *)
(* other here, so there is one.  A page is one life of the hook: it is     *)
(* shown, left by its user with its requests and timers still there, or    *)
(* gone with its tab.                                                      *)
(***************************************************************************)
EXTENDS Naturals, FiniteSets

CONSTANTS
    Pages,
    Users,
    UserOf,     \* the user who is logged in on a page
    NoUser,     \* the value of an absent key
    Slots,      \* how many PUTs, and how many GETs, of a page are under way at once
    MaxRequests,    \* how many requests are, but for a DELETE on leaving
    Hasty,      \* does anybody start again before the answer to their stop?
    Punctual    \* does each interval fire, and each PUT end, within 30 seconds?

ASSUME OperatorAssumption ==
    /\ UserOf \in [Pages -> Users]
    /\ NoUser \notin Users
    /\ Hasty \in BOOLEAN /\ Punctual \in BOOLEAN

VARIABLES
    holder,     \* the key
    age,        \* the periods of 30 seconds that have ended since it was written
    due,        \* the pages whose interval fires before such a period is over
    mounted,    \* is the page shown?
    active,     \* isActiveRef of the page
    timer,      \* does the interval in heartbeatRef run?
    stray,      \* does one run that heartbeatRef has forgotten?
    put,        \* where the page's PUTs, GETs and DELETEs are
    get,
    clear,
    steady      \* for the properties: the pages whose last heartbeat got through

keyVars == <<holder, age>>
pageVars == <<mounted, active, timer, stray>>
vars == <<keyVars, due, pageVars, put, get, clear, steady>>

TTL == 2
\* An answer on which the page does nothing is left out.
PutSteps == {"none", "sent", "held", "save", "conflict"}
GetSteps == {"none", "sent", "own"}
ClearSteps == {"none", "sent", "delete", "done"}
Occasions == {"stop", "leave"}

Running(p) == timer[p] \/ stray[p]
Underway(p) == \E s \in Slots : put[p][s] \in {"sent", "held", "save"}
Checking(p) == \E s \in Slots : put[p][s] \in {"held", "save"}
Idle(p) == /\ \A s \in Slots : put[p][s] = "none" /\ get[p][s] = "none"
           /\ \A o \in Occasions : clear[p][o] = "none"

Room ==
    MaxRequests >   Cardinality({r \in Pages \X Slots : put[r[1]][r[2]] # "none"})
                  + Cardinality({r \in Pages \X Slots : get[r[1]][r[2]] # "none"})
                  + Cardinality({p \in Pages : clear[p]["stop"] # "none"})

OperatorInit ==
    /\ holder = NoUser /\ age = 0 /\ due = {} /\ steady = {}
    /\ mounted = [p \in Pages |-> FALSE]
    /\ active = mounted /\ timer = mounted /\ stray = mounted
    /\ put = [p \in Pages |-> [s \in Slots |-> "none"]] /\ get = put
    /\ clear = [p \in Pages |-> [o \in Occasions |-> "none"]]

-----------------------------------------------------------------------------
(* The requests at the server.  An error of Redis, or a lost request or    *)
(* answer, ends a request at any step.                                     *)

PutGoes(p, s, step) == put' = [put EXCEPT ![p][s] = step]
ClearGoes(p, o, step) == clear' = [clear EXCEPT ![p][o] = step]
Answered(o) == IF o = "stop" THEN "done" ELSE "none"

\* A write of the key by p's PUT, which is its latest to get through.
WriteKey(p) ==
    /\ holder' = UserOf[p] /\ age' = 0
    /\ steady' = IF Running(p) THEN steady \cup {p} ELSE steady

\* Mistake: a key that exists is taken for one's own.
PutAcquireTrusting(p, s) ==
    /\ put[p][s] = "sent"
    /\ PutGoes(p, s, "none")
    /\ IF holder = NoUser THEN WriteKey(p) ELSE UNCHANGED <<keyVars, steady>>
    /\ UNCHANGED <<due, pageVars, get, clear>>

\* Set: SETNX.
PutAcquire(p, s) ==
    /\ put[p][s] = "sent"
    /\ IF holder = NoUser THEN PutGoes(p, s, "none") /\ WriteKey(p)
                          ELSE PutGoes(p, s, "held") /\ UNCHANGED <<keyVars, steady>>
    /\ UNCHANGED <<due, pageVars, get, clear>>

\* Mistake: the key is refreshed whoever holds it.
PutCheckNothing(p, s) ==
    /\ put[p][s] = "held"
    /\ PutGoes(p, s, "save")
    /\ UNCHANGED <<keyVars, due, pageVars, get, clear, steady>>

\* Set: GET, and 409 when it is another's.
PutCheck(p, s) ==
    /\ put[p][s] = "held"
    /\ IF holder \in {NoUser, UserOf[p]}
       THEN PutGoes(p, s, "save") /\ UNCHANGED steady
       ELSE PutGoes(p, s, "conflict") /\ steady' = steady \ {p}
    /\ UNCHANGED <<keyVars, due, pageVars, get, clear>>

\* Set: SET, whatever the key is by now.
PutSave(p, s) ==
    /\ put[p][s] = "save"
    /\ PutGoes(p, s, "none") /\ WriteKey(p)
    /\ UNCHANGED <<due, pageVars, get, clear>>

\* Get.
GetOperator(p, s) ==
    /\ get[p][s] = "sent"
    /\ get' = [get EXCEPT ![p][s] = IF holder = UserOf[p] THEN "own" ELSE "none"]
    /\ UNCHANGED <<keyVars, due, pageVars, put, clear, steady>>

\* Clear: GET, and 403 when it is another's.
ClearCheck(p, o) ==
    /\ clear[p][o] = "sent"
    /\ ClearGoes(p, o, IF holder \in {NoUser, UserOf[p]} THEN "delete" ELSE Answered(o))
    /\ UNCHANGED <<keyVars, due, pageVars, put, get, steady>>

\* Clear: DEL, whatever the key is by now.
ClearDelete(p, o) ==
    /\ clear[p][o] = "delete"
    /\ holder' = NoUser /\ age' = 0
    /\ ClearGoes(p, o, Answered(o))
    /\ UNCHANGED <<due, pageVars, put, get, steady>>

PutFails(p, s) ==
    /\ put[p][s] # "none" /\ PutGoes(p, s, "none")
    /\ steady' = steady \ {p}
    /\ UNCHANGED <<keyVars, due, pageVars, get, clear>>

GetFails(p, s) ==
    /\ get[p][s] # "none" /\ get' = [get EXCEPT ![p][s] = "none"]
    /\ UNCHANGED <<keyVars, due, pageVars, put, clear, steady>>

ClearFails(p, o) ==
    /\ clear[p][o] \in {"sent", "delete"} /\ ClearGoes(p, o, Answered(o))
    /\ UNCHANGED <<keyVars, due, pageVars, put, get, steady>>

-----------------------------------------------------------------------------
(* Time, in periods of 30 seconds.                                         *)

\* A period ends.  Each interval that runs fires once in it, but for one begun in
\* it.  The key is gone by the end of the period after TTL of them without a SET.
Tick ==
    /\ Punctual => \A p \in Pages : ~Underway(p) /\ ~(Running(p) /\ p \in due)
    /\ holder # NoUser => age < TTL
    /\ age' = IF holder = NoUser THEN 0 ELSE age + 1
    /\ due' = {p \in Pages : Running(p)}
    /\ UNCHANGED <<holder, pageVars, put, get, clear, steady>>

\* Mistake: the key lives for 30 seconds, as long as a page waits.
ExpireEarly ==
    /\ holder # NoUser /\ age >= TTL - 1
    /\ holder' = NoUser /\ age' = 0
    /\ UNCHANGED <<due, pageVars, put, get, clear, steady>>

Expire ==
    /\ holder # NoUser /\ age = TTL
    /\ holder' = NoUser /\ age' = 0
    /\ UNCHANGED <<due, pageVars, put, get, clear, steady>>

-----------------------------------------------------------------------------
(* The page.                                                               *)

\* setInterval, whose first call comes 30 seconds later; an interval that
\* heartbeatRef still names is forgotten, and runs on.
SetInterval(p) ==
    /\ timer' = [timer EXCEPT ![p] = TRUE]
    /\ stray' = [stray EXCEPT ![p] = @ \/ timer[p]]
    /\ due' = due \ {p} /\ steady' = steady \ {p}

ClearInterval(p) ==
    /\ timer' = [timer EXCEPT ![p] = FALSE]
    /\ IF stray[p] THEN UNCHANGED <<due, steady>> ELSE due' = due \ {p} /\ steady' = steady \ {p}

\* A new page, which asks at once.
Mount(p) ==
    /\ ~mounted[p] /\ ~Running(p) /\ Idle(p) /\ Room
    /\ mounted' = [mounted EXCEPT ![p] = TRUE]
    /\ active' = [active EXCEPT ![p] = FALSE]
    /\ \E s \in Slots : get' = [get EXCEPT ![p][s] = "sent"]
    /\ UNCHANGED <<keyVars, due, timer, stray, put, clear, steady>>

\* start, by the user or by the page itself: active at once, and a first PUT.
Start(p) ==
    /\ mounted[p] /\ ~active[p] /\ Room
    /\ Hasty \/ clear[p]["stop"] = "none"
    /\ active' = [active EXCEPT ![p] = TRUE]
    /\ SetInterval(p)
    /\ \E s \in Slots : put[p][s] = "none" /\ put' = [put EXCEPT ![p][s] = "sent"]
    /\ UNCHANGED <<keyVars, mounted, get, clear>>

\* sendHeartbeat, by an interval.
SendHeartbeat(p) ==
    /\ Running(p) /\ (p \in due \/ (timer[p] /\ stray[p]))
    /\ \E s \in Slots : put[p][s] = "none" /\ put' = [put EXCEPT ![p][s] = "sent"]
    /\ due' = due \ {p}
    /\ UNCHANGED <<keyVars, pageVars, get, clear, steady>>

\* Mistake: a page that was refused shows it and keeps its heartbeat.
PutRefusedIdly(p, s) ==
    /\ put[p][s] = "conflict"
    /\ PutGoes(p, s, "none")
    /\ UNCHANGED <<keyVars, due, pageVars, get, clear, steady>>

\* The answer 409: the page gives up.
PutRefused(p, s) ==
    /\ put[p][s] = "conflict"
    /\ PutGoes(p, s, "none")
    /\ active' = [active EXCEPT ![p] = FALSE]
    /\ ClearInterval(p)
    /\ UNCHANGED <<keyVars, mounted, stray, get, clear>>

\* checkStatus, by the poll, which ends with the page.
CheckStatus(p) ==
    /\ mounted[p] /\ ~active[p] /\ Room
    /\ \E s \in Slots : get[p][s] = "none" /\ get' = [get EXCEPT ![p][s] = "sent"]
    /\ UNCHANGED <<keyVars, due, pageVars, put, clear, steady>>

\* The answer to a GET: a page whose user holds the lock goes on with its
\* heartbeat, also when its user has left it meanwhile.
CheckAnswer(p, s) ==
    /\ get[p][s] = "own"
    /\ get' = [get EXCEPT ![p][s] = "none"]
    /\ IF active[p]
       THEN UNCHANGED <<active, timer, stray, due, steady>>
       ELSE active' = [active EXCEPT ![p] = TRUE] /\ SetInterval(p)
    /\ UNCHANGED <<keyVars, mounted, put, clear>>

\* stop: the heartbeat first, then the key; inactive only when that is answered.
Stop(p) ==
    /\ mounted[p] /\ active[p] /\ clear[p]["stop"] = "none" /\ Room
    /\ ClearInterval(p)
    /\ ClearGoes(p, "stop", "sent")
    /\ UNCHANGED <<keyVars, mounted, active, stray, put, get>>

StopAnswer(p) ==
    /\ clear[p]["stop"] = "done"
    /\ ClearGoes(p, "stop", "none")
    /\ active' = [active EXCEPT ![p] = FALSE]
    /\ UNCHANGED <<keyVars, due, mounted, timer, stray, put, get, steady>>

\* The user goes to another page: the cleanup of the effects, with whatever is
\* under way.  isActiveRef stays as it is.
Unmount(p) ==
    /\ mounted[p]
    /\ mounted' = [mounted EXCEPT ![p] = FALSE]
    /\ ClearInterval(p)
    /\ IF active[p] THEN ClearGoes(p, "leave", "sent") ELSE UNCHANGED clear
    /\ UNCHANGED <<keyVars, active, stray, put, get>>

\* The tab is closed or reloaded, which runs no cleanup: the requests that have
\* reached the server go on.
Close(p) ==
    /\ mounted[p] \/ Running(p) \/ \E s \in Slots : get[p][s] # "none"
    /\ mounted' = [mounted EXCEPT ![p] = FALSE]
    /\ active' = [active EXCEPT ![p] = FALSE]
    /\ timer' = [timer EXCEPT ![p] = FALSE]
    /\ stray' = [stray EXCEPT ![p] = FALSE]
    /\ get' = [get EXCEPT ![p] = [s \in Slots |-> "none"]]
    /\ due' = due \ {p} /\ steady' = steady \ {p}
    /\ UNCHANGED <<keyVars, put, clear>>

-----------------------------------------------------------------------------

PutStep(p, s) == PutAcquire(p, s) \/ PutCheck(p, s) \/ PutSave(p, s) \/ PutRefused(p, s)
GetStep(p, s) == GetOperator(p, s) \/ CheckAnswer(p, s)
ClearStep(p, o) == ClearCheck(p, o) \/ ClearDelete(p, o)
PageStep(p) ==
    \/ Mount(p) \/ Start(p) \/ SendHeartbeat(p) \/ CheckStatus(p)
    \/ Stop(p) \/ StopAnswer(p) \/ Unmount(p) \/ Close(p)

OperatorNext ==
    \/ \E p \in Pages :
           \/ PageStep(p)
           \/ \E s \in Slots : PutStep(p, s) \/ GetStep(p, s) \/ PutFails(p, s) \/ GetFails(p, s)
           \/ \E o \in Occasions : ClearStep(p, o) \/ ClearFails(p, o)
    \/ Tick \/ Expire

OperatorSpec == OperatorInit /\ [][OperatorNext]_vars

\* Time passes, intervals fire, keys expire, and a PUT at the server gets on or
\* fails; a page that is refused again and again gets to know of it.  Other
\* requests may hang; nobody need start, stop, come or go.
OperatorFairness ==
    /\ SF_vars(Tick) /\ WF_vars(Expire)
    /\ \A p \in Pages : WF_vars(SendHeartbeat(p))
    /\ \A p \in Pages, s \in Slots : WF_vars(PutStep(p, s)) /\ SF_vars(PutRefused(p, s))

FairOperatorSpec == OperatorSpec /\ OperatorFairness

OperatorTypeOK ==
    /\ holder \in Users \cup {NoUser} /\ age \in 0 .. TTL
    /\ due \subseteq Pages /\ steady \subseteq Pages
    /\ mounted \in [Pages -> BOOLEAN] /\ active \in [Pages -> BOOLEAN]
    /\ timer \in [Pages -> BOOLEAN] /\ stray \in [Pages -> BOOLEAN]
    /\ put \in [Pages -> [Slots -> PutSteps]]
    /\ get \in [Pages -> [Slots -> GetSteps]]
    /\ clear \in [Pages -> [Occasions -> ClearSteps]]

Keeping == {u \in Users : \E p \in steady : UserOf[p] = u /\ Running(p)}
Claiming == {u \in Users : \E p \in Pages : UserOf[p] = u /\ \E s \in Slots : put[p][s] = "save"}
Releasing == {u \in Users : \E p \in Pages : UserOf[p] = u /\ \E o \in Occasions : clear[p][o] = "delete"}

Promise == INSTANCE Lock WITH keeping <- Keeping, claiming <- Claiming, releasing <- Releasing

\* Whoever loses the lock loses it to a request that saw it free or its own: not to
\* one that was refused or whose page has forgotten it, and not by expiry while a
\* page of theirs runs whose last heartbeat got through; however the commands of
\* all requests interleave, fail and outlive their pages
\* (usecase/robot_operator.go Set, Clear; gateway/robot_operator.go robotOperatorTTL).
ImplementsLock == Promise!LockSpec

NoneLost == <>[][\A p \in Pages, s \in Slots : PutFails(p, s) => put[p][s] = "conflict"]_vars
Contended == \E p, q \in Pages : UserOf[p] # UserOf[q] /\ Checking(p) /\ Checking(q)

\* Of the pages of two users one gives up in the end, once no heartbeat is lost and
\* nobody releases the lock, unless their heartbeats overtake each other between GET
\* and SET again and again: whoever starts on a robot that another operates learns
\* of it, and so does whoever has lost it
\* (usecase/robot_operator.go Set; use-operator-heartbeat.ts sendHeartbeat).
OneGivesUp ==
    NoneLost /\ <>[](Releasing = {} /\ ~Contended) =>
        \A p, q \in Pages : UserOf[p] # UserOf[q] => []<>~(timer[p] /\ timer[q])

\* The one page that is left with a heartbeat gets the lock and keeps it, once no
\* heartbeat is lost, although late requests of others delete it and overwrite it:
\* the heartbeat repairs that.  The page may be one that its user has left
\* (use-operator-heartbeat.ts checkStatus, sendHeartbeat).
LoneOperatorHolds ==
    \A p \in Pages :
        NoneLost /\ <>[](timer[p] /\ \A q \in Pages : Running(q) => q = p) => <>[](holder = UserOf[p])
=============================================================================
