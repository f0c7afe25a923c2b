------------------------------ MODULE ApiKeys ------------------------------
(***************************************************************************)
(* API keys (internal/usecase/api_key.go, internal/gateway/api_key.go):    *)
(* admins create, edit and revoke them, robots authenticate with them (the *)
(* middleware in internal/interfaces/http/middleware/auth.go).  The time   *)
(* of a key's last use is written by a goroutine, at most once in          *)
(* Interval, as decided under a mutex by a map that a restart of the       *)
(* server clears.                                                          *)
(*                                                                         *)
(* Time is counted in ticks.  None of the operations is a transaction.     *)
(***************************************************************************)
EXTENDS Naturals

CONSTANTS
    Keys,           \* the keys ever created
    Admins,         \* edits of keys being served at once
    Calls,          \* requests of robots being served at once
    Interval,       \* lastUsedFlushInterval
    Timeout,        \* the time the goroutine gives its UPDATE
    Delay,          \* from reading the clock to the goroutine's start, at most
    Expiries,       \* the times that admins choose from
    MaxTime,        \* bound: the clock
    None            \* no time: NULL

\* 60 seconds against 5, and a delay that is a matter of scheduling.
ASSUME ApiKeysAssumption ==
    /\ Interval \in Nat /\ Timeout \in Nat /\ Delay \in Nat /\ MaxTime \in Nat
    /\ Timeout + Delay < Interval
    /\ Expiries \subseteq Nat /\ None \notin Nat

VARIABLES
    now,        \* the clock
    key,        \* the row of each key
    flushed,    \* lastUsedFlush: of each key, when a last write was decided
    touches,    \* goroutines that have not written yet
    edit,       \* of each admin: the row that Update has read and changed
    call,       \* of each request: how far it is, and with which key
    used,       \* history: of each key, the latest use that MarkUsed saw
    lost        \* history: the keys whose latest write failed or was lost

keyVars == <<now, key, flushed, touches, edit, call, used, lost>>

\* An id is never used again: the row of a deleted key is not NoRow.
NoRow == [state |-> "new", expires |-> None, revoked |-> None, lastUsed |-> None]
Unheard == [step |-> "none"]

Stored(k) == key[k].state = "stored"
Expired(row, at) == row.expires # None /\ row.expires <= at

-----------------------------------------------------------------------------
(* The console.                                                            *)

\* What fails after the insert leaves a key whose secret nobody has seen.
CreateKey(k) ==
    /\ key[k] = NoRow
    /\ \E expires \in {None} \cup {e \in Expiries : e > now} :
         key' = [key EXCEPT ![k] = [NoRow EXCEPT !.state = "stored", !.expires = expires]]
    /\ UNCHANGED <<now, flushed, touches, edit, call, used, lost>>

\* Update: a new name or expiry is put into the row that was read; any expiry is
\* accepted, also a past one.
ReadKey(a) ==
    /\ edit[a] = Unheard
    /\ \E k \in Keys : \E expires \in {key[k].expires, None} \cup Expiries :
         /\ Stored(k)
         /\ edit' = [edit EXCEPT ![a] = [step |-> "write", key |-> k,
                                         row |-> [key[k] EXCEPT !.expires = expires]]]
    /\ UNCHANGED <<now, key, flushed, touches, call, used, lost>>

\* Mistake: the whole row is written back.
WriteWholeKey(a) ==
    /\ edit[a].step = "write"
    /\ key' = [key EXCEPT ![edit[a].key] = IF @.state = "stored" THEN edit[a].row ELSE @]
    /\ edit' = [edit EXCEPT ![a] = Unheard]
    /\ UNCHANGED <<now, flushed, touches, call, used, lost>>

\* Name and expiry are written, both, whichever was changed.
WriteKey(a) ==
    /\ edit[a].step = "write"
    /\ key' = [key EXCEPT ![edit[a].key].expires = IF Stored(edit[a].key) THEN edit[a].row.expires ELSE @]
    /\ edit' = [edit EXCEPT ![a] = Unheard]
    /\ UNCHANGED <<now, flushed, touches, call, used, lost>>

\* One statement; a revoked key keeps the time it was revoked at.
Revoke(k) ==
    /\ Stored(k)
    /\ key' = [key EXCEPT ![k].revoked = IF @ = None THEN now ELSE @]
    /\ UNCHANGED <<now, flushed, touches, edit, call, used, lost>>

\* The owner or the robot is deleted, and the key with it.
DeleteOwner(k) ==
    /\ Stored(k)
    /\ key' = [key EXCEPT ![k].state = "deleted"]
    /\ UNCHANGED <<now, flushed, touches, edit, call, used, lost>>

-----------------------------------------------------------------------------
(* The robots.                                                             *)

\* FindActiveByHash finds the key; whoever it does not find is refused.
Authenticate(c) ==
    /\ call[c] = Unheard
    /\ \E k \in Keys :
         /\ Stored(k)
         /\ key[k].revoked = None
         /\ ~Expired(key[k], now)
         /\ call' = [call EXCEPT ![c] = [step |-> "served", key |-> k]]
    /\ UNCHANGED <<now, key, flushed, touches, edit, used, lost>>

\* MarkUsed reads the clock before it has the mutex.
MarkUsed(c) ==
    /\ call[c].step = "served"
    /\ call' = [call EXCEPT ![c] = [step |-> "marking", key |-> call[c].key, at |-> now]]
    /\ UNCHANGED <<now, key, flushed, touches, edit, used, lost>>

\* Mistake: every use starts a write.
NeverFlushed(k, at) == FALSE

JustFlushed(k, at) == flushed[k] # None /\ at < flushed[k] + Interval

\* Mistake: every use pushes the next write back.
DebounceSliding(c) ==
    /\ call[c].step = "marking"
    /\ LET k == call[c].key
           at == call[c].at
       IN /\ flushed' = [flushed EXCEPT ![k] = at]
          /\ touches' = IF JustFlushed(k, at) THEN touches
                        ELSE touches \cup {[key |-> k, at |-> at, by |-> now + Timeout]}
          /\ used' = [used EXCEPT ![k] = IF @ = None \/ @ < at THEN at ELSE @]
    /\ call' = [call EXCEPT ![c] = Unheard]
    /\ UNCHANGED <<now, key, edit, lost>>

\* The request is handled after this.
Debounce(c) ==
    /\ call[c].step = "marking"
    /\ LET k == call[c].key
           at == call[c].at
       IN /\ IF JustFlushed(k, at)
             THEN UNCHANGED <<flushed, touches>>
             ELSE /\ flushed' = [flushed EXCEPT ![k] = at]
                  /\ touches' = touches \cup {[key |-> k, at |-> at, by |-> now + Timeout]}
          /\ used' = [used EXCEPT ![k] = IF @ = None \/ @ < at THEN at ELSE @]
    /\ call' = [call EXCEPT ![c] = Unheard]
    /\ UNCHANGED <<now, key, edit, lost>>

\* The goroutine's UPDATE, revoked or not; no row if the key is gone.
TouchLastUsedAt(t) ==
    /\ key' = [key EXCEPT ![t.key].lastUsed = IF Stored(t.key) THEN t.at ELSE @]
    /\ touches' = touches \ {t}
    /\ lost' = lost \ {t.key}
    /\ UNCHANGED <<now, flushed, edit, call, used>>

\* It fails or times out; that is logged and swallowed.
TouchFails(t) ==
    /\ touches' = touches \ {t}
    /\ lost' = lost \cup {t.key}
    /\ UNCHANGED <<now, key, flushed, edit, call, used>>

-----------------------------------------------------------------------------

\* Memory, goroutines and requests are lost with the process.
RestartServer ==
    /\ flushed' = [k \in Keys |-> None]
    /\ touches' = {}
    /\ edit' = [a \in Admins |-> Unheard]
    /\ call' = [c \in Calls |-> Unheard]
    /\ lost' = lost \cup {t.key : t \in touches}
    /\ UNCHANGED <<now, key, used>>

\* A goroutine ends in time, and one is started in time.
Tick ==
    /\ now < MaxTime
    /\ \A t \in touches : now < t.by
    /\ \A c \in Calls : call[c].step = "marking" => now < call[c].at + Delay
    /\ now' = now + 1
    /\ UNCHANGED <<key, flushed, touches, edit, call, used, lost>>

KeysInit ==
    /\ now = 0
    /\ key = [k \in Keys |-> NoRow]
    /\ flushed = [k \in Keys |-> None]
    /\ touches = {}
    /\ edit = [a \in Admins |-> Unheard]
    /\ call = [c \in Calls |-> Unheard]
    /\ used = [k \in Keys |-> None]
    /\ lost = {}

KeysNext ==
    \/ \E k \in Keys : CreateKey(k) \/ Revoke(k) \/ DeleteOwner(k)
    \/ \E a \in Admins : ReadKey(a) \/ WriteKey(a)
    \/ \E c \in Calls : Authenticate(c) \/ MarkUsed(c) \/ Debounce(c)
    \/ \E t \in touches : TouchLastUsedAt(t) \/ TouchFails(t)
    \/ RestartServer \/ Tick

KeysSpec == KeysInit /\ [][KeysNext]_keyVars

-----------------------------------------------------------------------------
(* What must hold.                                                         *)

\* "Revoked keys immediately stop working. This action cannot be undone"
\* (docs/user-guide.md:223), and the time it was done at stays, whatever edit
\* had read the key before and writes it after.
RevokedForGood ==
    [][\A k \in Keys : key[k].revoked # None => key'[k].revoked = key[k].revoked]_keyVars

\* The time of last use is less than Interval behind the uses, unless its write is
\* still to come or was lost: the map says that a write was decided, not that it
\* was done.
LastUsedFresh ==
    \A k \in Keys :
        (Stored(k) /\ used[k] # None) =>
            \/ key[k].lastUsed # None /\ used[k] < key[k].lastUsed + Interval
            \/ k \in lost
            \/ \E t \in touches : t.key = k

\* It never goes back, though goroutines write it in any order, requests take the
\* mutex in another order than they read the clock, and the server restarts.
LastUsedNeverBack ==
    [][\A k \in Keys : (key[k].lastUsed # None) =>
         key'[k].lastUsed # None /\ key'[k].lastUsed >= key[k].lastUsed]_keyVars
=============================================================================
