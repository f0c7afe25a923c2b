------------------------------- MODULE Session -------------------------------
(***************************************************************************)
(* What the robot API promises of recording sessions, without requests,    *)
(* rows or transactions: a robot is free or in session with one of its     *)
(* episodes, and an episode is recorded once, in one session.              *)
(***************************************************************************)
EXTENDS Naturals

CONSTANTS Robots, Episodes, NoEpisode, None

VARIABLES phase,    \* of every episode
          owner,    \* its robot
          session   \* the episode a robot is in session with

sessionVars == <<phase, owner, session>>

SessionInit ==
    /\ phase = [e \in Episodes |-> "absent"]
    /\ owner = [e \in Episodes |-> None]
    /\ session = [r \in Robots |-> NoEpisode]

Queue(S, r) ==
    /\ \A e \in S : phase[e] = "absent"
    /\ phase' = [e \in Episodes |-> IF e \in S THEN "ready" ELSE phase[e]]
    /\ owner' = [e \in Episodes |-> IF e \in S THEN r ELSE owner[e]]
    /\ UNCHANGED session

Record(r, e) ==
    /\ session[r] = NoEpisode
    /\ phase[e] = "ready"
    /\ owner[e] = r
    /\ phase' = [phase EXCEPT ![e] = "recording"]
    /\ session' = [session EXCEPT ![r] = e]
    /\ UNCHANGED owner

End(r, e, how) ==
    /\ session[r] = e
    /\ phase[e] = "recording"
    /\ owner[e] = r
    /\ phase' = [phase EXCEPT ![e] = how]
    /\ session' = [session EXCEPT ![r] = NoEpisode]
    /\ UNCHANGED owner

SessionNext ==
    \E r \in Robots :
        \/ \E S \in SUBSET Episodes : Queue(S, r)
        \/ \E e \in Episodes : \/ Record(r, e)
                               \/ End(r, e, "completed")
                               \/ End(r, e, "cancel")

SessionSpec == SessionInit /\ [][SessionNext]_sessionVars
=============================================================================
