--------------------------- MODULE Console_proofs ----------------------------
(***************************************************************************)
(* The properties of four parts of the console that share no state, for    *)
(* any number of people, versions, subtasks, tasks, tags, files, keys,     *)
(* requests and connections and any clock: task versions and their         *)
(* subtasks (TaskDrafts), tasks and their tags (TaskCatalog), API keys     *)
(* (ApiKeys), and the streams of episodes (EpisodeStream).                 *)
(***************************************************************************)
EXTENDS TaskDrafts, TaskCatalog, ApiKeys, EpisodeStream, Sums, SequenceTheorems

-----------------------------------------------------------------------------
(***************************************************************************)
(* Task versions: the order of the subtasks, and the approved list. All    *)
(* rests on the row that Create and Reorder of subtasks hold locked: a     *)
(* version has one holder, is a draft while it is held, and nobody else    *)
(* puts a subtask into it or moves one meanwhile, though some may be       *)
(* deleted.                                                                *)
(***************************************************************************)

SubTaskLists == UNION {[S -> SubTaskRow] : S \in SUBSET Nat}

Row == [status : {"draft", "approved"}, label : Labels, targets : Contents,
        parameters : Contents, subTasks : SubTaskLists, made : Nat, recorded : SUBSET Nat]

\* The list may be empty; its orders have a bound.
ListOK(list) == \E n \in Nat : \A k \in DOMAIN list : list[k].order <= n

RowOK(entry) ==
    /\ ListOK(entry.subTasks)
    /\ DOMAIN entry.subTasks \subseteq 1 .. entry.made
    /\ entry.recorded \subseteq DOMAIN entry.subTasks
    /\ entry.recorded # {} => entry.status = "approved"

LockSteps == {"maxOrder", "insertSubTask", "checkOrder", "writeOrder"}
Steps == LockSteps \cup {"idle", "copySubTasks", "writeTargets", "writeParameters", "approve",
                         "writeSubTask", "deleteSubTask", "insertEpisode"}

Holds(c, v) == work[c].step \in LockSteps /\ work[c].version = v

\* What a reordering names.
NamesOK(list) == \E n \in Nat : list \in [1 .. n -> Nat]

\* What a request carries is still true of its version when it writes.
WorkOK(w) ==
    /\ w.step \in Steps
    /\ w.step \notin {"idle", "copySubTasks"} => w.version \in DOMAIN version
    /\ w.step = "copySubTasks" =>
          w.base \in DOMAIN version /\ w.label \in Labels /\ w.targets \in Contents /\ w.parameters \in Contents
    /\ w.step \in {"writeTargets", "writeParameters"} => w.content \in Contents
    /\ w.step \in {"maxOrder", "insertSubTask", "writeSubTask"} => w.name \in Contents
    /\ w.step \in LockSteps => Draft(w.version)
    /\ w.step = "insertSubTask" =>
          /\ w.order \in Nat
          /\ \A k \in DOMAIN version[w.version].subTasks :
                version[w.version].subTasks[k].order < w.order
    /\ w.step \in {"checkOrder", "writeOrder"} => NamesOK(w.list)
    /\ w.step = "writeOrder" /\ IsInjective(w.list) =>
          DOMAIN version[w.version].subTasks \subseteq Range(w.list)
    /\ w.step = "insertEpisode" => version[w.version].status = "approved"

DraftsInv ==
    /\ version \in Seq(Row)
    /\ work = [c \in Clients |-> work[c]]
    /\ \A v \in DOMAIN version : RowOK(version[v])
    /\ \A c \in Clients : WorkOK(work[c])
    /\ \A c, d \in Clients : \A v \in DOMAIN version : Holds(c, v) /\ Holds(d, v) => c = d

\* What a list of subtasks is made of.
LEMMA ListTypes ==
    /\ \A list \in SubTaskLists : /\ list \in [DOMAIN list -> SubTaskRow]
                           /\ DOMAIN list \subseteq Nat
                           /\ \A k \in DOMAIN list : list[k].order \in Nat /\ list[k].name \in Contents
    /\ \A S \in SUBSET Nat : \A list \in [S -> SubTaskRow] : list \in SubTaskLists
<1>1. ASSUME NEW list \in SubTaskLists
      PROVE  list \in [DOMAIN list -> SubTaskRow] /\ DOMAIN list \subseteq Nat
  <2>1. PICK S \in SUBSET Nat : list \in [S -> SubTaskRow]
    BY DEF SubTaskLists
  <2> QED BY <2>1
<1>2. ASSUME NEW list \in SubTaskLists, NEW k \in DOMAIN list
      PROVE  list[k].order \in Nat /\ list[k].name \in Contents
  <2>1. list[k] \in SubTaskRow
    BY <1>1
  <2> QED BY <2>1 DEF SubTaskRow
<1>3. ASSUME NEW S \in SUBSET Nat, NEW list \in [S -> SubTaskRow] PROVE list \in SubTaskLists
  BY DEF SubTaskLists
<1> QED BY <1>1, <1>2, <1>3

\* What the row of a version is made of.
LEMMA RowTypes ==
    ASSUME DraftsInv, NEW v \in DOMAIN version
    PROVE  /\ version[v] \in Row /\ RowOK(version[v])
           /\ version[v].targets \in Contents /\ version[v].parameters \in Contents
           /\ version[v].subTasks \in SubTaskLists
           /\ version[v].made \in Nat /\ DOMAIN version[v].subTasks \subseteq 1 .. version[v].made
<1>1. version[v] \in Row /\ RowOK(version[v])
  BY DEF DraftsInv
<1> QED BY <1>1 DEF Row, RowOK

LEMMA IdsFinite ==
    ASSUME DraftsInv, NEW v \in DOMAIN version
    PROVE  /\ IsFiniteSet(DOMAIN version[v].subTasks)
           /\ DOMAIN version[v].subTasks \subseteq Nat
<1> DEFINE ids == DOMAIN version[v].subTasks
<1>1. ids \in SUBSET (1 .. version[v].made) /\ version[v].made \in Int
  BY RowTypes
<1>2. IsFiniteSet(1 .. version[v].made)
  BY <1>1, FS_Interval
<1> QED BY <1>1, <1>2, FS_Subset

-----------------------------------------------------------------------------
(* The largest order, and the place that a reordering gives.               *)

\* A set of numbers with a bound has a largest one: its least bound is in it.
LEMMA LargestIsIn ==
    ASSUME NEW S \in SUBSET Nat, S # {}, NEW b \in Nat, \A x \in S : x <= b
    PROVE  Max(S) \in S /\ \A x \in S : x <= Max(S)
<1> DEFINE T == {n \in Nat : \A x \in S : x <= n}
<1>1. T # {}
  OBVIOUS
<1>2. PICK n \in T : \A m \in T : n <= m
  BY <1>1, LeastNumber
<1>3. n \in S
  <2> SUFFICES ASSUME n \notin S PROVE FALSE
    OBVIOUS
  <2>1. PICK x \in S : TRUE
    OBVIOUS
  <2>2. x \in Nat /\ x <= n /\ x # n /\ n - 1 \in Nat
    BY <2>1, <1>2
  <2>3. \A y \in S : y <= n - 1
    BY <1>2
  <2> QED BY <1>2, <2>2, <2>3
<1> QED BY <1>2, <1>3 DEF Max

\* NextOrderIndex is above all orders.
LEMMA NextOrderIsAbove ==
    ASSUME DraftsInv, NEW v \in DOMAIN version
    PROVE  /\ NextOrderIndex(v) \in Nat
           /\ \A k \in DOMAIN version[v].subTasks : version[v].subTasks[k].order < NextOrderIndex(v)
<1> DEFINE S == OrdersOf(v)
<1>1. version[v] \in Row
  BY DEF DraftsInv
<1>2. \A k \in DOMAIN version[v].subTasks : version[v].subTasks[k].order \in Nat
  BY <1>1, ListTypes DEF Row
<1>3. S \subseteq Nat /\ \A k \in DOMAIN version[v].subTasks : version[v].subTasks[k].order \in S
  BY <1>2 DEF OrdersOf
<1>4. CASE S = {}
  BY <1>3, <1>4 DEF NextOrderIndex
<1>5. CASE S # {}
  <2>1. \E b \in Nat : \A x \in S : x <= b
    BY DEF DraftsInv, RowOK, ListOK, OrdersOf
  <2> DEFINE m == Max(S)
  <2>2. NextOrderIndex(v) = m + 1
    BY <1>5 DEF NextOrderIndex
  <2> HIDE DEF S
  <2>3. m \in S /\ \A x \in S : x <= m
    BY <1>3, <1>5, <2>1, LargestIsIn
  <2> HIDE DEF m
  <2>4. \A n, x \in Nat : x <= n => n + 1 \in Nat /\ x < n + 1
    OBVIOUS
  <2>5. m + 1 \in Nat /\ \A x \in S : x < m + 1
    BY <1>3, <2>3, <2>4, Zenon
  <2> QED BY <1>3, <2>2, <2>5
<1> QED BY <1>4, <1>5

\* A reordering gives what it names the last place of its name, and leaves the rest.
LEMMA NumberedIs ==
    ASSUME NEW n \in Nat, NEW list \in [1 .. n -> Nat], NEW k, NEW order \in Nat
    PROVE  /\ Numbered(list, k, order) \in Nat
           /\ Numbered(list, k, order) <= n \/ Numbered(list, k, order) = order
           /\ k \in Range(list) => /\ Numbered(list, k, order) + 1 \in 1 .. n
                                   /\ list[Numbered(list, k, order) + 1] = k
<1>1. CASE k \notin Range(list)
  BY <1>1 DEF Numbered
<1>2. CASE k \in Range(list)
  <2> DEFINE S == {i \in DOMAIN list : list[i] = k}
             m == Max(S)
  <2>1. S # {} /\ S \in SUBSET Nat /\ (\A i \in S : i <= n) /\ S \subseteq 1 .. n /\ \A i \in S : list[i] = k
    BY <1>2 DEF Range
  <2>2. Numbered(list, k, order) = m - 1
    BY <1>2 DEF Numbered
  <2> HIDE DEF S
  <2>3. m \in S
    BY <2>1, LargestIsIn
  <2> HIDE DEF m
  <2>4. m \in 1 .. n /\ list[m] = k
    BY <2>1, <2>3
  <2>5. m - 1 \in Nat /\ m - 1 <= n /\ (m - 1) + 1 = m
    BY <2>4
  <2> QED BY <2>2, <2>4, <2>5
<1> QED BY <1>1, <1>2

\* A list of as many names as there are subtasks, each one's and none twice, names
\* them all.
LEMMA NamesAll ==
    ASSUME NEW n \in Nat, NEW list \in [1 .. n -> Nat], IsInjective(list),
           NEW ids, IsFiniteSet(ids), Range(list) \subseteq ids, Len(list) = Cardinality(ids)
    PROVE  ids \subseteq Range(list)
<1>1. Len(list) = n
  <2>1. list \in Seq(Nat)
    OBVIOUS
  <2>2. DOMAIN list = 1 .. Len(list) /\ Len(list) \in Nat
    BY <2>1, LenProperties
  <2>3. DOMAIN list = 1 .. n
    OBVIOUS
  <2> QED BY <2>2, <2>3
<1>2. IsFiniteSet(1 .. n) /\ Cardinality(1 .. n) = n
  BY FS_Interval
<1>3. list \in Injection(1 .. n, ids)
  BY DEF Injection, Range
<1>4. list \in Surjection(1 .. n, ids)
  BY <1>1, <1>2, <1>3, FS_Injection
<1> QED BY <1>4 DEF Surjection, Range

-----------------------------------------------------------------------------
(* The steps: a request goes on, or writes one row of version.             *)

\* A request goes on, and changes no version.
LEMMA RequestGoesOn ==
    ASSUME DraftsInv, NEW c \in Clients, NEW w, Continue(c, w), WorkOK(w),
           w.step \in LockSteps => \A d \in Clients \ {c} : ~Holds(d, w.version)
    PROVE  DraftsInv'
<1>1. /\ version' = version
      /\ work' = [work EXCEPT ![c] = w]
      /\ work'[c] = w /\ \A d \in Clients \ {c} : work'[d] = work[d]
  BY DEF DraftsInv, Continue, Goto
<1>2. \A d \in Clients : WorkOK(work[d])'
  BY <1>1 DEF DraftsInv, WorkOK, Draft
<1>3. \A a, b \in Clients : \A v \in DOMAIN version' : Holds(a, v)' /\ Holds(b, v)' => a = b
  BY <1>1 DEF DraftsInv, Holds
<1>4. work' = [d \in Clients |-> work'[d]]
  BY <1>1 DEF DraftsInv
<1> QED BY <1>1, <1>2, <1>3, <1>4 DEF DraftsInv, RowOK

\* Whoever holds the row meanwhile finds no other status, and no order that it
\* had not seen.
LEMMA RowWritten ==
    ASSUME DraftsInv, NEW c \in Clients, NEW v \in DOMAIN version, NEW entry \in Row, RowOK(entry),
           version' = [version EXCEPT ![v] = entry],
           Respond(c),
           version[v].status = "approved" => entry.status = "approved",
           \A d \in Clients \ {c} : Holds(d, v) =>
              /\ entry.status = version[v].status
              /\ DOMAIN entry.subTasks \subseteq DOMAIN version[v].subTasks
              /\ \A k \in DOMAIN entry.subTasks : entry.subTasks[k].order = version[v].subTasks[k].order
    PROVE  DraftsInv'
<1>1. /\ version' \in Seq(Row)
      /\ DOMAIN version' = DOMAIN version
      /\ version'[v] = entry /\ \A u \in DOMAIN version \ {v} : version'[u] = version[u]
  BY ExceptSeq DEF DraftsInv
<1>2. work'[c] = Idle /\ (\A d \in Clients \ {c} : work'[d] = work[d])
      /\ work' = [d \in Clients |-> work'[d]]
  BY DEF DraftsInv, Respond, Goto
<1>3. \A u \in DOMAIN version' : RowOK(version'[u])
  BY <1>1 DEF DraftsInv
<1>4. WorkOK(work[c])'
  BY <1>2 DEF WorkOK, Idle, Steps, LockSteps
<1>5. ASSUME NEW d \in Clients \ {c} PROVE WorkOK(work[d])'
  <2> DEFINE w == work[d]
  <2>1. WorkOK(w) /\ work'[d] = w
    BY <1>2 DEF DraftsInv
  <2>2. w.step \notin {"idle", "copySubTasks"} => w.version \in DOMAIN version
    BY <2>1 DEF WorkOK
  <2>3. CASE w.step \in LockSteps /\ w.version = v
    BY <1>1, <2>1, <2>3 DEF WorkOK, Holds, Draft, LockSteps
  <2>4. CASE w.step \notin LockSteps \/ w.version # v
    BY <1>1, <2>1, <2>2, <2>4 DEF WorkOK, Draft, LockSteps
  <2> QED BY <2>3, <2>4
<1>6. \A a, b \in Clients : \A u \in DOMAIN version' : Holds(a, u)' /\ Holds(b, u)' => a = b
  BY <1>1, <1>2 DEF DraftsInv, Holds, Idle, LockSteps
<1> QED BY <1>1, <1>2, <1>3, <1>4, <1>5, <1>6 DEF DraftsInv

-----------------------------------------------------------------------------
(* The actions.                                                            *)

\* A refused request is over.
LEMMA Refused == ASSUME DraftsInv, NEW c \in Clients, Refuse(c) PROVE DraftsInv'
<1>1. WorkOK(Idle) /\ Idle.step \notin LockSteps
  BY DEF WorkOK, Idle, Steps, LockSteps
<1> QED BY <1>1, RequestGoesOn DEF Refuse

\* What is checked first and written later holds no lock.
LEMMA ChecksKeepInv ==
    ASSUME DraftsInv, NEW c \in Clients,
           CreateVersion(c) \/ EditVersion(c) \/ Approve(c) \/ EditSubTask(c) \/ CreateEpisode(c)
    PROVE  DraftsInv'
<1>1. SUFFICES \E w : Continue(c, w) /\ WorkOK(w) /\ w.step \notin LockSteps
  BY RequestGoesOn
<1> USE DEF WorkOK, Steps, LockSteps
<1>2. CASE CreateVersion(c)
  <2>1. PICK base \in DOMAIN version, label \in Labels, targets \in Contents :
          Continue(c, [step |-> "copySubTasks", base |-> base, label |-> label,
                       targets |-> targets, parameters |-> version[base].parameters])
    BY <1>2 DEF CreateVersion
  <2>2. version[base].parameters \in Contents
    BY RowTypes
  <2> QED BY <2>1, <2>2
<1>3. CASE EditVersion(c)
  <2>1. PICK v \in DOMAIN version, step \in {"writeTargets", "writeParameters"}, x \in Contents :
          Continue(c, [step |-> step, version |-> v, content |-> x])
    BY <1>3 DEF EditVersion
  <2> DEFINE w == [step |-> step, version |-> v, content |-> x]
  <2>2. Continue(c, w) /\ WorkOK(w) /\ w.step \notin LockSteps
    BY <2>1
  <2> HIDE DEF w
  <2> QED BY <2>2, Zenon
<1>4. CASE Approve(c)
  BY <1>4 DEF Approve
<1>5. CASE EditSubTask(c)
  <2>1. PICK v \in DOMAIN version : \E k \in DOMAIN version[v].subTasks :
          \/ \E name \in Contents :
               Continue(c, [step |-> "writeSubTask", version |-> v, subTask |-> k, name |-> name])
          \/ Continue(c, [step |-> "deleteSubTask", version |-> v, subTask |-> k])
    BY <1>5 DEF EditSubTask
  <2>2. ASSUME NEW k, NEW name \in Contents,
               Continue(c, [step |-> "writeSubTask", version |-> v, subTask |-> k, name |-> name])
        PROVE  \E w : Continue(c, w) /\ WorkOK(w) /\ w.step \notin LockSteps
    <3> DEFINE w == [step |-> "writeSubTask", version |-> v, subTask |-> k, name |-> name]
    <3>1. Continue(c, w) /\ WorkOK(w) /\ w.step \notin LockSteps
      BY <2>2
    <3> HIDE DEF w
    <3> QED BY <3>1, Zenon
  <2>3. ASSUME NEW k, Continue(c, [step |-> "deleteSubTask", version |-> v, subTask |-> k])
        PROVE  \E w : Continue(c, w) /\ WorkOK(w) /\ w.step \notin LockSteps
    <3> DEFINE w == [step |-> "deleteSubTask", version |-> v, subTask |-> k]
    <3>1. Continue(c, w) /\ WorkOK(w) /\ w.step \notin LockSteps
      BY <2>3
    <3> HIDE DEF w
    <3> QED BY <3>1, Zenon
  <2> QED BY <2>1, <2>2, <2>3, Zenon
<1>6. CASE CreateEpisode(c)
  BY <1>6 DEF CreateEpisode
<1> QED BY <1>2, <1>3, <1>4, <1>5, <1>6

\* The row is locked, if it is not, and found a draft.
LEMMA LocksKeepInv ==
    ASSUME DraftsInv, NEW c \in Clients, CreateSubTask(c) \/ Reorder(c)
    PROVE  DraftsInv'
<1>1. CASE CreateSubTask(c)
  <2>1. PICK v \in DOMAIN version, name \in Contents :
          /\ ~Held(v) /\ Draft(v)
          /\ Continue(c, [step |-> "maxOrder", version |-> v, name |-> name])
    BY <1>1 DEF CreateSubTask
  <2>2. WorkOK([step |-> "maxOrder", version |-> v, name |-> name])
    BY <2>1 DEF WorkOK, Steps, LockSteps
  <2>3. \A d \in Clients : ~Holds(d, v)
    BY <2>1 DEF Held, Holds, LockSteps
  <2> QED BY <2>1, <2>2, <2>3, RequestGoesOn
<1>2. CASE Reorder(c)
  <2>1. PICK v \in DOMAIN version :
          /\ ~Held(v) /\ Draft(v)
          /\ \E list \in [1 .. Cardinality(DOMAIN version[v].subTasks) -> DOMAIN version[v].subTasks] :
               Continue(c, [step |-> "checkOrder", version |-> v, list |-> list])
    BY <1>2 DEF Reorder
  <2> DEFINE ids == DOMAIN version[v].subTasks
  <2>2. Cardinality(ids) \in Nat /\ ids \subseteq Nat
    BY IdsFinite, FS_CardinalityType
  <2>3. PICK list \in [1 .. Cardinality(ids) -> ids] :
          Continue(c, [step |-> "checkOrder", version |-> v, list |-> list])
    BY <2>1
  <2> HIDE DEF ids
  <2>4. NamesOK(list)
    <3>1. list \in [1 .. Cardinality(ids) -> Nat]
      BY <2>2
    <3> QED BY <2>2, <3>1 DEF NamesOK
  <2>5. WorkOK([step |-> "checkOrder", version |-> v, list |-> list])
    BY <2>1, <2>4 DEF WorkOK, Steps, LockSteps
  <2>6. \A d \in Clients : ~Holds(d, v)
    BY <2>1 DEF Held, Holds, LockSteps
  <2> QED BY <2>3, <2>5, <2>6, RequestGoesOn
<1> QED BY <1>1, <1>2

\* The holder reads under its lock.
LEMMA ReadsKeepInv ==
    ASSUME DraftsInv, NEW c \in Clients, MaxOrder(c) \/ CheckOrder(c)
    PROVE  DraftsInv'
<1> DEFINE v == work[c].version
<1>1. /\ v \in DOMAIN version /\ Draft(v)
      /\ \A d \in Clients \ {c} : ~Holds(d, v)
  BY DEF MaxOrder, CheckOrder, At, DraftsInv, WorkOK, Holds, LockSteps
<1>2. CASE MaxOrder(c)
  <2> DEFINE w == [step |-> "insertSubTask", version |-> v,
                   name |-> work[c].name, order |-> NextOrderIndex(v)]
  <2>1. work[c].name \in Contents
    BY <1>2 DEF MaxOrder, At, DraftsInv, WorkOK
  <2>2. WorkOK(w)
    BY <1>1, <2>1, NextOrderIsAbove DEF WorkOK, Steps, LockSteps
  <2> QED BY <1>1, <1>2, <2>2, RequestGoesOn DEF MaxOrder
<1> DEFINE list == work[c].list
           ids == DOMAIN version[v].subTasks
<1>3. CASE CheckOrder(c) /\ Len(list) = Cardinality(ids) /\ Range(list) \subseteq ids
  <2> DEFINE w == [work[c] EXCEPT !.step = "writeOrder"]
  <2>1. w.step = "writeOrder" /\ w.version = v /\ w.list = list
    BY <1>3 DEF CheckOrder, At
  <2>2. NamesOK(list)
    BY <1>3 DEF CheckOrder, At, DraftsInv, WorkOK
  <2>3. IsFiniteSet(ids)
    BY <1>1, IdsFinite
  <2>4. IsInjective(list) => ids \subseteq Range(list)
    BY <1>3, <2>2, <2>3, NamesAll DEF NamesOK
  <2>5. Continue(c, w)
    BY <1>3 DEF CheckOrder, Now
  <2> HIDE DEF w, list
  <2>6. WorkOK(w)
    BY <1>1, <2>1, <2>2, <2>4 DEF WorkOK, Steps, LockSteps
  <2> QED BY <1>1, <2>1, <2>5, <2>6, RequestGoesOn
<1>4. CASE CheckOrder(c) /\ ~(Len(list) = Cardinality(ids) /\ Range(list) \subseteq ids)
  BY <1>4, Refused DEF CheckOrder, Now
<1> QED BY <1>2, <1>3, <1>4

\* A row is written without its list being touched, and by nobody while somebody
\* holds it: the status, the texts.
LEMMA WritesOfVersionKeepInv ==
    ASSUME DraftsInv, NEW c \in Clients, WriteTargets(c) \/ WriteParameters(c) \/ WriteApproved(c)
    PROVE  DraftsInv'
<1> DEFINE v == work[c].version
           old == version[v]
<1>1. v \in DOMAIN version /\ ~Held(v) /\ Respond(c)
  BY DEF WriteTargets, WriteParameters, WriteApproved, At, DraftsInv, WorkOK
<1>2. old \in Row /\ RowOK(old)
  BY <1>1, RowTypes
<1>3. \E entry \in Row :
        /\ version' = [version EXCEPT ![v] = entry]
        /\ entry.subTasks = old.subTasks /\ entry.made = old.made /\ entry.recorded = old.recorded
        /\ entry.status \in {old.status, "approved"}
  <2>1. CASE WriteTargets(c) \/ WriteParameters(c)
    <3>1. work[c].content \in Contents
      BY <2>1 DEF WriteTargets, WriteParameters, At, DraftsInv, WorkOK
    <3> QED BY <1>2, <2>1, <3>1 DEF WriteTargets, WriteParameters, Row
  <2>2. CASE WriteApproved(c)
    <3> DEFINE entry == [old EXCEPT !.status = "approved"]
    <3>1. version' = [version EXCEPT ![v] = entry]
      BY <2>2 DEF WriteApproved
    <3>2. entry \in Row /\ entry.subTasks = old.subTasks /\ entry.made = old.made
          /\ entry.recorded = old.recorded /\ entry.status = "approved"
      BY <1>2 DEF Row
    <3> HIDE DEF entry
    <3> QED BY <3>1, <3>2
  <2> QED BY <2>1, <2>2
<1>4. PICK entry \in Row :
        /\ version' = [version EXCEPT ![v] = entry]
        /\ entry.subTasks = old.subTasks /\ entry.made = old.made /\ entry.recorded = old.recorded
        /\ entry.status \in {old.status, "approved"}
  BY <1>3
<1>5. RowOK(entry)
  BY <1>2, <1>4 DEF RowOK
<1>6. \A d \in Clients : ~Holds(d, v)
  BY <1>1 DEF Held, Holds, LockSteps
<1> QED BY <1>1, <1>4, <1>5, <1>6, RowWritten

\* A subtask loses its text or goes, whoever holds the row; or an episode records
\* those of an approved version.
LEMMA WritesOfSubTaskKeepInv ==
    ASSUME DraftsInv, NEW c \in Clients, WriteSubTask(c) \/ DeleteSubTask(c) \/ InsertEpisode(c)
    PROVE  DraftsInv'
<1> DEFINE v == work[c].version
           old == version[v]
<1>1. v \in DOMAIN version
  BY DEF WriteSubTask, DeleteSubTask, InsertEpisode, At, DraftsInv, WorkOK
<1>2. old \in Row /\ RowOK(old) /\ old.subTasks \in [DOMAIN old.subTasks -> SubTaskRow]
      /\ DOMAIN old.subTasks \subseteq Nat
  BY <1>1, RowTypes, ListTypes
<1>3. CASE Refuse(c)
  BY <1>3, Refused
<1>4. CASE ~Refuse(c)
  <2>1. \E entry \in Row :
          /\ version' = [version EXCEPT ![v] = entry]
          /\ entry.made = old.made /\ entry.status = old.status
          /\ DOMAIN entry.subTasks \subseteq DOMAIN old.subTasks
          /\ \A k \in DOMAIN entry.subTasks : entry.subTasks[k].order = old.subTasks[k].order
          /\ entry.recorded \subseteq DOMAIN entry.subTasks
          /\ entry.recorded # {} => entry.status = "approved"
    <3>1. CASE WriteSubTask(c)
      <4> DEFINE k == work[c].subTask
                 list == [old.subTasks EXCEPT ![k].name = work[c].name]
                 entry == [old EXCEPT !.subTasks = list]
      <4>1. k \in DOMAIN old.subTasks /\ work[c].name \in Contents
            /\ version' = [version EXCEPT ![v].subTasks[k].name = work[c].name]
        BY <1>4, <3>1 DEF WriteSubTask, Now, At, DraftsInv, WorkOK
      <4>2. list \in [DOMAIN old.subTasks -> SubTaskRow]
            /\ \A j \in DOMAIN old.subTasks : list[j].order = old.subTasks[j].order
        BY <1>2, <4>1 DEF SubTaskRow
      <4>3. version' = [version EXCEPT ![v] = entry]
        BY <4>1
      <4>4. list \in SubTaskLists
        BY <1>2, <4>2, ListTypes
      <4> HIDE DEF list
      <4>5. entry \in Row /\ entry.subTasks = list /\ entry.made = old.made /\ entry.status = old.status
            /\ entry.recorded = old.recorded
        BY <1>2, <4>4 DEF Row
      <4> HIDE DEF entry
      <4> QED BY <1>2, <4>2, <4>3, <4>5 DEF RowOK
    <3>2. CASE DeleteSubTask(c)
      <4> DEFINE k == work[c].subTask
                 list == Restrict(old.subTasks, DOMAIN old.subTasks \ {k})
                 entry == [old EXCEPT !.subTasks = list]
      <4>1. k \notin old.recorded /\ version' = [version EXCEPT ![v] = entry]
        BY <1>4, <3>2 DEF DeleteSubTask, Now
      <4>2. list \in [DOMAIN old.subTasks \ {k} -> SubTaskRow]
            /\ \A j \in DOMAIN old.subTasks \ {k} : list[j].order = old.subTasks[j].order
        BY <1>2 DEF Restrict
      <4>3. list \in SubTaskLists
        BY <1>2, <4>2, ListTypes
      <4> HIDE DEF list
      <4>4. entry \in Row /\ entry.subTasks = list /\ entry.made = old.made /\ entry.status = old.status
            /\ entry.recorded = old.recorded
        BY <1>2, <4>3 DEF Row
      <4> HIDE DEF entry
      <4> QED BY <1>2, <4>1, <4>2, <4>4 DEF RowOK
    <3>3. CASE InsertEpisode(c)
      <4> DEFINE entry == [old EXCEPT !.recorded = @ \cup work[c].subTasks]
      <4>1. old.status = "approved" /\ work[c].subTasks \subseteq DOMAIN old.subTasks
            /\ version' = [version EXCEPT ![v] = entry]
        BY <1>4, <3>3 DEF InsertEpisode, Now, At, DraftsInv, WorkOK
      <4>2. entry \in Row /\ entry.subTasks = old.subTasks /\ entry.made = old.made /\ entry.status = old.status
            /\ entry.recorded = old.recorded \cup work[c].subTasks
        BY <1>2, <4>1 DEF Row
      <4> HIDE DEF entry
      <4> QED BY <1>2, <4>1, <4>2 DEF RowOK
    <3> QED BY <3>1, <3>2, <3>3
  <2>2. PICK entry \in Row :
          /\ version' = [version EXCEPT ![v] = entry]
          /\ entry.made = old.made /\ entry.status = old.status
          /\ DOMAIN entry.subTasks \subseteq DOMAIN old.subTasks
          /\ \A k \in DOMAIN entry.subTasks : entry.subTasks[k].order = old.subTasks[k].order
          /\ entry.recorded \subseteq DOMAIN entry.subTasks
          /\ entry.recorded # {} => entry.status = "approved"
    BY <2>1
  <2>3. RowOK(entry)
    BY <1>2, <2>2 DEF RowOK, ListOK
  <2>4. Respond(c)
    BY <1>4 DEF WriteSubTask, DeleteSubTask, InsertEpisode
  <2> HIDE DEF v
  <2> QED BY <1>1, <2>2, <2>3, <2>4, RowWritten
<1> QED BY <1>3, <1>4

\* The holder writes the list: nobody else holds it, and what it carries is still
\* above all orders, or has a place for every subtask.
LEMMA HolderKeepsInv ==
    ASSUME DraftsInv, NEW c \in Clients, InsertSubTask(c) \/ UpdateOrderIndices(c)
    PROVE  DraftsInv'
<1> DEFINE v == work[c].version
           old == version[v]
<1>1. /\ v \in DOMAIN version /\ old.status = "draft" /\ Respond(c)
      /\ \A d \in Clients \ {c} : ~Holds(d, v)
  BY DEF InsertSubTask, UpdateOrderIndices, At, DraftsInv, WorkOK, Holds, LockSteps, Draft
<1>2. /\ old \in Row /\ RowOK(old) /\ old.subTasks \in [DOMAIN old.subTasks -> SubTaskRow]
      /\ \A k \in DOMAIN old.subTasks : /\ old.subTasks[k].order \in Nat
                                        /\ old.subTasks[k].name \in Contents
      /\ old.made \in Nat /\ DOMAIN old.subTasks \subseteq 1 .. old.made
  BY <1>1, RowTypes, ListTypes
<1>3. CASE InsertSubTask(c)
  <2> DEFINE id == old.made + 1
             new == [order |-> work[c].order, name |-> work[c].name]
             list == [k \in DOMAIN old.subTasks \cup {id} |-> IF k = id THEN new ELSE old.subTasks[k]]
             entry == [old EXCEPT !.made = id, !.subTasks = list]
  <2>1. /\ new \in SubTaskRow /\ new.order \in Nat /\ new.order = work[c].order
        /\ \A k \in DOMAIN old.subTasks : old.subTasks[k].order < new.order
    BY <1>3 DEF InsertSubTask, At, DraftsInv, WorkOK, SubTaskRow
  <2>2. version' = [version EXCEPT ![v] = entry]
    BY <1>3 DEF InsertSubTask, Now
  <2>3. id \in Nat /\ id \notin DOMAIN old.subTasks /\ DOMAIN old.subTasks \cup {id} \subseteq 1 .. id
    BY <1>2
  <2> HIDE DEF new, id
  <2>4. /\ list \in [DOMAIN old.subTasks \cup {id} -> SubTaskRow]
        /\ list[id] = new /\ \A k \in DOMAIN old.subTasks : list[k] = old.subTasks[k]
    BY <1>2, <2>1, <2>3
  <2>5. DOMAIN list = DOMAIN old.subTasks \cup {id}
    OBVIOUS
  <2>6. list \in SubTaskLists
    BY <2>3, <2>4, ListTypes
  <2> HIDE DEF list
  <2>7. ListOK(list)
    <3>1. \A k \in DOMAIN list : list[k].order <= new.order
      BY <1>2, <2>1, <2>4, <2>5
    <3> QED BY <2>1, <3>1 DEF ListOK
  <2>8. /\ entry \in Row /\ entry.subTasks = list /\ entry.made = id /\ entry.status = old.status
        /\ entry.recorded = old.recorded
    BY <1>2, <2>3, <2>6 DEF Row
  <2> HIDE DEF entry
  <2>9. RowOK(entry)
    BY <1>2, <2>3, <2>5, <2>7, <2>8 DEF RowOK
  <2> QED BY <1>1, <2>2, <2>8, <2>9, RowWritten
<1>4. CASE UpdateOrderIndices(c)
  <2> DEFINE names == work[c].list
             list == [k \in DOMAIN old.subTasks |->
                        [old.subTasks[k] EXCEPT !.order = Numbered(names, k, old.subTasks[k].order)]]
             entry == [old EXCEPT !.subTasks = list]
  <2>1. PICK n \in Nat : names \in [1 .. n -> Nat]
    BY <1>4 DEF UpdateOrderIndices, At, DraftsInv, WorkOK, NamesOK
  <2>2. version' = [version EXCEPT ![v] = entry]
    BY <1>4 DEF UpdateOrderIndices, Now
  <2> HIDE DEF names
  <2>3. ASSUME NEW k \in DOMAIN old.subTasks
        PROVE  /\ list[k] \in SubTaskRow
               /\ list[k].order <= n \/ list[k].order = old.subTasks[k].order
    <3>1. old.subTasks[k] \in SubTaskRow /\ old.subTasks[k].order \in Nat
      BY <1>2
    <3>2. /\ Numbered(names, k, old.subTasks[k].order) \in Nat
          /\ \/ Numbered(names, k, old.subTasks[k].order) <= n
             \/ Numbered(names, k, old.subTasks[k].order) = old.subTasks[k].order
      BY <2>1, <3>1, NumberedIs
    <3> QED BY <3>1, <3>2 DEF SubTaskRow
  <2>4. DOMAIN list = DOMAIN old.subTasks
    OBVIOUS
  <2>5. list \in [DOMAIN old.subTasks -> SubTaskRow]
    BY <2>3
  <2>6. list \in SubTaskLists
    BY <1>2, <2>5, ListTypes, RowTypes, <1>1
  <2> HIDE DEF list
  <2>7. ListOK(list)
    <3>1. PICK b \in Nat : \A k \in DOMAIN old.subTasks : old.subTasks[k].order <= b
      BY <1>2 DEF RowOK, ListOK
    <3>2. \A k \in DOMAIN list : list[k].order <= n + b
      <4> SUFFICES ASSUME NEW k \in DOMAIN list PROVE list[k].order <= n + b
        OBVIOUS
      <4>1. list[k].order \in Nat /\ (list[k].order <= n \/ list[k].order <= b)
        BY <1>2, <2>3, <2>4, <3>1 DEF SubTaskRow
      <4> QED BY <4>1
    <3> QED BY <3>2 DEF ListOK
  <2>8. /\ entry \in Row /\ entry.subTasks = list /\ entry.made = old.made /\ entry.status = old.status
        /\ entry.recorded = old.recorded
    BY <1>2, <2>6 DEF Row
  <2> HIDE DEF entry
  <2>9. RowOK(entry)
    BY <1>2, <2>4, <2>7, <2>8 DEF RowOK
  <2> QED BY <1>1, <2>2, <2>8, <2>9, RowWritten
<1> QED BY <1>3, <1>4

\* A copy has the list of its base, and is recorded by nobody.
LEMMA CopyKeepsInv ==
    ASSUME DraftsInv, NEW c \in Clients, CopySubTasks(c)
    PROVE  DraftsInv'
<1> DEFINE w == work[c]
           base == version[w.base]
           entry == [status |-> "draft", label |-> w.label, targets |-> w.targets,
                   parameters |-> w.parameters, subTasks |-> base.subTasks,
                   made |-> base.made, recorded |-> {}]
<1>1. w.base \in DOMAIN version /\ w.label \in Labels /\ w.targets \in Contents /\ w.parameters \in Contents
  BY DEF CopySubTasks, At, DraftsInv, WorkOK
<1>2. base \in Row /\ RowOK(base) /\ base.subTasks \in SubTaskLists /\ base.made \in Nat
  BY <1>1, RowTypes
<1>3. version' = Append(version, entry) /\ Respond(c)
  BY DEF CopySubTasks
<1>4. /\ entry \in Row /\ entry.subTasks = base.subTasks /\ entry.made = base.made
      /\ entry.recorded = {}
  BY <1>1, <1>2 DEF Row
<1> HIDE DEF entry
<1>5. RowOK(entry)
  BY <1>2, <1>4 DEF RowOK
<1>6. /\ version' \in Seq(Row)
      /\ DOMAIN version \subseteq DOMAIN version'
      /\ \A v \in DOMAIN version : version'[v] = version[v]
      /\ \A v \in DOMAIN version' : version'[v] = entry \/ v \in DOMAIN version
  BY <1>3, <1>4, AppendProperties DEF DraftsInv
<1>7. work'[c] = Idle /\ (\A d \in Clients \ {c} : work'[d] = work[d])
      /\ work' = [d \in Clients |-> work'[d]]
  BY <1>3 DEF DraftsInv, Respond, Goto
<1>8. \A v \in DOMAIN version' : RowOK(version'[v])
  BY <1>5, <1>6 DEF DraftsInv
<1>9. WorkOK(work[c])'
  BY <1>7 DEF WorkOK, Idle, Steps, LockSteps
<1>10. ASSUME NEW d \in Clients \ {c} PROVE WorkOK(work[d])'
  <2>1. WorkOK(work[d]) /\ work'[d] = work[d]
    BY <1>7 DEF DraftsInv
  <2> QED BY <1>6, <2>1 DEF WorkOK, Draft, Steps, LockSteps
<1>11. \A a, b \in Clients : \A v \in DOMAIN version' : Holds(a, v)' /\ Holds(b, v)' => a = b
  <2> SUFFICES ASSUME NEW a \in Clients, NEW b \in Clients, NEW v \in DOMAIN version',
                      Holds(a, v)', Holds(b, v)'
               PROVE  a = b
    OBVIOUS
  <2>1. a # c /\ b # c
    BY <1>7 DEF Holds, Idle, LockSteps
  <2>2. Holds(a, v) /\ Holds(b, v)
    BY <1>7, <2>1 DEF Holds
  <2>3. v \in DOMAIN version
    BY <2>2 DEF Holds, DraftsInv, WorkOK, LockSteps
  <2> QED BY <2>2, <2>3 DEF DraftsInv
<1> QED BY <1>6, <1>7, <1>8, <1>9, <1>10, <1>11 DEF DraftsInv

\* The invariant, of every behaviour of the drafts.
LEMMA DraftsInvAlways == Spec => []DraftsInv
<1>1. Init => DraftsInv
  <2> SUFFICES ASSUME Init PROVE DraftsInv
    OBVIOUS
  <2>1. << >> \in SubTaskLists /\ DOMAIN << >> = {}
    <3>1. << >> \in [{} -> SubTaskRow]
      OBVIOUS
    <3> QED BY <3>1, ListTypes
  <2>2. FirstVersion \in Row
    BY <2>1, DraftsAssumption DEF FirstVersion, Row
  <2>3. RowOK(FirstVersion)
    BY <2>1 DEF FirstVersion, RowOK, ListOK
  <2>4. version = <<FirstVersion>> /\ version \in Seq(Row) /\ \A v \in DOMAIN version : version[v] = FirstVersion
    BY <2>2 DEF Init
  <2>5. \A c \in Clients : WorkOK(work[c]) /\ work[c].step \notin LockSteps
    BY DEF Init, WorkOK, Idle, Steps, LockSteps
  <2> QED BY <2>3, <2>4, <2>5 DEF Init, DraftsInv, Holds
<1>2. DraftsInv /\ [Next]_vars => DraftsInv'
  <2> SUFFICES ASSUME DraftsInv, [Next]_vars PROVE DraftsInv'
    OBVIOUS
  <2>1. CASE UNCHANGED vars
    BY <2>1 DEF vars, DraftsInv, RowOK, WorkOK, Holds, Draft
  <2> QED BY <2>1, ChecksKeepInv, LocksKeepInv, ReadsKeepInv, WritesOfVersionKeepInv,
             WritesOfSubTaskKeepInv, HolderKeepsInv, CopyKeepsInv DEF Next
<1> QED BY <1>1, <1>2, PTL DEF Spec

\* A list of which some may be gone, and nobody has moved.
Thinned(new, old) ==
    /\ DOMAIN new \subseteq DOMAIN old
    /\ \A k \in DOMAIN new : new[k].order = old[k].order

\* What becomes of a list in a step: some may go from it that no episode records,
\* it may be copied, and only who holds its version adds to it or moves one of it.
LEMMA ListMoves ==
    ASSUME DraftsInv, [Next]_vars, NEW v \in DOMAIN version'
    PROVE  \/ /\ v \in DOMAIN version
              /\ Thinned(version'[v].subTasks, version[v].subTasks)
              /\ version[v].recorded \subseteq DOMAIN version'[v].subTasks
           \/ /\ v \notin DOMAIN version
              /\ \E base \in DOMAIN version : version'[v].subTasks = version[base].subTasks
           \/ /\ v \in DOMAIN version
              /\ \E c \in Clients : work[c].version = v /\ (InsertSubTask(c) \/ UpdateOrderIndices(c))
<1> DEFINE old == version[v]
           Kept == v \in DOMAIN version /\ version'[v].subTasks = old.subTasks
<1>1. v \in DOMAIN version =>
        /\ old \in Row /\ old.recorded \subseteq DOMAIN old.subTasks
        /\ old.subTasks \in [DOMAIN old.subTasks -> SubTaskRow]
  BY RowTypes, ListTypes DEF RowOK
<1>2. CASE Kept
  BY <1>1, <1>2 DEF Thinned
<1>3. ASSUME NEW c \in Clients, WriteTargets(c) \/ WriteParameters(c) \/ WriteApproved(c) \/ InsertEpisode(c)
      PROVE  Kept
  <2>1. DOMAIN version' = DOMAIN version
    BY <1>3 DEF WriteTargets, WriteParameters, WriteApproved, InsertEpisode, Refuse, Continue
  <2> QED BY <1>1, <1>3, <2>1 DEF WriteTargets, WriteParameters, WriteApproved, InsertEpisode, Refuse, Continue,
                                  DraftsInv, Row
<1>4. ASSUME NEW c \in Clients, InsertSubTask(c) \/ UpdateOrderIndices(c), work[c].version # v
      PROVE  Kept
  BY <1>4 DEF InsertSubTask, UpdateOrderIndices, DraftsInv
<1>5. ASSUME NEW c \in Clients, CopySubTasks(c)
      PROVE  \/ Kept
             \/ /\ v \notin DOMAIN version
                /\ \E base \in DOMAIN version : version'[v].subTasks = version[base].subTasks
  <2> DEFINE w == work[c]
             entry == [status |-> "draft", label |-> w.label, targets |-> w.targets,
                     parameters |-> w.parameters, subTasks |-> version[w.base].subTasks,
                     made |-> version[w.base].made, recorded |-> {}]
  <2>1. /\ version' = Append(version, entry) /\ w.base \in DOMAIN version
        /\ w.label \in Labels /\ w.targets \in Contents /\ w.parameters \in Contents
    BY <1>5 DEF CopySubTasks, At, DraftsInv, WorkOK
  <2>2. entry.subTasks = version[w.base].subTasks /\ entry \in Row
    BY <2>1, RowTypes DEF Row
  <2> HIDE DEF entry
  <2>3. /\ \A u \in DOMAIN version : version'[u] = version[u]
        /\ \A u \in DOMAIN version' : version'[u] = entry \/ u \in DOMAIN version
    BY <2>1, <2>2, AppendProperties DEF DraftsInv
  <2> QED BY <2>1, <2>2, <2>3
<1>6. ASSUME NEW c \in Clients, WriteSubTask(c), ~Kept
      PROVE  /\ v \in DOMAIN version
             /\ DOMAIN version'[v].subTasks = DOMAIN old.subTasks
             /\ \A k \in DOMAIN old.subTasks : version'[v].subTasks[k].order = old.subTasks[k].order
  <2> DEFINE k == work[c].subTask
             list == [old.subTasks EXCEPT ![k].name = work[c].name]
  <2>1. /\ v \in DOMAIN version /\ v = work[c].version /\ k \in DOMAIN old.subTasks
        /\ version' = [version EXCEPT ![v].subTasks[k].name = work[c].name]
    BY <1>6 DEF WriteSubTask, Refuse, Continue, Now, DraftsInv
  <2>2. version'[v].subTasks = list
    BY <1>1, <2>1 DEF DraftsInv, Row
  <2>3. DOMAIN list = DOMAIN old.subTasks
        /\ \A j \in DOMAIN old.subTasks : list[j].order = old.subTasks[j].order
    BY <1>1, <2>1 DEF SubTaskRow
  <2> QED BY <2>1, <2>2, <2>3
<1>7. ASSUME NEW c \in Clients, DeleteSubTask(c), ~Kept
      PROVE  /\ v \in DOMAIN version
             /\ DOMAIN version'[v].subTasks = DOMAIN old.subTasks \ {work[c].subTask}
             /\ \A k \in DOMAIN version'[v].subTasks : version'[v].subTasks[k] = old.subTasks[k]
             /\ work[c].subTask \notin old.recorded
  <2> DEFINE list == Restrict(old.subTasks, DOMAIN old.subTasks \ {work[c].subTask})
  <2>1. /\ v \in DOMAIN version /\ v = work[c].version /\ work[c].subTask \notin old.recorded
        /\ version' = [version EXCEPT ![v].subTasks = list]
    BY <1>7 DEF DeleteSubTask, Refuse, Continue, Now, DraftsInv
  <2>2. version'[v].subTasks = list
    BY <1>1, <2>1 DEF DraftsInv, Row
  <2>3. DOMAIN list = DOMAIN old.subTasks \ {work[c].subTask}
        /\ \A k \in DOMAIN list : list[k] = old.subTasks[k]
    BY DEF Restrict
  <2> QED BY <2>1, <2>2, <2>3
<1>8. ASSUME NEW c \in Clients,
             \/ CreateVersion(c) \/ EditVersion(c) \/ Approve(c) \/ EditSubTask(c) \/ CreateEpisode(c)
             \/ CreateSubTask(c) \/ Reorder(c) \/ MaxOrder(c) \/ CheckOrder(c)
      PROVE  Kept
  BY <1>8 DEF CreateVersion, EditVersion, Approve, EditSubTask, CreateEpisode, CreateSubTask, Reorder,
              MaxOrder, CheckOrder, Refuse, Continue
<1>9. CASE \E c \in Clients : WriteSubTask(c) \/ DeleteSubTask(c)
  BY <1>1, <1>2, <1>6, <1>7, <1>9 DEF Thinned
<1>10. CASE \E c \in Clients : InsertSubTask(c) \/ UpdateOrderIndices(c)
  <2>1. PICK c \in Clients : InsertSubTask(c) \/ UpdateOrderIndices(c)
    BY <1>10
  <2>2. work[c].version \in DOMAIN version
    BY <2>1 DEF InsertSubTask, UpdateOrderIndices, At, DraftsInv, WorkOK
  <2> QED BY <1>2, <1>4, <2>1, <2>2
<1>11. CASE UNCHANGED vars
  BY <1>2, <1>11 DEF vars
<1> QED BY <1>2, <1>3, <1>5, <1>8, <1>9, <1>10, <1>11 DEF Next

\* Of an approved version there is no holder.
LEMMA ApprovedList ==
    ASSUME DraftsInv, [Next]_vars, NEW v \in DOMAIN version, version[v].status = "approved",
           v \in DOMAIN version'
    PROVE  /\ Thinned(version'[v].subTasks, version[v].subTasks)
           /\ version[v].recorded \subseteq DOMAIN version'[v].subTasks
<1>1. ASSUME NEW c \in Clients, InsertSubTask(c) \/ UpdateOrderIndices(c) PROVE work[c].version # v
  BY <1>1 DEF InsertSubTask, UpdateOrderIndices, At, DraftsInv, WorkOK, LockSteps, Draft
<1> QED BY <1>1, ListMoves

\* A created subtask goes behind all others, also when some share a place.
LEMMA InsertedIsLast ==
    ASSUME DraftsInv, NEW c \in Clients, InsertSubTask(c), NEW v \in DOMAIN version, work[c].version = v
    PROVE  \E id \in Nat \ DOMAIN version[v].subTasks :
             /\ DOMAIN version'[v].subTasks = DOMAIN version[v].subTasks \cup {id}
             /\ version'[v].subTasks[id].order \in Nat
             /\ \A k \in DOMAIN version[v].subTasks :
                  /\ version'[v].subTasks[k] = version[v].subTasks[k]
                  /\ version[v].subTasks[k].order < version'[v].subTasks[id].order
<1> DEFINE old == version[v]
           id == old.made + 1
           new == [order |-> work[c].order, name |-> work[c].name]
           list == [k \in DOMAIN old.subTasks \cup {id} |-> IF k = id THEN new ELSE old.subTasks[k]]
<1>1. id \in Nat /\ id \notin DOMAIN old.subTasks
  BY RowTypes
<1>2. new.order \in Nat /\ \A k \in DOMAIN old.subTasks : old.subTasks[k].order < new.order
  BY DEF InsertSubTask, At, DraftsInv, WorkOK
<1>3. version' = [version EXCEPT ![v].made = id, ![v].subTasks = list]
  BY DEF InsertSubTask, Now
<1>4. version'[v].subTasks = list
  BY <1>3, RowTypes DEF DraftsInv, Row
<1> HIDE DEF new
<1>5. list[id] = new /\ DOMAIN list = DOMAIN old.subTasks \cup {id}
      /\ \A k \in DOMAIN old.subTasks : list[k] = old.subTasks[k]
  BY <1>1
<1> HIDE DEF list, id
<1> QED BY <1>1, <1>2, <1>4, <1>5

\* No version is ever deleted.
LEMMA VersionsStay ==
    ASSUME DraftsInv, [Next]_vars
    PROVE  DOMAIN version \subseteq DOMAIN version'
<1>1. ASSUME NEW c \in Clients, CopySubTasks(c) PROVE DOMAIN version \subseteq DOMAIN version'
  BY <1>1 DEF CopySubTasks, DraftsInv
<1>2. CASE ~ \E c \in Clients : CopySubTasks(c)
  BY <1>2 DEF Next, vars, CreateVersion, EditVersion, Approve, EditSubTask, CreateEpisode, CreateSubTask,
              Reorder, MaxOrder, CheckOrder, WriteTargets, WriteParameters, WriteApproved, InsertEpisode,
              InsertSubTask, UpdateOrderIndices, WriteSubTask, DeleteSubTask, Refuse, Continue
<1> QED BY <1>1, <1>2

-----------------------------------------------------------------------------
(* The properties.                                                         *)

\* Whoever creates, deletes, reorders and copies subtasks at once, two of a version
\* come to share a place only when a reordering names one twice (gateway/sub_task.go
\* NextOrderIndex under the lock of usecase/sub_task.go Create, and
\* UpdateOrderIndices under that of Reorder).
THEOREM PlacesAlwaysStayDistinct == Spec => PlacesStayDistinct
<1>1. DraftsInv /\ [Next]_vars =>
        \A v \in DOMAIN version' : PlacesShared(version'[v].subTasks) =>
         \/ v \in DOMAIN version /\ PlacesShared(version[v].subTasks)
         \/ v \notin DOMAIN version /\ \E base \in DOMAIN version : PlacesShared(version[base].subTasks)
         \/ \E c \in Clients : /\ At(c, "writeOrder") /\ work[c].version = v
                               /\ ~IsInjective(work[c].list)
  <2> SUFFICES ASSUME DraftsInv, [Next]_vars, NEW v \in DOMAIN version'
               PROVE  \/ ~PlacesShared(version'[v].subTasks)
                      \/ v \in DOMAIN version /\ PlacesShared(version[v].subTasks)
                      \/ v \notin DOMAIN version /\ \E base \in DOMAIN version : PlacesShared(version[base].subTasks)
                      \/ \E c \in Clients : /\ At(c, "writeOrder") /\ work[c].version = v
                                            /\ ~IsInjective(work[c].list)
    BY Zenon
  <2> DEFINE old == version[v]
             list == version'[v].subTasks
  <2>1. CASE v \in DOMAIN version /\ Thinned(list, old.subTasks)
    BY <2>1 DEF Thinned, PlacesShared
  <2>2. CASE v \notin DOMAIN version /\ \E base \in DOMAIN version : list = version[base].subTasks
    BY <2>2, Zenon
  <2>3. ASSUME v \in DOMAIN version, NEW c \in Clients, work[c].version = v, InsertSubTask(c),
               ~PlacesShared(old.subTasks)
        PROVE  ~PlacesShared(list)
    <3>1. PICK id \in Nat \ DOMAIN old.subTasks :
             /\ DOMAIN list = DOMAIN old.subTasks \cup {id}
             /\ list[id].order \in Nat
             /\ \A k \in DOMAIN old.subTasks : list[k] = old.subTasks[k] /\ old.subTasks[k].order < list[id].order
      BY <2>3, InsertedIsLast
    <3>2. \A k \in DOMAIN old.subTasks : old.subTasks[k].order \in Nat
      BY <2>3, RowTypes, ListTypes
    <3>3. \A j, k \in DOMAIN old.subTasks : j # k => old.subTasks[j].order # old.subTasks[k].order
      BY <2>3 DEF PlacesShared
    <3> HIDE DEF list, old
    <3> QED BY <3>1, <3>2, <3>3 DEF PlacesShared
  <2>4. ASSUME v \in DOMAIN version, NEW c \in Clients, work[c].version = v, UpdateOrderIndices(c),
               IsInjective(work[c].list)
        PROVE  ~PlacesShared(list)
    <3>1. PICK n \in Nat : work[c].list \in [1 .. n -> Nat]
      BY <2>4 DEF UpdateOrderIndices, At, DraftsInv, WorkOK, NamesOK
    <3>2. /\ DOMAIN old.subTasks \subseteq Range(work[c].list)
          /\ list = [k \in DOMAIN old.subTasks |->
                        [old.subTasks[k] EXCEPT !.order = Numbered(work[c].list, k, old.subTasks[k].order)]]
      <4>1. DOMAIN old.subTasks \subseteq Range(work[c].list)
        BY <2>4 DEF UpdateOrderIndices, At, DraftsInv, WorkOK
      <4>2. version' = [version EXCEPT ![v].subTasks = [k \in DOMAIN old.subTasks |->
                [old.subTasks[k] EXCEPT !.order = Numbered(work[c].list, k, old.subTasks[k].order)]]]
        BY <2>4 DEF UpdateOrderIndices, Now
      <4>3. version \in Seq(Row) /\ old \in Row
        BY <2>4 DEF DraftsInv
      <4> QED BY <2>4, <4>1, <4>2, <4>3 DEF Row
    <3>3. ASSUME NEW k \in DOMAIN old.subTasks
          PROVE  list[k].order + 1 \in 1 .. n /\ work[c].list[list[k].order + 1] = k
      <4>1. old.subTasks[k] \in SubTaskRow /\ old.subTasks[k].order \in Nat
        BY <2>4, RowTypes, ListTypes
      <4>2. list[k].order = Numbered(work[c].list, k, old.subTasks[k].order)
        BY <3>2, <4>1 DEF SubTaskRow
      <4> QED BY <3>1, <3>2, <4>1, <4>2, NumberedIs
    <3>4. DOMAIN list = DOMAIN old.subTasks
      BY <3>2
    <3> HIDE DEF list, old
    <3> QED BY <3>3, <3>4 DEF PlacesShared
  <2>5. ASSUME NEW c \in Clients, UpdateOrderIndices(c) PROVE At(c, "writeOrder")
    BY <2>5 DEF UpdateOrderIndices
  <2> QED BY <2>1, <2>2, <2>3, <2>4, <2>5, ListMoves
<1> QED BY <1>1, DraftsInvAlways, PTL DEF Spec, PlacesStayDistinct

\* Nobody adds a subtask to an approved version or moves one of it
\* (usecase/sub_task.go Create, Reorder).
THEOREM ApprovedListStaysFrozen == Spec => ApprovedListFrozen
<1>1. DraftsInv /\ [Next]_vars =>
        \A v \in DOMAIN version : version[v].status = "approved" =>
          \A k \in DOMAIN version'[v].subTasks :
             /\ k \in DOMAIN version[v].subTasks
             /\ version'[v].subTasks[k].order = version[v].subTasks[k].order
  BY ApprovedList, VersionsStay DEF Thinned
<1> QED BY <1>1, DraftsInvAlways, PTL DEF Spec, ApprovedListFrozen

\* The subtasks that an episode refers to are not deleted or moved, although
\* deleting does not hold the version (gateway/sub_task.go Delete, whose foreign
\* key refuses).
THEOREM RecordedStay == Spec => RecordedSubTasksStay
<1>1. DraftsInv /\ [Next]_vars =>
        \A v \in DOMAIN version : \A k \in version[v].recorded :
          /\ k \in DOMAIN version'[v].subTasks
          /\ version'[v].subTasks[k].order = version[v].subTasks[k].order
  BY ApprovedList, VersionsStay, RowTypes DEF RowOK, Thinned
<1> QED BY <1>1, DraftsInvAlways, PTL DEF Spec, RecordedSubTasksStay

-----------------------------------------------------------------------------
(***************************************************************************)
(* Tasks and their tags. Whoever has locked the row of a task finds it,    *)
(* and its tags, as it has read them. And what an import has found absent  *)
(* is absent still when it writes, if imports are served one at a time.    *)
(***************************************************************************)

TagBags == UNION {[S -> Nat \ {0}] : S \in SUBSET Tags}

TaskRow == [there : BOOLEAN, name : Names, tags : TagBags, want : TagBags, imported : BOOLEAN]

HoldsRow(p) == job[p].step \in {"removeTags", "insertTags"}

\* What a request has read; one that has locked a task's row finds the task and
\* its tags as it has read them.
CatalogJob(j, tasks) ==
    /\ j.step \in {"none", "removeTags", "insertTags", "readTags", "insertTasks"}
    /\ j.step \in {"removeTags", "insertTags"} =>
          /\ j.task \in DOMAIN tasks /\ tasks[j.task].there
          /\ j.name \in Names /\ j.tags \in TagBags
    /\ j.step = "insertTags" => j.removed = tasks[j.task].tags
    /\ j.step = "readTags" => j.file \in Files
    /\ j.step = "insertTasks" => j.rows \in Seq(FileRow)

CatalogJobs ==
    /\ job = [p \in People |-> job[p]]
    /\ \A p \in People : CatalogJob(job[p], task)

OneHolder ==
    \A p, q \in People : HoldsRow(p) /\ HoldsRow(q) /\ job[p].task = job[q].task => p = q

CatalogInv ==
    /\ task \in Seq(TaskRow) /\ tag \subseteq Tags
    /\ CatalogJobs /\ OneHolder /\ TagsAsLastSet

-----------------------------------------------------------------------------
(* Bags of tags.                                                           *)

\* The tags of a task are a bag of tags.
LEMMA TagBag ==
    /\ \A tags \in SUBSET Tags : SetToBag(tags) \in TagBags
    /\ EmptyBag \in TagBags
    /\ \A b, c \in TagBags : b (+) c \in TagBags
<1>1. ASSUME NEW tags \in SUBSET Tags PROVE SetToBag(tags) \in TagBags
  <2>1. SetToBag(tags) \in [tags -> Nat \ {0}]
    BY DEF SetToBag
  <2> QED BY <2>1 DEF TagBags
<1>2. EmptyBag \in TagBags
  BY <1>1 DEF EmptyBag
<1>3. ASSUME NEW b \in TagBags, NEW c \in TagBags PROVE b (+) c \in TagBags
  <2>1. PICK S \in SUBSET Tags : b \in [S -> Nat \ {0}]
    BY DEF TagBags
  <2>2. PICK T \in SUBSET Tags : c \in [T -> Nat \ {0}]
    BY DEF TagBags
  <2>3. b (+) c \in [S \cup T -> Nat \ {0}]
    BY <2>1, <2>2 DEF (+)
  <2> QED BY <2>3 DEF TagBags
<1> QED BY <1>1, <1>2, <1>3

\* The bag without itself is empty; what is put into that is all there is.
LEMMA Replaced ==
    ASSUME NEW b \in TagBags, NEW c \in TagBags
    PROVE  (b (-) b) (+) c = c
<1>1. PICK S \in SUBSET Tags : b \in [S -> Nat \ {0}]
  BY DEF TagBags
<1>2. PICK T \in SUBSET Tags : c \in [T -> Nat \ {0}]
  BY DEF TagBags
<1>3. DOMAIN (b (-) b) = {}
  BY <1>1 DEF (-)
<1>4. (b (-) b) (+) c = [t \in T |-> c[t]]
  BY <1>2, <1>3 DEF (+)
<1> QED BY <1>2, <1>4

-----------------------------------------------------------------------------
(* The rows of a file that are valid.                                      *)

\* The rows before the last one.
LEMMA WithoutLast ==
    ASSUME NEW n \in Nat, NEW T \in SUBSET (1 .. n), T # {}
    PROVE  /\ Max(T) \in 1 .. n /\ T \ {Max(T)} \in SUBSET (1 .. n)
           /\ Cardinality(T) \in Nat /\ Cardinality(T \ {Max(T)}) \in Nat
           /\ Cardinality(T \ {Max(T)}) = Cardinality(T) - 1
<1>1. Max(T) \in T
  BY LastOf
<1>2. IsFiniteSet(1 .. n)
  BY FS_Interval
<1>3. IsFiniteSet(T) /\ IsFiniteSet(T \ {Max(T)})
  BY <1>2, FS_Subset
<1> QED BY <1>1, <1>3, FS_RemoveElement, FS_CardinalityType

\* A verdict on one row after those on the rows before it.
AddRow(rows, entry, taken, known) ==
    IF /\ Faultless(entry, known)
       /\ entry.name \notin taken
       /\ \A i \in DOMAIN rows : rows[i].name # entry.name
    THEN Append(rows, entry)
    ELSE rows

\* Rows of which an import can make tasks.
NewNames(rows, taken) ==
    /\ rows \in Seq(FileRow)
    /\ \A i \in DOMAIN rows : rows[i].name \notin taken
    /\ \A i, j \in DOMAIN rows : rows[i].name = rows[j].name => i = j

\* A further row of a file keeps the names new and distinct.
LEMMA RowAdded ==
    ASSUME NEW rows, NEW entry \in FileRow, NEW taken, NEW known, NewNames(rows, taken)
    PROVE  NewNames(AddRow(rows, entry, taken, known), taken)
<1> DEFINE new == AddRow(rows, entry, taken, known)
<1>1. CASE new = rows
  BY <1>1
<1>2. ASSUME new # rows PROVE NewNames(new, taken)
  <2>1. /\ new = Append(rows, entry) /\ entry.name \notin taken
        /\ \A i \in DOMAIN rows : rows[i].name # entry.name
    BY <1>2 DEF AddRow
  <2> HIDE DEF new
  <2>2. rows \in Seq(FileRow) /\ new \in Seq(FileRow) /\ Len(new) = Len(rows) + 1 /\ Len(rows) \in Nat
        /\ new[Len(new)] = entry /\ \A i \in 1 .. Len(rows) : new[i] = rows[i]
        /\ DOMAIN rows = 1 .. Len(rows) /\ DOMAIN new = 1 .. Len(new)
    BY <2>1, AppendProperties DEF NewNames
  <2>3. \A i \in DOMAIN new : i \in DOMAIN rows \/ i = Len(new)
    BY <2>2
  <2>4. \A i \in DOMAIN new : new[i].name \notin taken
    BY <2>1, <2>2, <2>3 DEF NewNames
  <2>5. ASSUME NEW i \in DOMAIN new, NEW j \in DOMAIN new, new[i].name = new[j].name
        PROVE  i = j
    <3>1. CASE i \in DOMAIN rows /\ j \in DOMAIN rows
      BY <2>2, <2>5, <3>1 DEF NewNames
    <3>2. CASE i = Len(new) /\ j \in DOMAIN rows
      BY <2>1, <2>2, <2>5, <3>2
    <3>3. CASE j = Len(new) /\ i \in DOMAIN rows
      BY <2>1, <2>2, <2>5, <3>3
    <3> QED BY <2>3, <3>1, <3>2, <3>3
  <2>6. NewNames(new, taken)
    BY <2>2, <2>4, <2>5 DEF NewNames
  <2> QED BY <2>6
<1> QED BY <1>1, <1>2

\* The fold is defined: g has the rows for every set of places in the file.
RowsUpto(g, n, file, taken, known) ==
    /\ g = [T \in SUBSET (1 .. Len(file)) |-> g[T]]
    /\ g[{}] = << >>
    /\ \A T \in SUBSET (1 .. Len(file)) : T # {} /\ Cardinality(T) <= n =>
          g[T] = AddRow(g[T \ {Max(T)}], file[Max(T)], taken, known)

\* There is such a function up to any row of a file.
LEMMA RowsExist ==
    ASSUME NEW file \in Seq(FileRow), NEW taken, NEW known, NEW n \in Nat
    PROVE  \E g : RowsUpto(g, n, file, taken, known)
<1> DEFINE L == Len(file)
           Bad == {m \in Nat : ~ \E g : RowsUpto(g, m, file, taken, known)}
<1>0. L \in Nat
  BY LenProperties
<1> SUFFICES ASSUME Bad # {} PROVE FALSE
  OBVIOUS
<1>1. PICK m \in Bad : \A k \in Bad : m <= k
  BY LeastNumber
<1>2. m # 0
  <2> DEFINE z == [T \in SUBSET (1 .. L) |-> << >>]
  <2>1. ASSUME NEW T \in SUBSET (1 .. L), T # {} PROVE ~(Cardinality(T) <= 0)
    <3>1. /\ Cardinality(T) \in Nat /\ Cardinality(T \ {Max(T)}) \in Nat
          /\ Cardinality(T \ {Max(T)}) = Cardinality(T) - 1
      BY <1>0, <2>1, WithoutLast
    <3> QED BY <3>1
  <2>2. RowsUpto(z, 0, file, taken, known)
    BY <2>1 DEF RowsUpto
  <2>3. \E g : RowsUpto(g, 0, file, taken, known)
    BY <2>2
  <2> QED BY <2>3
<1>3. m - 1 \in Nat /\ m - 1 \notin Bad
  <2> HIDE DEF Bad
  <2>1. m \in Nat
    BY DEF Bad
  <2> QED BY <1>1, <1>2, <2>1
<1>4. PICK g : RowsUpto(g, m - 1, file, taken, known)
  BY <1>3
<1> DEFINE h == [T \in SUBSET (1 .. L) |->
                    IF T = {} THEN << >> ELSE AddRow(g[T \ {Max(T)}], file[Max(T)], taken, known)]
<1>5. ASSUME NEW T \in SUBSET (1 .. L), T # {}, Cardinality(T) <= m
      PROVE  h[T] = AddRow(h[T \ {Max(T)}], file[Max(T)], taken, known)
  <2> DEFINE U == T \ {Max(T)}
  <2>1. U \in SUBSET (1 .. L) /\ (U # {} => Cardinality(U) <= m - 1)
    <3>1. /\ U \in SUBSET (1 .. L) /\ Cardinality(T) \in Nat /\ Cardinality(U) \in Nat
          /\ Cardinality(U) = Cardinality(T) - 1
      BY <1>0, <1>5, WithoutLast
    <3>2. m \in Nat
      OBVIOUS
    <3> HIDE DEF U
    <3> QED BY <1>5, <3>1, <3>2
  <2>2. h[U] = g[U]
    BY <1>4, <2>1 DEF RowsUpto
  <2> QED BY <1>5, <2>2
<1>6. RowsUpto(h, m, file, taken, known)
  BY <1>5 DEF RowsUpto
<1> QED BY <1>1, <1>6

\* Whatever the file, valid rows have names of their own that the table has not.
LEMMA ValidRowsAreNew ==
    ASSUME NEW file \in Seq(FileRow), NEW taken, NEW known
    PROVE  NewNames(ValidRows(file, taken, known), taken)
<1> DEFINE L == Len(file)
           Body(g) == [T \in SUBSET (DOMAIN file) |->
                          IF T = {} THEN << >>
                          ELSE AddRow(g[T \ {Max(T)}], file[Max(T)], taken, known)]
           iter == CHOOSE g : g = Body(g)
<1>1. L \in Nat /\ DOMAIN file = 1 .. L
  BY LenProperties
<1>2. \E g : g = Body(g)
  <2>1. PICK g : RowsUpto(g, L, file, taken, known)
    BY <1>1, RowsExist
  <2>2. \A T \in SUBSET (1 .. L) : Cardinality(T) <= L
    <3>1. IsFiniteSet(1 .. L) /\ Cardinality(1 .. L) = L
      BY <1>1, FS_Interval
    <3> QED BY <3>1, FS_Subset
  <2>3. g = Body(g)
    BY <1>1, <2>1, <2>2 DEF RowsUpto
  <2> QED BY <2>3
<1>3. iter = Body(iter)
  BY <1>2
<1>4. ValidRows(file, taken, known) = iter[DOMAIN file]
  BY DEF ValidRows, FoldLeft, MapThenFoldSet, AddRow
<1> HIDE DEF iter
<1>5. \A T \in SUBSET (1 .. L) :
         iter[T] = IF T = {} THEN << >> ELSE AddRow(iter[T \ {Max(T)}], file[Max(T)], taken, known)
  BY <1>1, <1>3
<1> DEFINE Bad == {n \in Nat : \E T \in SUBSET (1 .. L) : Cardinality(T) = n /\ ~NewNames(iter[T], taken)}
<1>6. Bad = {}
  <2> SUFFICES ASSUME Bad # {} PROVE FALSE
    OBVIOUS
  <2>1. PICK n \in Bad : \A m \in Bad : n <= m
    BY LeastNumber
  <2>2. PICK T \in SUBSET (1 .. L) : Cardinality(T) = n /\ ~NewNames(iter[T], taken)
    BY <2>1
  <2>3. T # {}
    <3>1. NewNames(<< >>, taken)
      BY DEF NewNames
    <3> QED BY <1>5, <2>2, <3>1
  <2> DEFINE U == T \ {Max(T)}
  <2>4. /\ U \in SUBSET (1 .. L) /\ Max(T) \in 1 .. L
        /\ Cardinality(T) \in Nat /\ Cardinality(U) \in Nat /\ Cardinality(U) = Cardinality(T) - 1
    BY <1>1, <2>3, WithoutLast
  <2>5. NewNames(iter[U], taken)
    <3> HIDE DEF U
    <3>1. Cardinality(U) \notin Bad
      <4> HIDE DEF Bad
      <4> QED BY <2>1, <2>2, <2>4
    <3> QED BY <2>4, <3>1
  <2>6. iter[T] = AddRow(iter[U], file[Max(T)], taken, known) /\ file[Max(T)] \in FileRow
    BY <1>1, <1>5, <2>3, <2>4, ElementOfSeq
  <2> QED BY <2>2, <2>5, <2>6, RowAdded
<1>7. Cardinality(1 .. L) \in Nat
  BY <1>1, FS_Interval
<1> QED BY <1>1, <1>4, <1>6, <1>7

-----------------------------------------------------------------------------
(* Tags.                                                                   *)

\* A step about one request leaves the others what they have read if it keeps
\* the rows that they hold.
LEMMA JobsFit ==
    ASSUME CatalogJobs, NEW p \in People, NEW j, Proceed(p, j), CatalogJob(j, task'),
           \A q \in People : q # p /\ HoldsRow(q) =>
               /\ job[q].task \in DOMAIN task'
               /\ task'[job[q].task] = task[job[q].task]
    PROVE  CatalogJobs'
<1>1. job' = [q \in People |-> IF q = p THEN j ELSE job[q]]
  BY DEF CatalogJobs, Proceed
<1>2. ASSUME NEW q \in People PROVE CatalogJob(job'[q], task')
  <2>1. CASE q = p
    BY <1>1, <2>1
  <2>2. CASE q # p
    <3>1. job'[q] = job[q] /\ CatalogJob(job[q], task)
      BY <1>1, <2>2 DEF CatalogJobs
    <3> QED BY <2>2, <3>1 DEF CatalogJob, HoldsRow
  <2> QED BY <2>1, <2>2
<1> QED BY <1>1, <1>2 DEF CatalogJobs

\* A request that answers, or goes on with the row it holds, adds no holder.
LEMMA HoldersStay ==
    ASSUME CatalogJobs, OneHolder, NEW p \in People, NEW j, Proceed(p, j),
           j.step \in {"removeTags", "insertTags"} =>
               \/ HoldsRow(p) /\ j.task = job[p].task
               \/ \A q \in People : HoldsRow(q) => job[q].task # j.task
    PROVE  OneHolder'
<1>1. job' = [q \in People |-> IF q = p THEN j ELSE job[q]]
  BY DEF CatalogJobs, Proceed
<1> QED BY <1>1 DEF OneHolder, HoldsRow

\* A row is changed in its place.
LEMMA RowChanged ==
    ASSUME task \in Seq(TaskRow), TagsAsLastSet, NEW i \in DOMAIN task, NEW r \in TaskRow,
           r.there => r.tags = r.want, task' = [task EXCEPT ![i] = r]
    PROVE  /\ task' \in Seq(TaskRow) /\ TagsAsLastSet'
           /\ DOMAIN task' = DOMAIN task /\ task'[i] = r
           /\ \A k \in DOMAIN task : k # i => task'[k] = task[k]
<1>1. /\ task' \in Seq(TaskRow) /\ DOMAIN task' = DOMAIN task /\ task'[i] = r
      /\ \A k \in DOMAIN task : k # i => task'[k] = task[k]
  BY ExceptSeq
<1> QED BY <1>1 DEF TagsAsLastSet

\* What a new task's row holds.
LEMMA NewTaskIs ==
    ASSUME NEW name \in Names, NEW tags \in TagBags, NEW imported \in BOOLEAN
    PROVE  /\ NewTask(name, tags, imported) \in TaskRow
           /\ NewTask(name, tags, imported).tags = NewTask(name, tags, imported).want
           /\ NewTask(name, tags, imported).imported = imported
           /\ NewTask(name, tags, imported).name = name
           /\ NewTask(name, tags, imported).there
BY DEF NewTask, TaskRow

\* What a request about no task leaves as it is.
LEMMA JobChanges ==
    ASSUME CatalogInv, NEW p \in People, NEW j, Proceed(p, j), CatalogJob(j, task),
           j.step \in {"removeTags", "insertTags"} =>
               \/ HoldsRow(p) /\ j.task = job[p].task
               \/ \A q \in People : HoldsRow(q) => job[q].task # j.task,
           UNCHANGED <<task, tag>>
    PROVE  CatalogInv'
<1>1. CatalogJobs'
  <2>1. CatalogJobs /\ CatalogJob(j, task')
    BY DEF CatalogInv
  <2>2. \A q \in People : HoldsRow(q) => job[q].task \in DOMAIN task
    BY DEF CatalogInv, CatalogJobs, CatalogJob, HoldsRow
  <2> QED BY <2>1, <2>2, JobsFit
<1>2. OneHolder'
  BY HoldersStay DEF CatalogInv
<1> QED BY <1>1, <1>2 DEF CatalogInv, TagsAsLastSet

\* What a request that has not begun, or has come to its end, does to one task.
LEMMA TaskChanges ==
    ASSUME CatalogInv, NEW p \in People, NEW j, Proceed(p, j), j.step = "none",
           NEW i \in DOMAIN task, NEW r \in TaskRow, r.there => r.tags = r.want,
           \A q \in People : q # p /\ HoldsRow(q) => job[q].task # i,
           task' = [task EXCEPT ![i] = r], tag' = tag
    PROVE  CatalogInv'
<1>1. /\ task' \in Seq(TaskRow) /\ TagsAsLastSet'
      /\ DOMAIN task' = DOMAIN task
      /\ \A k \in DOMAIN task : k # i => task'[k] = task[k]
  BY RowChanged DEF CatalogInv
<1>2. CatalogJobs'
  <2>1. CatalogJobs /\ CatalogJob(j, task')
    BY DEF CatalogInv, CatalogJob
  <2>2. \A q \in People : HoldsRow(q) => job[q].task \in DOMAIN task
    BY DEF CatalogInv, CatalogJobs, CatalogJob, HoldsRow
  <2> QED BY <1>1, <2>1, <2>2, JobsFit
<1>3. OneHolder'
  BY HoldersStay DEF CatalogInv
<1> QED BY <1>1, <1>2, <1>3 DEF CatalogInv

\* What a request adds tasks with.
LEMMA TasksCome ==
    ASSUME CatalogInv, NEW p \in People, NEW j, Proceed(p, j), j.step = "none",
           NEW new \in Seq(TaskRow), \A i \in DOMAIN new : new[i].tags = new[i].want,
           task' = task \o new, tag' = tag
    PROVE  CatalogInv'
<1> DEFINE L == Len(task)
<1>1. task \in Seq(TaskRow) /\ L \in Nat /\ Len(new) \in Nat /\ DOMAIN task = 1 .. L
      /\ DOMAIN new = 1 .. Len(new)
  BY LenProperties DEF CatalogInv
<1>2. /\ task' \in Seq(TaskRow) /\ DOMAIN task' = 1 .. (L + Len(new))
      /\ \A k \in 1 .. L : task'[k] = task[k]
      /\ \A k \in 1 .. Len(new) : task'[L + k] = new[k]
  BY <1>1, ConcatProperties
<1>3. TagsAsLastSet'
  <2> SUFFICES ASSUME NEW k \in 1 .. (L + Len(new)), task'[k].there
               PROVE  task'[k].tags = task'[k].want
    BY <1>2 DEF TagsAsLastSet
  <2>1. CASE k \in 1 .. L
    BY <1>1, <1>2, <2>1 DEF CatalogInv, TagsAsLastSet
  <2>2. CASE k \notin 1 .. L
    <3>1. k - L \in 1 .. Len(new) /\ k = L + (k - L)
      BY <1>1, <2>2
    <3>2. task'[k] = new[k - L]
      BY <1>2, <3>1
    <3> QED BY <1>1, <3>1, <3>2
  <2> QED BY <2>1, <2>2
<1>4. CatalogJobs'
  <2>1. CatalogJobs /\ CatalogJob(j, task')
    BY DEF CatalogInv, CatalogJob
  <2>2. \A q \in People : HoldsRow(q) => job[q].task \in 1 .. L
    BY <1>1 DEF CatalogInv, CatalogJobs, CatalogJob, HoldsRow
  <2>3. 1 .. L \subseteq DOMAIN task'
    BY <1>1, <1>2
  <2> QED BY <1>2, <2>1, <2>2, <2>3, JobsFit
<1>5. OneHolder'
  BY HoldersStay DEF CatalogInv
<1> QED BY <1>2, <1>3, <1>4, <1>5 DEF CatalogInv

\* What a change of a task without its tags makes of its row.
Renamed(r, name) == [r EXCEPT !.name = name, !.imported = @ /\ name = r.name]

Retagged(r, j) ==
    [Renamed(r, j.name) EXCEPT !.tags = (@ (-) j.removed) (+) j.tags, !.want = j.tags]

\* It leaves the tags; an imported task keeps its name, or is the import's no more.
LEMMA RenamedIs ==
    ASSUME NEW r \in TaskRow, NEW name \in Names
    PROVE  /\ Renamed(r, name) \in TaskRow
           /\ Renamed(r, name).there = r.there /\ Renamed(r, name).name = name
           /\ Renamed(r, name).tags = r.tags /\ Renamed(r, name).want = r.want
           /\ Renamed(r, name).imported => r.imported /\ name = r.name
BY DEF Renamed, TaskRow

\* The row has the tags of the request, and those it is meant to have.
LEMMA RetaggedIs ==
    ASSUME NEW r \in TaskRow, NEW j, j.name \in Names, j.tags \in TagBags, j.removed = r.tags
    PROVE  /\ Retagged(r, j) \in TaskRow
           /\ Retagged(r, j).tags = j.tags /\ Retagged(r, j).want = j.tags
           /\ Retagged(r, j).there = r.there /\ Retagged(r, j).name = j.name
           /\ Retagged(r, j).imported => r.imported /\ j.name = r.name
<1>1. r.tags \in TagBags
  BY DEF TaskRow
<1>2. (r.tags (-) j.removed) (+) j.tags = j.tags
  BY <1>1, Replaced
<1>3. Renamed(r, j.name) \in TaskRow /\ Renamed(r, j.name).tags = r.tags
  BY RenamedIs
<1>4. Retagged(r, j) = [Renamed(r, j.name) EXCEPT !.tags = j.tags, !.want = j.tags]
  BY <1>2, <1>3 DEF Retagged, TaskRow
<1> QED BY <1>3, <1>4, RenamedIs DEF TaskRow

\* Rows of a file become tasks that are there and imported.
LEMMA TasksOfRows ==
    ASSUME NEW rows \in Seq(FileRow), NEW new, new = [i \in DOMAIN rows |-> TaskOfRow(rows[i])]
    PROVE  /\ new \in Seq(TaskRow) /\ DOMAIN new = DOMAIN rows
           /\ \A i \in DOMAIN new : new[i].tags = new[i].want /\ new[i].name = rows[i].name
<1>1. DOMAIN rows = 1 .. Len(rows) /\ Len(rows) \in Nat
  BY LenProperties
<1>2. ASSUME NEW entry \in FileRow
      PROVE  /\ TaskOfRow(entry) \in TaskRow /\ TaskOfRow(entry).name = entry.name
             /\ TaskOfRow(entry).tags = TaskOfRow(entry).want
  <2>1. entry.name \in Names /\ entry.tags \in SUBSET Tags /\ entry.categories \in SUBSET Tags
    BY DEF FileRow
  <2>2. SetToBag(entry.tags) (+) SetToBag(entry.categories) \in TagBags
    BY <2>1, TagBag
  <2> QED BY <2>1, <2>2, NewTaskIs DEF TaskOfRow
<1>3. \A i \in 1 .. Len(rows) : rows[i] \in FileRow
  BY <1>1, ElementOfSeq
<1>4. new \in [1 .. Len(rows) -> TaskRow]
  BY <1>1, <1>2, <1>3
<1> QED BY <1>1, <1>2, <1>3, <1>4

-----------------------------------------------------------------------------

\* The catalog starts without tasks.
LEMMA CatalogInvInit == CatalogInit => CatalogInv
BY DEF CatalogInit, CatalogInv, CatalogJobs, CatalogJob, OneHolder, TagsAsLastSet, NoJob, HoldsRow

\* Every request keeps the invariant.
LEMMA CatalogInvNext == CatalogInv /\ [CatalogNext]_catalogVars => CatalogInv'
<1> SUFFICES ASSUME CatalogInv, [CatalogNext]_catalogVars PROVE CatalogInv'
  OBVIOUS
<1> USE DEF Answer
<1>0. NoJob.step = "none" /\ CatalogJob(NoJob, task)
  BY DEF NoJob, CatalogJob
<1>1. \A i \in DOMAIN task : task[i] \in TaskRow
  BY ElementOfSeq, LenProperties DEF CatalogInv
<1>2. \A p \in People : CatalogJob(job[p], task)
  BY DEF CatalogInv, CatalogJobs
<1>3. ASSUME NEW p \in People, Begins(p), UNCHANGED job PROVE Proceed(p, NoJob)
  BY <1>3 DEF Begins, Proceed, CatalogInv, CatalogJobs
<1>4. CASE UNCHANGED catalogVars
  BY <1>4 DEF catalogVars, CatalogInv, CatalogJobs, CatalogJob, OneHolder, HoldsRow, TagsAsLastSet
<1>5. ASSUME NEW p \in People, CreateTag(p) PROVE CatalogInv'
  BY <1>5 DEF CreateTag, CatalogInv, CatalogJobs, CatalogJob, OneHolder, HoldsRow, TagsAsLastSet
<1>6. ASSUME NEW p \in People, CreateTask(p) PROVE CatalogInv'
  <2>1. PICK name \in Names, tags \in SUBSET tag :
          task' = Append(task, NewTask(name, SetToBag(tags), FALSE))
    BY <1>6 DEF CreateTask
  <2> DEFINE r == NewTask(name, SetToBag(tags), FALSE)
  <2>2. r \in TaskRow /\ r.tags = r.want
    <3>1. SetToBag(tags) \in TagBags
      BY TagBag DEF CatalogInv
    <3> QED BY <3>1, NewTaskIs
  <2> HIDE DEF r
  <2>3. <<r>> \in Seq(TaskRow) /\ \A i \in DOMAIN <<r>> : <<r>>[i].tags = <<r>>[i].want
    BY <2>2
  <2>4. task' = task \o <<r>>
    BY <2>1, <2>2, AppendIsConcat DEF CatalogInv, r
  <2>5. Proceed(p, NoJob) /\ tag' = tag
    BY <1>3, <1>6 DEF CreateTask
  <2> QED BY <1>0, <2>3, <2>4, <2>5, TasksCome
<1>7. ASSUME NEW p \in People, RenameTask(p) PROVE CatalogInv'
  <2>1. PICK i \in DOMAIN task, name \in Names :
          /\ task[i].there /\ ~RowLocked(i)
          /\ task' = [task EXCEPT ![i].name = name, ![i].imported = @ /\ name = task[i].name]
    BY <1>7 DEF RenameTask
  <2>2. task' = [task EXCEPT ![i] = Renamed(task[i], name)]
    BY <2>1, <1>1 DEF Renamed, TaskRow
  <2>3. /\ Renamed(task[i], name) \in TaskRow
        /\ Renamed(task[i], name).there => Renamed(task[i], name).tags = Renamed(task[i], name).want
    BY <1>1, <2>1, RenamedIs DEF CatalogInv, TagsAsLastSet
  <2>4. \A q \in People : HoldsRow(q) => job[q].task # i
    BY <2>1 DEF RowLocked, HoldsRow
  <2>5. Proceed(p, NoJob) /\ tag' = tag
    BY <1>3, <1>7 DEF RenameTask
  <2> QED BY <1>0, <2>2, <2>3, <2>4, <2>5, TaskChanges
<1>8. ASSUME NEW p \in People, DeleteTask(p) PROVE CatalogInv'
  <2>1. PICK i \in DOMAIN task :
          /\ task[i].there /\ ~RowLocked(i)
          /\ task' = [task EXCEPT ![i] = [NewTask(@.name, EmptyBag, FALSE) EXCEPT !.there = FALSE]]
    BY <1>8 DEF DeleteTask
  <2> DEFINE r == [NewTask(task[i].name, EmptyBag, FALSE) EXCEPT !.there = FALSE]
  <2>2. r \in TaskRow /\ ~r.there
    <3>1. EmptyBag \in TagBags /\ task[i].name \in Names
      BY <1>1, TagBag DEF TaskRow
    <3>2. NewTask(task[i].name, EmptyBag, FALSE) \in TaskRow
      BY <3>1, NewTaskIs
    <3> QED BY <3>2 DEF TaskRow
  <2>3. task' = [task EXCEPT ![i] = r]
    BY <2>1
  <2>4. \A q \in People : HoldsRow(q) => job[q].task # i
    BY <2>1 DEF RowLocked, HoldsRow
  <2>5. Proceed(p, NoJob) /\ tag' = tag
    BY <1>3, <1>8 DEF DeleteTask
  <2> HIDE DEF r
  <2> QED BY <1>0, <2>2, <2>3, <2>4, <2>5, TaskChanges
<1>9. ASSUME NEW p \in People, UpdateTask(p) PROVE CatalogInv'
  <2>1. PICK i \in DOMAIN task, name \in Names, tags \in SUBSET tag :
          /\ task[i].there /\ ~RowLocked(i)
          /\ Proceed(p, [step |-> "removeTags", task |-> i, name |-> name, tags |-> SetToBag(tags)])
    BY <1>9 DEF UpdateTask
  <2> DEFINE j == [step |-> "removeTags", task |-> i, name |-> name, tags |-> SetToBag(tags)]
  <2>2. CatalogJob(j, task) /\ j.task = i
    <3>1. SetToBag(tags) \in TagBags
      BY TagBag DEF CatalogInv
    <3> QED BY <2>1, <3>1 DEF CatalogJob
  <2>3. \A q \in People : HoldsRow(q) => job[q].task # i
    BY <2>1 DEF RowLocked, HoldsRow
  <2>4. Proceed(p, j) /\ UNCHANGED <<task, tag>>
    BY <1>9, <2>1 DEF UpdateTask
  <2> HIDE DEF j
  <2> QED BY <2>2, <2>3, <2>4, JobChanges
<1>10. ASSUME NEW p \in People, RemoveTags(p) PROVE CatalogInv'
  <2> DEFINE j == [step |-> "insertTags", task |-> job[p].task, name |-> job[p].name,
                   tags |-> job[p].tags, removed |-> task[job[p].task].tags]
  <2>1. CatalogJob(j, task) /\ HoldsRow(p) /\ j.task = job[p].task
    BY <1>2, <1>10 DEF RemoveTags, CatalogJob, HoldsRow
  <2>2. Proceed(p, j) /\ UNCHANGED <<task, tag>>
    BY <1>10 DEF RemoveTags
  <2> HIDE DEF j
  <2> QED BY <2>1, <2>2, JobChanges
<1>11. ASSUME NEW p \in People, InsertTags(p) PROVE CatalogInv'
  <2> DEFINE i == job[p].task
             r == Retagged(task[i], job[p])
  <2>1. /\ HoldsRow(p) /\ i \in DOMAIN task /\ task[i] \in TaskRow /\ job[p].name \in Names
        /\ job[p].tags \in TagBags /\ job[p].removed = task[i].tags
    BY <1>1, <1>2, <1>11 DEF InsertTags, CatalogJob, HoldsRow
  <2>2. task' = [task EXCEPT ![i] = r]
    BY <1>11, <2>1 DEF InsertTags, Retagged, Renamed, TaskRow
  <2>3. r \in TaskRow /\ r.tags = r.want
    BY <2>1, RetaggedIs
  <2>4. \A q \in People : q # p /\ HoldsRow(q) => job[q].task # i
    BY <2>1 DEF CatalogInv, OneHolder
  <2>5. Proceed(p, NoJob) /\ tag' = tag
    BY <1>11 DEF InsertTags
  <2> HIDE DEF r, i
  <2> QED BY <1>0, <2>1, <2>2, <2>3, <2>4, <2>5, TaskChanges
<1>12. ASSUME NEW p \in People, ReadNames(p) PROVE CatalogInv'
  <2>1. PICK file \in Files :
          Proceed(p, [step |-> "readTags", file |-> file, taken |-> NamesTaken])
    BY <1>12 DEF ReadNames
  <2> DEFINE j == [step |-> "readTags", file |-> file, taken |-> NamesTaken]
  <2>2. CatalogJob(j, task) /\ j.step = "readTags"
    BY DEF CatalogJob
  <2>3. Proceed(p, j) /\ UNCHANGED <<task, tag>>
    BY <1>12, <2>1 DEF ReadNames
  <2> HIDE DEF j
  <2> QED BY <2>2, <2>3, JobChanges
<1>13. ASSUME NEW p \in People, ReadTags(p) PROVE CatalogInv'
  <2> DEFINE rows == ValidRows(job[p].file, job[p].taken, tag)
             j == [step |-> "insertTasks", rows |-> rows]
  <2>1. job[p].file \in Seq(FileRow)
    BY <1>2, <1>13, CatalogAssumption DEF ReadTags, CatalogJob
  <2>2. rows \in Seq(FileRow)
    BY <2>1, ValidRowsAreNew DEF NewNames
  <2>3. (Proceed(p, NoJob) \/ Proceed(p, j)) /\ UNCHANGED <<task, tag>>
    BY <1>13 DEF ReadTags
  <2> HIDE DEF rows
  <2>4. CatalogJob(j, task) /\ j.step = "insertTasks"
    BY <2>2 DEF CatalogJob
  <2> HIDE DEF j
  <2>5. CASE Proceed(p, j)
    BY <2>3, <2>4, <2>5, JobChanges
  <2>6. CASE Proceed(p, NoJob)
    BY <1>0, <2>3, <2>6, JobChanges
  <2> QED BY <2>3, <2>5, <2>6
<1>14. ASSUME NEW p \in People, InsertTasks(p) PROVE CatalogInv'
  <2> DEFINE new == [i \in DOMAIN job[p].rows |-> TaskOfRow(job[p].rows[i])]
  <2>1. job[p].rows \in Seq(FileRow)
    BY <1>2, <1>14 DEF InsertTasks, CatalogJob
  <2>2. new \in Seq(TaskRow) /\ \A i \in DOMAIN new : new[i].tags = new[i].want
    BY <2>1, TasksOfRows
  <2>3. Proceed(p, NoJob) /\ task' = task \o new /\ tag' = tag
    BY <1>14 DEF InsertTasks
  <2> HIDE DEF new
  <2> QED BY <1>0, <2>2, <2>3, TasksCome
<1>15. ASSUME NEW p \in People, ImportFails(p) PROVE CatalogInv'
  BY <1>0, <1>15, JobChanges DEF ImportFails
<1> QED BY <1>4, <1>5, <1>6, <1>7, <1>8, <1>9, <1>10, <1>11, <1>12, <1>13, <1>14, <1>15
        DEF CatalogNext

\* However the requests of many people mix, a task has exactly the tags of the
\* last one that named any (SetTaskTags of internal/gateway/task.go, in the
\* transaction that has updated the task's row).
THEOREM TagsAsLastSetAlways == CatalogSpec => []TagsAsLastSet
<1>1. CatalogInv => TagsAsLastSet
  BY DEF CatalogInv
<1> QED BY <1>1, CatalogInvInit, CatalogInvNext, PTL DEF CatalogSpec

-----------------------------------------------------------------------------
(* Names of imported tasks.                                                *)

FromFile(r) == r.there /\ r.imported

ImportedNames == {task[i].name : i \in {k \in DOMAIN task : FromFile(task[k])}}

OneImport == \A p, q \in People : Importing(p) /\ Importing(q) => p = q

\* Between the two reads and the insert, nobody else adds an imported name.
ImportsInv ==
    /\ OneImport
    /\ OneImportedTaskPerName
    /\ \A p \in People : job[p].step = "readTags" => ImportedNames \subseteq job[p].taken
    /\ \A p \in People : job[p].step = "insertTasks" => NewNames(job[p].rows, ImportedNames)

\* Imported tasks of the next state are the same ones, of the same names.
OnlyKept ==
    \A i \in DOMAIN task' : FromFile(task'[i]) =>
        /\ i \in DOMAIN task /\ FromFile(task[i])
        /\ task'[i].name = task[i].name

\* Requests of people other than the one that imports keep no name from a file
\* but those that are there.
LEMMA NamesKept ==
    ASSUME CatalogInv, NEW p \in People,
           \/ CreateTag(p) \/ CreateTask(p) \/ RenameTask(p) \/ DeleteTask(p)
           \/ UpdateTask(p) \/ RemoveTags(p) \/ InsertTags(p)
           \/ ReadNames(p) \/ ReadTags(p) \/ ImportFails(p)
    PROVE  OnlyKept
<1>1. \A i \in DOMAIN task : task[i] \in TaskRow
  BY ElementOfSeq, LenProperties DEF CatalogInv
<1>2. DOMAIN task = 1 .. Len(task) /\ Len(task) \in Nat
  BY LenProperties DEF CatalogInv
<1>3. CASE task' = task
  BY <1>3 DEF OnlyKept
<1>4. CASE CreateTask(p)
  <2>1. PICK name \in Names, tags \in SUBSET tag :
          task' = Append(task, NewTask(name, SetToBag(tags), FALSE))
    BY <1>4 DEF CreateTask
  <2> DEFINE r == NewTask(name, SetToBag(tags), FALSE)
  <2>2. SetToBag(tags) \in TagBags
    BY TagBag DEF CatalogInv
  <2>3. r \in TaskRow /\ ~r.imported
    BY <2>2, NewTaskIs
  <2> HIDE DEF r
  <2>4. /\ DOMAIN task' = 1 .. (Len(task) + 1) /\ task'[Len(task) + 1] = r
        /\ \A i \in 1 .. Len(task) : task'[i] = task[i]
    <3>1. task \in Seq(TaskRow) /\ task' = Append(task, r)
      BY <2>1 DEF CatalogInv, r
    <3>2. /\ Len(task') = Len(task) + 1 /\ task' \in Seq(TaskRow) /\ task'[Len(task) + 1] = r
          /\ \A i \in 1 .. Len(task) : task'[i] = task[i]
      BY <2>3, <3>1, AppendProperties
    <3> QED BY <3>2, LenProperties
  <2> QED BY <1>2, <2>3, <2>4 DEF OnlyKept, FromFile
<1>5. ASSUME NEW i \in DOMAIN task, NEW r \in TaskRow, task' = [task EXCEPT ![i] = r],
             FromFile(r) => FromFile(task[i]) /\ r.name = task[i].name
      PROVE  OnlyKept
  BY <1>5 DEF OnlyKept
<1>6. CASE RenameTask(p)
  <2>1. PICK i \in DOMAIN task, name \in Names :
          task' = [task EXCEPT ![i].name = name, ![i].imported = @ /\ name = task[i].name]
    BY <1>6 DEF RenameTask
  <2>2. task' = [task EXCEPT ![i] = Renamed(task[i], name)]
    BY <2>1, <1>1 DEF Renamed, TaskRow
  <2> DEFINE r == Renamed(task[i], name)
  <2>3. r \in TaskRow /\ (FromFile(r) => FromFile(task[i]) /\ r.name = task[i].name)
    BY <1>1, RenamedIs DEF FromFile
  <2>4. task' = [task EXCEPT ![i] = r]
    BY <2>2
  <2> HIDE DEF r
  <2> QED BY <1>5, <2>3, <2>4
<1>7. CASE DeleteTask(p)
  <2>1. PICK i \in DOMAIN task :
          task' = [task EXCEPT ![i] = [NewTask(@.name, EmptyBag, FALSE) EXCEPT !.there = FALSE]]
    BY <1>7 DEF DeleteTask
  <2> DEFINE r == [NewTask(task[i].name, EmptyBag, FALSE) EXCEPT !.there = FALSE]
  <2>2. r \in TaskRow /\ ~r.there
    <3>1. EmptyBag \in TagBags /\ task[i].name \in Names
      BY <1>1, TagBag DEF TaskRow
    <3>2. NewTask(task[i].name, EmptyBag, FALSE) \in TaskRow
      BY <3>1, NewTaskIs
    <3> QED BY <3>2 DEF TaskRow
  <2>3. task' = [task EXCEPT ![i] = r]
    BY <2>1
  <2> HIDE DEF r
  <2> QED BY <1>5, <2>2, <2>3 DEF FromFile
<1>8. CASE InsertTags(p)
  <2> DEFINE i == job[p].task
             r == Retagged(task[i], job[p])
  <2>1. /\ i \in DOMAIN task /\ task[i] \in TaskRow /\ job[p].name \in Names
        /\ job[p].tags \in TagBags /\ job[p].removed = task[i].tags
    BY <1>1, <1>8 DEF InsertTags, CatalogInv, CatalogJobs, CatalogJob
  <2>2. task' = [task EXCEPT ![i] = r]
    BY <1>8, <2>1 DEF InsertTags, Retagged, Renamed, TaskRow
  <2>3. r \in TaskRow /\ (FromFile(r) => FromFile(task[i]) /\ r.name = task[i].name)
    BY <2>1, RetaggedIs DEF FromFile
  <2> HIDE DEF r, i
  <2> QED BY <1>5, <2>1, <2>2, <2>3
<1> QED BY <1>3, <1>4, <1>6, <1>7, <1>8
        DEF CreateTag, UpdateTask, RemoveTags, ReadNames, ReadTags, ImportFails

\* What is kept are names that are there, one task each.
LEMMA KeptNames ==
    ASSUME OnlyKept
    PROVE  /\ ImportedNames' \subseteq ImportedNames
           /\ OneImportedTaskPerName => OneImportedTaskPerName'
BY DEF OnlyKept, ImportedNames, OneImportedTaskPerName, FromFile

\* Fewer names taken.
LEMMA FewerTaken ==
    ASSUME NEW rows, NEW taken, NEW fewer, fewer \subseteq taken, NewNames(rows, taken)
    PROVE  NewNames(rows, fewer)
BY DEF NewNames

\* A step that keeps names keeps the invariant, if the request it moves
\* fits in.
LEMMA ImportsFit ==
    ASSUME CatalogInv, ImportsInv, OnlyKept, NEW p \in People, NEW j, Proceed(p, j),
           j.step \in {"readTags", "insertTasks"} => \A q \in People : q # p => ~Importing(q),
           j.step = "readTags" => ImportedNames' \subseteq j.taken,
           j.step = "insertTasks" => NewNames(j.rows, ImportedNames')
    PROVE  ImportsInv'
<1>1. job' = [q \in People |-> IF q = p THEN j ELSE job[q]]
  BY DEF CatalogInv, CatalogJobs, Proceed
<1>2. OneImport'
  BY <1>1 DEF OneImport, ImportsInv, Importing
<1>3. OneImportedTaskPerName' /\ ImportedNames' \subseteq ImportedNames
  BY KeptNames DEF ImportsInv
<1>4. ASSUME NEW q \in People, job'[q].step = "readTags" PROVE ImportedNames' \subseteq job'[q].taken
  BY <1>1, <1>3, <1>4 DEF ImportsInv
<1>5. ASSUME NEW q \in People, job'[q].step = "insertTasks"
      PROVE  NewNames(job'[q].rows, ImportedNames')
  <2>1. CASE q = p
    BY <1>1, <1>5, <2>1
  <2>2. CASE q # p
    <3>1. NewNames(job'[q].rows, ImportedNames)
      BY <1>1, <1>5, <2>2 DEF ImportsInv
    <3> QED BY <1>3, <3>1, FewerTaken
  <2> QED BY <2>1, <2>2
<1> QED BY <1>2, <1>3, <1>4, <1>5 DEF ImportsInv

\* What an import has found absent is absent when it writes: the imports are served
\* one at a time, and only they make imported tasks.
LEMMA ImportsInvNext ==
    ASSUME Serial, CatalogInv, ImportsInv, [CatalogNext]_catalogVars
    PROVE  ImportsInv'
<1> USE DEF Answer
<1>0. NoJob.step = "none"
  BY DEF NoJob
<1>1. CASE UNCHANGED catalogVars
  BY <1>1 DEF catalogVars, ImportsInv, OneImport, Importing, OneImportedTaskPerName, ImportedNames
<1>2. ASSUME NEW p \in People,
             \/ CreateTag(p) \/ CreateTask(p) \/ RenameTask(p) \/ DeleteTask(p)
             \/ UpdateTask(p) \/ RemoveTags(p) \/ InsertTags(p) \/ ImportFails(p)
      PROVE  ImportsInv'
  <2>1. OnlyKept
    BY <1>2, NamesKept
  <2>2. \E j : Proceed(p, j) /\ j.step \notin {"readTags", "insertTasks"}
    <3>1. CASE UNCHANGED job /\ Begins(p)
      <4>1. Proceed(p, NoJob)
        BY <3>1 DEF Begins, Proceed, CatalogInv, CatalogJobs
      <4> QED BY <1>0, <4>1
    <3>2. CASE Answer(p)
      BY <1>0, <3>2
    <3>3. CASE UpdateTask(p)
      <4>1. PICK i \in DOMAIN task, name \in Names, tags \in SUBSET tag :
              Proceed(p, [step |-> "removeTags", task |-> i, name |-> name, tags |-> SetToBag(tags)])
        BY <3>3 DEF UpdateTask
      <4> QED BY <4>1
    <3>4. CASE RemoveTags(p)
      BY <3>4 DEF RemoveTags
    <3> QED BY <1>2, <3>1, <3>2, <3>3, <3>4
            DEF CreateTag, CreateTask, RenameTask, DeleteTask, InsertTags, ImportFails
  <2>3. PICK j : Proceed(p, j) /\ j.step \notin {"readTags", "insertTasks"}
    BY <2>2
  <2> QED BY <2>1, <2>3, ImportsFit
<1>3. ASSUME NEW p \in People, ReadNames(p) PROVE ImportsInv'
  <2>1. PICK file \in Files :
          Proceed(p, [step |-> "readTags", file |-> file, taken |-> NamesTaken])
    BY <1>3 DEF ReadNames
  <2> DEFINE j == [step |-> "readTags", file |-> file, taken |-> NamesTaken]
  <2>2. OnlyKept /\ Proceed(p, j)
    BY <1>3, <2>1, NamesKept
  <2>3. ImportedNames' \subseteq NamesTaken
    BY <2>2, KeptNames DEF ImportedNames, NamesTaken, FromFile
  <2>4. \A q \in People : ~Importing(q)
    BY <1>3 DEF ReadNames
  <2>5. j.step = "readTags" /\ j.taken = NamesTaken
    OBVIOUS
  <2> HIDE DEF j
  <2> QED BY <2>2, <2>3, <2>4, <2>5, ImportsFit
<1>4. ASSUME NEW p \in People, ReadTags(p) PROVE ImportsInv'
  <2> DEFINE rows == ValidRows(job[p].file, job[p].taken, tag)
             j == [step |-> "insertTasks", rows |-> rows]
  <2>1. OnlyKept
    BY <1>4, NamesKept
  <2>2. Proceed(p, NoJob) \/ Proceed(p, j)
    BY <1>4 DEF ReadTags
  <2>3. NewNames(rows, ImportedNames')
    <3>1. job[p].file \in Seq(FileRow)
      BY <1>4, CatalogAssumption DEF ReadTags, CatalogInv, CatalogJobs, CatalogJob
    <3>2. NewNames(rows, job[p].taken)
      BY <3>1, ValidRowsAreNew
    <3>3. ImportedNames' \subseteq job[p].taken
      BY <1>4, <2>1, KeptNames DEF ReadTags, ImportsInv
    <3> QED BY <3>2, <3>3, FewerTaken
  <2>4. \A q \in People : q # p => ~Importing(q)
    BY <1>4 DEF ReadTags, ImportsInv, OneImport, Importing
  <2>5. j.step = "insertTasks" /\ j.rows = rows
    OBVIOUS
  <2> HIDE DEF rows, j
  <2>6. CASE Proceed(p, j)
    BY <2>1, <2>3, <2>4, <2>5, <2>6, ImportsFit
  <2>7. CASE Proceed(p, NoJob)
    BY <1>0, <2>1, <2>7, ImportsFit
  <2> QED BY <2>2, <2>6, <2>7
<1>5. ASSUME NEW p \in People, InsertTasks(p) PROVE ImportsInv'
  <2> DEFINE rows == job[p].rows
             new == [i \in DOMAIN rows |-> TaskOfRow(rows[i])]
             L == Len(task)
             M == Len(new)
  <2>1. rows \in Seq(FileRow) /\ NewNames(rows, ImportedNames) /\ Importing(p)
    BY <1>5 DEF InsertTasks, CatalogInv, CatalogJobs, CatalogJob, ImportsInv, Importing
  <2>2. /\ new \in Seq(TaskRow) /\ DOMAIN new = DOMAIN rows
        /\ \A i \in DOMAIN new : new[i].name = rows[i].name
    BY <2>1, TasksOfRows
  <2>3. /\ \A i \in DOMAIN new : new[i].name \notin ImportedNames
        /\ \A i, k \in DOMAIN new : new[i].name = new[k].name => i = k
    BY <2>1, <2>2 DEF NewNames
  <2>4. Proceed(p, NoJob) /\ task' = task \o new
    BY <1>5 DEF InsertTasks
  <2> HIDE DEF rows, new
  <2>5. /\ task \in Seq(TaskRow) /\ L \in Nat /\ M \in Nat
        /\ DOMAIN task = 1 .. L /\ DOMAIN new = 1 .. M
    BY <2>2, LenProperties DEF CatalogInv
  <2>6. /\ DOMAIN task' = 1 .. (L + M)
        /\ \A k \in 1 .. L : task'[k] = task[k]
        /\ \A k \in 1 .. M : task'[L + k] = new[k]
    BY <2>2, <2>4, <2>5, ConcatProperties
  <2> HIDE DEF L, M
  <2>7. \A k \in 1 .. (L + M) : k \notin 1 .. L => k - L \in 1 .. M /\ task'[k] = new[k - L]
    <3> SUFFICES ASSUME NEW k \in 1 .. (L + M), k \notin 1 .. L
                 PROVE  k - L \in 1 .. M /\ task'[k] = new[k - L]
      OBVIOUS
    <3>1. k - L \in 1 .. M /\ k = L + (k - L)
      BY <2>5
    <3> QED BY <2>6, <3>1
  <2>8. OneImportedTaskPerName'
    <3> SUFFICES ASSUME NEW i \in 1 .. (L + M), NEW k \in 1 .. (L + M),
                        FromFile(task'[i]), FromFile(task'[k]), task'[i].name = task'[k].name
                 PROVE  i = k
      BY <2>6 DEF OneImportedTaskPerName, FromFile
    <3>1. CASE i \in 1 .. L /\ k \in 1 .. L
      BY <2>5, <2>6, <3>1 DEF ImportsInv, OneImportedTaskPerName, FromFile
    <3>2. CASE i \notin 1 .. L /\ k \notin 1 .. L
      <4>1. i - L = k - L
        BY <2>3, <2>5, <2>7, <3>2
      <4> QED BY <2>5, <4>1
    <3>3. CASE i \in 1 .. L /\ k \notin 1 .. L
      <4>1. task[i].name \in ImportedNames
        BY <2>5, <2>6, <3>3 DEF ImportedNames
      <4>2. task'[k].name \notin ImportedNames
        BY <2>3, <2>5, <2>7, <3>3
      <4> QED BY <2>6, <3>3, <4>1, <4>2
    <3>4. CASE k \in 1 .. L /\ i \notin 1 .. L
      <4>1. task[k].name \in ImportedNames
        BY <2>5, <2>6, <3>4 DEF ImportedNames
      <4>2. task'[i].name \notin ImportedNames
        BY <2>3, <2>5, <2>7, <3>4
      <4> QED BY <2>6, <3>4, <4>1, <4>2
    <3> QED BY <3>1, <3>2, <3>3, <3>4
  <2>9. job' = [q \in People |-> IF q = p THEN NoJob ELSE job[q]]
    BY <2>4 DEF CatalogInv, CatalogJobs, Proceed
  <2>10. \A q \in People : job'[q].step \notin {"readTags", "insertTasks"}
    BY <1>0, <2>1, <2>9 DEF ImportsInv, OneImport, Importing
  <2> QED BY <2>8, <2>10 DEF ImportsInv, OneImport, Importing
<1> QED BY <1>1, <1>2, <1>3, <1>4, <1>5 DEF CatalogNext

\* Where people import one at a time, whatever they do to tasks between the reads
\* of an import and its insert: one imported task of a name, repeat the import as
\* you like (filterValidRows and Import of internal/usecase/task_import.go).
THEOREM OneImportedTaskPerNameAlways ==
    Serial => (CatalogSpec => []OneImportedTaskPerName)
<1> SUFFICES ASSUME Serial PROVE CatalogSpec => []OneImportedTaskPerName
  OBVIOUS
<1>1. CatalogInit => ImportsInv
  BY DEF CatalogInit, ImportsInv, OneImport, OneImportedTaskPerName, Importing, NoJob
<1>2. CatalogInv /\ ImportsInv /\ [CatalogNext]_catalogVars => CatalogInv' /\ ImportsInv'
  BY CatalogInvNext, ImportsInvNext
<1>3. ImportsInv => OneImportedTaskPerName
  BY DEF ImportsInv
<1> QED BY <1>1, <1>2, <1>3, CatalogInvInit, PTL DEF CatalogSpec

-----------------------------------------------------------------------------
(***************************************************************************)
(* API keys: the three properties rest on one invariant, that the map      *)
(* lastUsedFlush holds the time of the latest write, done or to be done.   *)
(***************************************************************************)

Time == Nat \cup {None}
KeyRow == [state : {"new", "stored", "deleted"}, expires : Time, revoked : Time, lastUsed : Time]
Touch == [key : Keys, at : Nat, by : Nat]

KeysTypeOK ==
    /\ now \in Nat
    /\ key \in [Keys -> KeyRow]
    /\ flushed \in [Keys -> Time]
    /\ used \in [Keys -> Time]
    /\ touches \subseteq Touch
    /\ lost \subseteq Keys
    /\ edit \in [Admins -> {Unheard} \cup [step : {"write"}, key : Keys, row : KeyRow]]
    /\ call \in [Calls -> {Unheard} \cup [step : {"served"}, key : Keys]
                            \cup [step : {"marking"}, key : Keys, at : Nat]]

-----------------------------------------------------------------------------
(* The invariant.                                                          *)

\* Whoever is being served has a key that was created, and a key that was not has
\* never been used.
KeysOfUsesExist ==
    /\ \A c \in Calls : call[c].step # "none" => key[call[c].key].state # "new"
    /\ \A k \in Keys : key[k].state = "new" => used[k] = None

\* MarkUsed has the mutex within Delay, and a goroutine ends in its time.
InTime ==
    /\ \A c \in Calls : call[c].step = "marking" =>
          call[c].at <= now /\ now <= call[c].at + Delay
    /\ \A t \in touches : now <= t.by /\ t.by <= t.at + (Delay + Timeout)

\* A write still to come is the one that the map has: so there is one at most.
PendingIsFlushed == \A t \in touches : flushed[t.key] = t.at

\* No use is Interval later than the latest write that was decided.
UsesWithinInterval ==
    \A k \in Keys :
        /\ used[k] # None => used[k] <= now
        /\ flushed[k] # None =>
              used[k] # None /\ flushed[k] <= used[k] /\ used[k] < flushed[k] + Interval

\* What was written is no later than the latest decision, than the clock, and,
\* after a restart, than any request that will decide again.
WrittenIsOlder ==
    \A k \in Keys : key[k].lastUsed # None =>
        /\ key[k].lastUsed <= now
        /\ flushed[k] # None => key[k].lastUsed <= flushed[k]
        /\ flushed[k] = None => \A c \in Calls :
              (call[c].step = "marking" /\ call[c].key = k) => key[k].lastUsed <= call[c].at

\* With no write to come and none lost, the row has the latest decision.
WrittenIsFlushed ==
    \A k \in Keys :
        (Stored(k) /\ used[k] # None /\ k \notin lost /\ \A t \in touches : t.key # k) =>
            /\ key[k].lastUsed # None
            /\ used[k] < key[k].lastUsed + Interval
            /\ flushed[k] \in {None, key[k].lastUsed}

KeysInv ==
    /\ KeysTypeOK /\ KeysOfUsesExist /\ InTime /\ PendingIsFlushed
    /\ UsesWithinInterval /\ WrittenIsOlder /\ WrittenIsFlushed

-----------------------------------------------------------------------------
(* The types.                                                              *)

\* The steps that a request is at.
LEMMA StepsOfRequests ==
    ASSUME KeysTypeOK
    PROVE  /\ \A c \in Calls : call[c].step = "none" => call[c] = Unheard
           /\ \A c \in Calls : call[c].step # "none" => call[c].key \in Keys
           /\ \A c \in Calls : call[c].step = "marking" => call[c].at \in Nat
           /\ \A a \in Admins : edit[a].step = "write" => edit[a].key \in Keys /\ edit[a].row \in KeyRow
  BY DEF KeysTypeOK, Unheard

\* Every step keeps the types.
LEMMA KeysTyped ==
    ASSUME KeysTypeOK, [KeysNext]_keyVars
    PROVE  KeysTypeOK'
<1> USE ApiKeysAssumption DEF KeysTypeOK
<1>1. CASE UNCHANGED keyVars
  BY <1>1 DEF keyVars
<1>2. ASSUME NEW k \in Keys, CreateKey(k) PROVE KeysTypeOK'
  <2>1. PICK e \in {None} \cup Expiries :
          key' = [key EXCEPT ![k] = [NoRow EXCEPT !.state = "stored", !.expires = e]]
    BY <1>2 DEF CreateKey
  <2>2. [NoRow EXCEPT !.state = "stored", !.expires = e] \in KeyRow
    BY DEF NoRow, KeyRow, Time
  <2> QED BY <1>2, <2>1, <2>2 DEF CreateKey
<1>3. ASSUME NEW k \in Keys, Revoke(k) \/ DeleteOwner(k) PROVE KeysTypeOK'
  <2>1. key' \in [Keys -> KeyRow]
    BY <1>3 DEF Revoke, DeleteOwner, KeyRow, Time
  <2> QED BY <1>3, <2>1 DEF Revoke, DeleteOwner
<1>4. ASSUME NEW a \in Admins, ReadKey(a) PROVE KeysTypeOK'
  <2>1. PICK k \in Keys, e \in Time :
          edit' = [edit EXCEPT ![a] = [step |-> "write", key |-> k,
                                       row |-> [key[k] EXCEPT !.expires = e]]]
    BY <1>4 DEF ReadKey, KeyRow, Time
  <2>2. [key[k] EXCEPT !.expires = e] \in KeyRow
    BY DEF KeyRow, Time
  <2> QED BY <1>4, <2>1, <2>2 DEF ReadKey
<1>5. ASSUME NEW a \in Admins, WriteKey(a) PROVE KeysTypeOK'
  <2>1. edit[a].key \in Keys /\ edit[a].row \in KeyRow
    BY <1>5, StepsOfRequests DEF WriteKey
  <2>2. key' \in [Keys -> KeyRow]
    BY <1>5, <2>1 DEF WriteKey, KeyRow
  <2> QED BY <1>5, <2>2 DEF WriteKey
<1>6. ASSUME NEW c \in Calls, Authenticate(c) PROVE KeysTypeOK'
  BY <1>6 DEF Authenticate
<1>7. ASSUME NEW c \in Calls, MarkUsed(c) PROVE KeysTypeOK'
  <2>1. call[c].key \in Keys
    BY <1>7, StepsOfRequests DEF MarkUsed
  <2> QED BY <1>7, <2>1 DEF MarkUsed
<1>8. ASSUME NEW c \in Calls, Debounce(c) PROVE KeysTypeOK'
  <2>1. call[c].key \in Keys /\ call[c].at \in Nat
    BY <1>8, StepsOfRequests DEF Debounce
  <2>2. flushed' \in [Keys -> Time] /\ used' \in [Keys -> Time]
    BY <1>8, <2>1 DEF Debounce, Time
  <2>3. touches' \subseteq Touch
    BY <1>8, <2>1 DEF Debounce, Touch
  <2>4. call' = [call EXCEPT ![c] = Unheard]
    BY <1>8 DEF Debounce
  <2> QED BY <1>8, <2>2, <2>3, <2>4 DEF Debounce
<1>9. ASSUME NEW t \in touches, TouchLastUsedAt(t) PROVE KeysTypeOK'
  <2>1. t.key \in Keys /\ t.at \in Nat
    BY DEF Touch
  <2>2. key' \in [Keys -> KeyRow]
    BY <1>9, <2>1 DEF TouchLastUsedAt, KeyRow, Time
  <2> QED BY <1>9, <2>2 DEF TouchLastUsedAt
<1>10. ASSUME NEW t \in touches, TouchFails(t) PROVE KeysTypeOK'
  BY <1>10 DEF TouchFails, Touch
<1>11. CASE RestartServer
  BY <1>11 DEF RestartServer, Touch, Time
<1>12. CASE Tick
  BY <1>12 DEF Tick
<1> QED
  BY <1>1, <1>2, <1>3, <1>4, <1>5, <1>6, <1>7, <1>8, <1>9, <1>10, <1>11, <1>12 DEF KeysNext

-----------------------------------------------------------------------------
(* The steps.                                                              *)

ConsoleStep ==
    \/ \E l \in Keys : CreateKey(l) \/ Revoke(l) \/ DeleteOwner(l)
    \/ \E a \in Admins : ReadKey(a) \/ WriteKey(a)

\* What the console does to a row: neither the time of last use nor the time it
\* was revoked at is changed once it is there, and no row becomes new.
LEMMA ConsoleSteps ==
    ASSUME KeysInv, ConsoleStep
    PROVE  /\ UNCHANGED <<now, flushed, touches, call, used, lost>>
           /\ \A k \in Keys :
                /\ key'[k].lastUsed = key[k].lastUsed
                /\ key[k].revoked # None => key'[k].revoked = key[k].revoked
                /\ key'[k].state = "new" => key[k].state = "new"
                /\ key'[k].state = "stored" => key[k].state \in {"stored", "new"}
<1> USE DEF KeysInv, KeysTypeOK
<1>1. ASSUME NEW l \in Keys, CreateKey(l) PROVE key[l] = NoRow /\ key'[l].lastUsed = None
                    /\ key'[l].state = "stored" /\ \A m \in Keys \ {l} : key'[m] = key[m]
  <2>1. PICK e : key' = [key EXCEPT ![l] = [NoRow EXCEPT !.state = "stored", !.expires = e]]
    BY <1>1 DEF CreateKey
  <2> QED BY <1>1, <2>1 DEF CreateKey, NoRow
<1>2. CASE \E l \in Keys : CreateKey(l)
  <2>1. PICK l \in Keys : CreateKey(l)
    BY <1>2
  <2>2. /\ key[l].state = "new" /\ key[l].lastUsed = None /\ key[l].revoked = None
        /\ key'[l].state = "stored" /\ key'[l].lastUsed = None
        /\ \A m \in Keys \ {l} : key'[m] = key[m]
    BY <1>1, <2>1 DEF NoRow
  <2> QED BY <2>1, <2>2 DEF CreateKey
<1>3. CASE \E l \in Keys : Revoke(l) \/ DeleteOwner(l)
  BY <1>3 DEF Revoke, DeleteOwner, KeyRow, Stored
<1>4. CASE \E a \in Admins : ReadKey(a)
  BY <1>4 DEF ReadKey, KeyRow
<1>5. CASE \E a \in Admins : WriteKey(a)
  <2>1. PICK a \in Admins : WriteKey(a)
    BY <1>5
  <2>2. edit[a].key \in Keys
    BY <2>1, StepsOfRequests DEF WriteKey
  <2> QED BY <2>1, <2>2 DEF WriteKey, KeyRow
<1> QED BY <1>2, <1>3, <1>4, <1>5 DEF ConsoleStep

\* The edits of admins.
LEMMA ConsoleKeepsInv ==
    ASSUME KeysInv, KeysTypeOK', ConsoleStep
    PROVE  KeysInv'
<1> USE ConsoleSteps DEF KeysInv
<1>1. KeysOfUsesExist'
  BY StepsOfRequests DEF KeysOfUsesExist
<1>2. InTime' /\ PendingIsFlushed' /\ UsesWithinInterval'
  BY DEF InTime, PendingIsFlushed, UsesWithinInterval
<1>3. WrittenIsOlder'
  BY DEF WrittenIsOlder
<1>4. WrittenIsFlushed'
  BY DEF WrittenIsFlushed, KeysOfUsesExist, Stored
<1> QED BY <1>1, <1>2, <1>3, <1>4

\* A request is let in, and reads the clock: no earlier than anything written.
LEMMA AdmissionKeepsInv ==
    ASSUME KeysInv, KeysTypeOK', NEW c \in Calls, Authenticate(c) \/ MarkUsed(c)
    PROVE  KeysInv'
<1> USE StepsOfRequests DEF KeysInv, KeysTypeOK
<1>1. UNCHANGED <<now, key, flushed, touches, used, lost>> /\ \A d \in Calls \ {c} : call'[d] = call[d]
  BY DEF Authenticate, MarkUsed
<1>2. /\ call'[c].step # "none" => call'[c].key \in Keys /\ key[call'[c].key].state # "new"
      /\ call'[c].step = "marking" => call'[c].at = now
  BY DEF Authenticate, MarkUsed, KeysOfUsesExist, Stored
<1>3. KeysOfUsesExist'
  BY <1>1, <1>2 DEF KeysOfUsesExist
<1>4. InTime'
  BY <1>1, <1>2, ApiKeysAssumption DEF InTime
<1>5. PendingIsFlushed' /\ UsesWithinInterval'
  BY <1>1 DEF PendingIsFlushed, UsesWithinInterval
<1>6. WrittenIsOlder'
  BY <1>1, <1>2 DEF WrittenIsOlder
<1>7. WrittenIsFlushed'
  BY <1>1 DEF WrittenIsFlushed, Stored
<1> QED BY <1>3, <1>4, <1>5, <1>6, <1>7

\* Under the mutex.  A use that starts a write finds the one before it done: the
\* goroutine has ended before a request of Interval later can have the mutex.
LEMMA DebounceKeepsInv ==
    ASSUME KeysInv, KeysTypeOK', NEW c \in Calls, Debounce(c)
    PROVE  KeysInv'
<1> USE StepsOfRequests, ApiKeysAssumption DEF KeysInv
<1> DEFINE k == call[c].key
           at == call[c].at
<1>1. k \in Keys /\ at \in Nat /\ key[k].state # "new" /\ at <= now /\ now <= at + Delay
  BY DEF Debounce, KeysOfUsesExist, InTime
<1>2. /\ UNCHANGED <<now, key, lost>>
      /\ call' = [call EXCEPT ![c] = Unheard]
      /\ used' = [used EXCEPT ![k] = IF @ = None \/ @ < at THEN at ELSE @]
  BY DEF Debounce
<1>3. used \in [Keys -> Time] /\ flushed \in [Keys -> Time] /\ key \in [Keys -> KeyRow]
      /\ now \in Nat /\ touches \subseteq Touch
  BY DEF KeysTypeOK
<1>4. used'[k] \in Nat /\ used'[k] <= now /\ at <= used'[k]
      /\ used'[k] = (IF used[k] = None \/ used[k] < at THEN at ELSE used[k])
      /\ \A m \in Keys \ {k} : used'[m] = used[m]
  BY <1>1, <1>2, <1>3 DEF UsesWithinInterval, Time
<1>5. \A d \in Calls : call'[d].step # "none" => call'[d] = call[d]
  BY <1>2 DEF Unheard, KeysTypeOK
<1>6. KeysOfUsesExist'
  BY <1>1, <1>2, <1>4, <1>5 DEF KeysOfUsesExist
<1>7. CASE JustFlushed(k, at)
  <2>1. UNCHANGED <<flushed, touches>> /\ flushed[k] \in Nat /\ at < flushed[k] + Interval
    BY <1>1, <1>3, <1>7 DEF Debounce, JustFlushed, Time
  <2>2. InTime' /\ PendingIsFlushed'
    BY <1>2, <1>5, <2>1 DEF InTime, PendingIsFlushed
  <2>3. UsesWithinInterval'
    BY <1>1, <1>2, <1>3, <1>4, <2>1 DEF UsesWithinInterval, Time
  <2>4. WrittenIsOlder'
    BY <1>2, <1>5, <2>1 DEF WrittenIsOlder
  <2>5. WrittenIsFlushed'
    BY <1>1, <1>2, <1>3, <1>4, <2>1 DEF WrittenIsFlushed, UsesWithinInterval, Stored, Time
  <2> QED BY <1>6, <2>2, <2>3, <2>4, <2>5
<1>8. CASE ~JustFlushed(k, at)
  <2>1. /\ flushed' = [flushed EXCEPT ![k] = at]
        /\ touches' = touches \cup {[key |-> k, at |-> at, by |-> now + Timeout]}
    BY <1>8 DEF Debounce
  <2>2. flushed[k] = None \/ (flushed[k] \in Nat /\ flushed[k] + Interval <= at)
    BY <1>1, <1>3, <1>8 DEF JustFlushed, Time
  <2>3. \A t \in touches : t.key # k
    <3> SUFFICES ASSUME NEW t \in touches, t.key = k PROVE FALSE
      OBVIOUS
    <3>1. flushed[k] = t.at /\ t.at \in Nat /\ t.by \in Nat /\ now <= t.by /\ t.by <= t.at + (Delay + Timeout)
      BY <1>3 DEF PendingIsFlushed, InTime, Touch
    <3> QED BY <1>1, <1>3, <2>2, <3>1
  <2>4. InTime'
    BY <1>1, <1>2, <1>3, <1>5, <2>1 DEF InTime
  <2>5. PendingIsFlushed'
    BY <1>1, <1>3, <2>1, <2>3 DEF PendingIsFlushed, Touch
  <2>6. UsesWithinInterval'
    BY <1>1, <1>2, <1>3, <1>4, <2>1, <2>2 DEF UsesWithinInterval, Time
  <2>7. WrittenIsOlder'
    <3>1. key[k].lastUsed # None => key[k].lastUsed \in Nat /\ key[k].lastUsed <= at
      BY <1>1, <1>3, <2>2 DEF WrittenIsOlder, KeyRow, Time, Debounce
    <3> QED BY <1>1, <1>2, <1>3, <1>5, <2>1, <3>1 DEF WrittenIsOlder
  <2>8. WrittenIsFlushed'
    <3>1. (\E t \in touches' : t.key = k) /\ touches \subseteq touches'
      <4> DEFINE new == [key |-> k, at |-> at, by |-> now + Timeout]
      <4>1. new.key = k
        OBVIOUS
      <4> HIDE DEF k, at
      <4>2. new \in touches' /\ touches \subseteq touches'
        BY <2>1
      <4> QED BY <4>1, <4>2
    <3>2. \A m \in Keys \ {k} : used'[m] = used[m] /\ flushed'[m] = flushed[m]
      BY <1>1, <1>3, <1>4, <2>1
    <3> QED BY <1>2, <3>1, <3>2 DEF WrittenIsFlushed, Stored
  <2> QED BY <1>6, <2>4, <2>5, <2>6, <2>7, <2>8
<1> QED BY <1>7, <1>8

\* The goroutine: what it writes is what the map has.
LEMMA TouchKeepsInv ==
    ASSUME KeysInv, KeysTypeOK', NEW t \in touches, TouchLastUsedAt(t) \/ TouchFails(t)
    PROVE  KeysInv'
<1> USE StepsOfRequests DEF KeysInv
<1>1. t.key \in Keys /\ t.at \in Nat /\ flushed[t.key] = t.at
  BY DEF KeysTypeOK, Touch, PendingIsFlushed
<1>2. /\ UNCHANGED <<now, flushed, call, used>>
      /\ touches' = touches \ {t}
      /\ \A k \in Keys \ {t.key} : key'[k] = key[k] /\ (k \in lost' <=> k \in lost)
      /\ key'[t.key].state = key[t.key].state
      /\ \/ t.key \in lost' /\ key' = key
         \/ key'[t.key].lastUsed = IF Stored(t.key) THEN t.at ELSE key[t.key].lastUsed
  BY <1>1 DEF TouchLastUsedAt, TouchFails, KeysTypeOK, KeyRow
<1>3. t.at <= now /\ None # t.at
  BY <1>1, ApiKeysAssumption DEF UsesWithinInterval, KeysTypeOK, Time
<1>4. KeysOfUsesExist'
  BY <1>1, <1>2 DEF KeysOfUsesExist
<1>5. InTime' /\ PendingIsFlushed' /\ UsesWithinInterval'
  BY <1>2 DEF InTime, PendingIsFlushed, UsesWithinInterval
<1>6. WrittenIsOlder'
  BY <1>1, <1>2, <1>3 DEF WrittenIsOlder
<1>7. WrittenIsFlushed'
  BY <1>1, <1>2, <1>3 DEF WrittenIsFlushed, UsesWithinInterval, Stored
<1> QED BY <1>4, <1>5, <1>6, <1>7

\* The clock moves, or the process dies: pending writes are lost, and the map is
\* empty, but nobody is left who read the clock before.
LEMMA RestartAndTickKeepInv ==
    ASSUME KeysInv, KeysTypeOK', RestartServer \/ Tick
    PROVE  KeysInv'
<1> USE StepsOfRequests, ApiKeysAssumption DEF KeysInv
<1>1. CASE RestartServer
  <2> USE <1>1 DEF RestartServer
  <2>1. \A c \in Calls : call'[c].step = "none"
    BY DEF Unheard
  <2>2. KeysOfUsesExist' /\ InTime' /\ PendingIsFlushed'
    BY <2>1 DEF KeysOfUsesExist, InTime, PendingIsFlushed
  <2>3. UsesWithinInterval' /\ WrittenIsOlder'
    BY <2>1 DEF UsesWithinInterval, WrittenIsOlder
  <2>4. WrittenIsFlushed'
    BY DEF WrittenIsFlushed, Stored
  <2> QED BY <2>2, <2>3, <2>4
<1>2. CASE Tick
  <2> USE <1>2 DEF Tick
  <2>1. KeysOfUsesExist' /\ PendingIsFlushed' /\ WrittenIsFlushed'
    BY DEF KeysOfUsesExist, PendingIsFlushed, WrittenIsFlushed, Stored
  <2>2. InTime'
    BY DEF InTime, KeysTypeOK, Touch
  <2>3. UsesWithinInterval' /\ WrittenIsOlder'
    BY DEF UsesWithinInterval, WrittenIsOlder, KeysTypeOK, KeyRow, Time
  <2> QED BY <2>1, <2>2, <2>3
<1> QED BY <1>1, <1>2

\* The invariant, of every behaviour of the keys.
LEMMA KeysInvAlways == KeysSpec => []KeysInv
<1>1. KeysInit => KeysInv
  <2> SUFFICES ASSUME KeysInit PROVE KeysInv
    OBVIOUS
  <2> USE ApiKeysAssumption DEF KeysInit
  <2>1. NoRow \in KeyRow
    BY DEF NoRow, KeyRow, Time
  <2>2. KeysTypeOK
    BY <2>1 DEF KeysTypeOK, Time
  <2>3. \A c \in Calls : call[c].step = "none"
    BY DEF Unheard
  <2>4. KeysOfUsesExist /\ InTime /\ PendingIsFlushed
    BY <2>3 DEF KeysOfUsesExist, InTime, PendingIsFlushed
  <2>5. UsesWithinInterval /\ WrittenIsOlder /\ WrittenIsFlushed
    BY DEF UsesWithinInterval, WrittenIsOlder, WrittenIsFlushed, NoRow
  <2> QED BY <2>2, <2>4, <2>5 DEF KeysInv
<1>2. KeysInv /\ [KeysNext]_keyVars => KeysInv'
  <2> SUFFICES ASSUME KeysInv, [KeysNext]_keyVars PROVE KeysInv'
    OBVIOUS
  <2>1. KeysTypeOK'
    BY KeysTyped DEF KeysInv
  <2>2. CASE UNCHANGED keyVars
    BY <2>2 DEF keyVars, KeysInv, KeysTypeOK, KeysOfUsesExist, InTime, PendingIsFlushed,
                UsesWithinInterval, WrittenIsOlder, WrittenIsFlushed, Stored
  <2> QED BY <2>1, <2>2, ConsoleKeepsInv, AdmissionKeepsInv, DebounceKeepsInv, TouchKeepsInv,
             RestartAndTickKeepInv DEF KeysNext, ConsoleStep
<1> QED BY <1>1, <1>2, PTL DEF KeysSpec

-----------------------------------------------------------------------------
(* The properties.                                                         *)

\* The time of last use that the console shows is less than Interval behind
\* (usecase/api_key.go MarkUsed).
THEOREM LastUsedAlwaysFresh == KeysSpec => []LastUsedFresh
<1>1. KeysInv => LastUsedFresh
  BY DEF KeysInv, WrittenIsFlushed, LastUsedFresh
<1> QED BY <1>1, KeysInvAlways, PTL

\* No write of the goroutines takes the time of last use back (gateway/api_key.go
\* TouchLastUsedAt has no condition on the time that is there).
THEOREM LastUsedOnlyForward == KeysSpec => LastUsedNeverBack
<1>1. ASSUME KeysInv, [KeysNext]_keyVars, NEW k \in Keys, key[k].lastUsed # None
      PROVE  key'[k].lastUsed # None /\ key'[k].lastUsed >= key[k].lastUsed
  <2> USE <1>1 DEF KeysInv
  <2>1. key[k].lastUsed \in Nat /\ None \notin Nat
    BY ApiKeysAssumption DEF KeysTypeOK, KeyRow, Time
  <2>2. CASE ConsoleStep
    BY <2>1, <2>2, ConsoleSteps
  <2>3. ASSUME NEW t \in touches, TouchLastUsedAt(t) PROVE key'[k].lastUsed \in Nat /\ key'[k].lastUsed >= key[k].lastUsed
    <3>1. t.key \in Keys /\ t.at \in Nat /\ flushed[t.key] = t.at
      BY DEF KeysTypeOK, Touch, PendingIsFlushed
    <3>2. key'[k].lastUsed \in {key[k].lastUsed, t.at} /\ (k # t.key => key'[k] = key[k])
      BY <2>3, <3>1 DEF TouchLastUsedAt, KeysTypeOK, KeyRow
    <3> QED BY <2>1, <3>1, <3>2 DEF WrittenIsOlder
  <2>4. CASE UNCHANGED key
    BY <2>1, <2>4
  <2>5. ConsoleStep \/ (\E t \in touches : TouchLastUsedAt(t)) \/ UNCHANGED key
    BY DEF KeysNext, ConsoleStep, keyVars, Authenticate, MarkUsed, Debounce, TouchFails,
           RestartServer, Tick
  <2> QED BY <2>1, <2>2, <2>3, <2>4, <2>5
<1>2. KeysInv /\ [KeysNext]_keyVars =>
       \A k \in Keys : (key[k].lastUsed # None) =>
            key'[k].lastUsed # None /\ key'[k].lastUsed >= key[k].lastUsed
  BY <1>1
<1> QED BY <1>2, KeysInvAlways, PTL DEF KeysSpec, LastUsedNeverBack

\* A key that is revoked stays revoked, since when it was, whatever row an edit
\* has read before (gateway/api_key.go Update writes two columns).
THEOREM RevokedStaysRevoked == KeysSpec => RevokedForGood
<1>1. ASSUME KeysInv, [KeysNext]_keyVars, NEW k \in Keys, key[k].revoked # None
      PROVE  key'[k].revoked = key[k].revoked
  <2>1. CASE ConsoleStep
    BY <1>1, <2>1, ConsoleSteps
  <2>2. ASSUME NEW t \in touches, TouchLastUsedAt(t) PROVE key'[k].revoked = key[k].revoked
    BY <1>1, <2>2 DEF TouchLastUsedAt, KeysInv, KeysTypeOK, KeyRow
  <2>3. ConsoleStep \/ (\E t \in touches : TouchLastUsedAt(t)) \/ UNCHANGED key
    BY <1>1 DEF KeysNext, ConsoleStep, keyVars, Authenticate, MarkUsed, Debounce, TouchFails,
                RestartServer, Tick
  <2> QED BY <2>1, <2>2, <2>3
<1>2. KeysInv /\ [KeysNext]_keyVars =>
       \A k \in Keys : key[k].revoked # None => key'[k].revoked = key[k].revoked
  BY <1>1
<1> QED BY <1>2, KeysInvAlways, PTL DEF KeysSpec, RevokedForGood

-----------------------------------------------------------------------------
(***************************************************************************)
(* The streams of episodes. What a page has yet to be sent is announced: a *)
(* request owes a signal for what it has committed, a signal waits in the  *)
(* inbox of the page, or the frame in the making has read everything       *)
(* since.                                                                  *)
(***************************************************************************)

EpisodeStatuses == {"ready", "recording", "completed", "cancel", "gone"}

EpisodeRow == [status : EpisodeStatuses, work : Nat, ended : Nat, stopped : BOOLEAN, subTasks : BOOLEAN]

Frame == [status : EpisodeStatuses \cup {"unread"}, ended : Nat, records : Nat, executions : Nat]

Connections == [step : {"connecting", "accepted", "live", "closed", "retry"}]
               \cup [step : {"sending"}, at : 1..4]

EpisodeStreamTypes ==
    /\ writes \in Nat /\ owed \in Nat
    /\ inbox \in [Subscribers -> {"absent", "empty", "signal"}]
    /\ row \in EpisodeRow
    /\ conn \in [Subscribers -> Connections]
    /\ frame \in [Subscribers -> Frame] /\ seen \in [Subscribers -> Frame]
    /\ asked \in [Lists -> {"no", "asked", "again", "answered", "failed"}]

\* No request has yet to signal what it wrote, and no signal waits for s.
Told(s) == owed = 0 /\ inbox[s] # "signal"

\* What the queries before the at-th have read is so still.
Agrees(f, at) ==
    /\ at > 1 => f.status = row.status
    /\ at > 2 => f.records = row.work
    /\ at > 3 => f.executions = row.work

\* They have read nothing older than the end that the first of them found.
NotBefore(f, at) ==
    /\ at > 1 => f.ended <= row.work
    /\ at > 2 => f.records >= f.ended
    /\ at > 3 => f.executions >= f.ended

PageInv(p) ==
    /\ conn[p].step \in {"sending", "live"} => inbox[p] # "absent"
    /\ conn[p].step = "sending" =>
          /\ Told(p) => Agrees(frame[p], conn[p].at)
          /\ NotBefore(frame[p], conn[p].at)
    /\ conn[p].step = "live" /\ Told(p) => Agrees(seen[p], 4)
    /\ conn[p].step = "closed" => seen[p].status \in Terminal /\ NotBefore(seen[p], 4)

\* A list that is told everything has asked again, or knows, unless its first answer
\* was on its way.
ListInv(l) ==
    conn[l].step = "live" =>
        /\ inbox[l] # "absent"
        /\ Told(l) => \/ l \in kept
                      \/ asked[l] \in {"asked", "again", "failed"}
                      \/ asked[l] = "answered" /\ frame[l].status = row.status
                      \/ asked[l] = "no" /\ seen[l].status = row.status

\* Subtasks and executions are counted by writes, and the end is one of them.
RowInv == row.ended <= row.work /\ row.work <= writes

EpisodeStreamInv ==
    /\ EpisodeStreamTypes
    /\ There => RowInv /\ (\A p \in Pages : PageInv(p)) /\ (\A l \in Lists : ListInv(l))

-----------------------------------------------------------------------------

\* A connection that is not sending goes on to another step; a frame goes on to
\* its next query.
LEMMA StepTo ==
    ASSUME EpisodeStreamTypes, NEW s \in Subscribers
    PROVE  /\ conn[s].step # "sending" =>
                \A x : [conn EXCEPT ![s].step = x] = [conn EXCEPT ![s] = [step |-> x]]
           /\ conn[s].step = "sending" =>
                [conn EXCEPT ![s].at = @ + 1] =
                    [conn EXCEPT ![s] = [step |-> "sending", at |-> conn[s].at + 1]]
<1>1. conn[s] \in Connections
  BY DEF EpisodeStreamTypes
<1>2. ASSUME conn[s].step # "sending", NEW x
      PROVE  [conn EXCEPT ![s].step = x] = [conn EXCEPT ![s] = [step |-> x]]
  <2>1. conn[s] = [step |-> conn[s].step]
    BY <1>1, <1>2 DEF Connections
  <2>2. [conn[s] EXCEPT !.step = x] = [step |-> x]
    BY <2>1
  <2> QED BY <2>2
<1>3. ASSUME conn[s].step = "sending"
      PROVE  [conn EXCEPT ![s].at = @ + 1] =
                 [conn EXCEPT ![s] = [step |-> "sending", at |-> conn[s].at + 1]]
  <2>1. conn[s] = [step |-> "sending", at |-> conn[s].at]
    BY <1>1, <1>3 DEF Connections
  <2>2. [conn[s] EXCEPT !.at = @ + 1] = [step |-> "sending", at |-> conn[s].at + 1]
    BY <2>1
  <2> QED BY <2>2
<1> QED BY <1>2, <1>3

\* A step about one subscriber is one about no other.
LEMMA OthersKeep ==
    ASSUME EpisodeStreamInv, There, NEW s, UNCHANGED <<writes, owed, row>>,
           \A q \in Subscribers : q # s =>
               /\ inbox'[q] = inbox[q] /\ conn'[q] = conn[q] /\ frame'[q] = frame[q]
               /\ seen'[q] = seen[q] /\ (q \in Lists => asked'[q] = asked[q])
               /\ (q \in kept => q \in kept')
    PROVE  /\ RowInv'
           /\ \A q \in Pages : q # s => PageInv(q)'
           /\ \A l \in Lists : l # s => ListInv(l)'
<1>1. RowInv'
  BY DEF EpisodeStreamInv, RowInv
<1>2. ASSUME NEW q \in Pages, q # s PROVE PageInv(q)'
  <2>1. PageInv(q) /\ q \in Subscribers
    BY DEF EpisodeStreamInv, Pages
  <2> QED BY <1>2, <2>1 DEF PageInv, Told, Agrees, NotBefore
<1>3. ASSUME NEW l \in Lists, l # s PROVE ListInv(l)'
  <2>1. ListInv(l) /\ l \in Subscribers
    BY EpisodeStreamAssumption DEF EpisodeStreamInv
  <2> QED BY <1>3, <2>1 DEF ListInv, Told
<1> QED BY <1>1, <1>2, <1>3

\* A step of one page, alone, has only that page to answer for.
LEMMA OnePageMoves ==
    ASSUME EpisodeStreamInv, EpisodeStreamTypes', NEW p \in Pages, There => PageInv(p)',
           UNCHANGED <<writes, owed, row>>,
           \A q \in Subscribers : q # p =>
               /\ inbox'[q] = inbox[q] /\ conn'[q] = conn[q] /\ frame'[q] = frame[q]
               /\ seen'[q] = seen[q] /\ (q \in Lists => asked'[q] = asked[q])
               /\ (q \in kept => q \in kept')
    PROVE  EpisodeStreamInv'
<1>1. There' => There
  BY DEF There
<1>2. p \notin Lists
  BY DEF Pages
<1> QED BY <1>1, <1>2, OthersKeep DEF EpisodeStreamInv

\* A step of one list, alone, has only that list to answer for.
LEMMA OneListMoves ==
    ASSUME EpisodeStreamInv, EpisodeStreamTypes', NEW l \in Lists, There => ListInv(l)',
           UNCHANGED <<writes, owed, row>>,
           \A q \in Subscribers : q # l =>
               /\ inbox'[q] = inbox[q] /\ conn'[q] = conn[q] /\ frame'[q] = frame[q]
               /\ seen'[q] = seen[q] /\ (q \in Lists => asked'[q] = asked[q])
               /\ (q \in kept => q \in kept')
    PROVE  EpisodeStreamInv'
<1>1. There' => There
  BY DEF There
<1>2. l \notin Pages
  BY DEF Pages
<1> QED BY <1>1, <1>2, OthersKeep DEF EpisodeStreamInv

\* Whoever writes owes a signal to all, and work goes forward.
LEMMA CommitsKeepInv ==
    ASSUME EpisodeStreamInv, NEW r \in EpisodeRow, Commits(r),
           r.work = row.work \/ r.work = writes + 1, r.ended <= r.work
    PROVE  EpisodeStreamInv'
<1>1. /\ There /\ row' = r /\ writes' = writes + 1 /\ owed' = owed + 1
      /\ UNCHANGED <<inbox, conn, frame, asked, kept, seen>>
  BY DEF Commits, Write
<1>2. EpisodeStreamTypes' /\ EpisodeStreamTypes
  BY <1>1 DEF EpisodeStreamInv, EpisodeStreamTypes
<1>3. row.work \in Nat /\ row'.work \in Nat /\ row.work <= row'.work /\ RowInv'
  BY <1>1, <1>2 DEF EpisodeStreamInv, EpisodeStreamTypes, RowInv, EpisodeRow
<1>4. owed' # 0
  BY <1>1, <1>2 DEF EpisodeStreamTypes
<1>5. ASSUME NEW f \in Frame, NEW at, NotBefore(f, at) PROVE NotBefore(f, at)'
  BY <1>3, <1>5 DEF NotBefore, Frame
<1>6. ASSUME NEW p \in Pages PROVE PageInv(p)'
  <2>1. PageInv(p) /\ frame[p] \in Frame /\ seen[p] \in Frame
    BY <1>1, <1>2 DEF EpisodeStreamInv, EpisodeStreamTypes, Pages
  <2> QED BY <1>1, <1>4, <1>5, <2>1 DEF PageInv, Told, NotBefore
<1>7. ASSUME NEW l \in Lists PROVE ListInv(l)'
  BY <1>1, <1>4 DEF EpisodeStreamInv, ListInv, Told
<1> QED BY <1>2, <1>3, <1>6, <1>7 DEF EpisodeStreamInv

\* Work that ends with the write that does it.
LEMMA WorkEnds ==
    ASSUME NEW r \in EpisodeRow, NEW n \in Nat
    PROVE  /\ [r EXCEPT !.work = n, !.ended = n] \in EpisodeRow
           /\ [r EXCEPT !.work = n, !.ended = n].work = n
           /\ [r EXCEPT !.work = n, !.ended = n].ended = n
BY DEF EpisodeRow

\* The requests on the episode: each commits, and owes a signal from then on.
LEMMA EpisodeStepsKeepInv ==
    ASSUME EpisodeStreamInv,
           \/ StartEpisode \/ FinishEpisode \/ CancelEpisode \/ Works \/ EditEpisode
    PROVE  EpisodeStreamInv'
<1>1. row \in EpisodeRow /\ writes \in Nat
  BY DEF EpisodeStreamInv, EpisodeStreamTypes
<1>2. There /\ RowInv
  BY DEF StartEpisode, FinishEpisode, CancelEpisode, Works, EditEpisode, Commits, EpisodeStreamInv
<1>3. CASE StartEpisode
  <2> DEFINE r == [row EXCEPT !.status = "recording"]
  <2>1. r \in EpisodeRow /\ r.work = row.work /\ r.ended = row.ended
    BY <1>1 DEF EpisodeRow, EpisodeStatuses
  <2>2. Commits(r)
    BY <1>3 DEF StartEpisode
  <2> HIDE DEF r
  <2> QED BY <1>2, <2>1, <2>2, CommitsKeepInv DEF RowInv
<1>4. CASE FinishEpisode
  <2> DEFINE r == [row EXCEPT !.status = "completed", !.ended = row.work]
  <2>1. r \in EpisodeRow /\ r.work = row.work /\ r.ended = row.work /\ row.work \in Nat
    BY <1>1 DEF EpisodeRow, EpisodeStatuses
  <2>2. Commits(r)
    BY <1>4 DEF FinishEpisode
  <2> HIDE DEF r
  <2> QED BY <2>1, <2>2, CommitsKeepInv
<1>5. CASE CancelEpisode
  <2> DEFINE n == IF row.subTasks THEN writes + 1 ELSE row.work
             r == [row EXCEPT !.status = "cancel", !.stopped = TRUE, !.work = n, !.ended = n]
  <2>0. n \in Nat /\ n \in {row.work, writes + 1}
    BY <1>1 DEF EpisodeRow
  <2>2. Commits(r)
    BY <1>5 DEF CancelEpisode
  <2> HIDE DEF n
  <2>1. r \in EpisodeRow /\ r.work = n /\ r.ended = n
    <3> DEFINE stopped == [row EXCEPT !.status = "cancel", !.stopped = TRUE]
    <3>1. stopped \in EpisodeRow
      BY <1>1 DEF EpisodeRow, EpisodeStatuses
    <3>2. r = [stopped EXCEPT !.work = n, !.ended = n]
      BY Zenon
    <3> HIDE DEF stopped, r
    <3> QED BY <2>0, <3>1, <3>2, WorkEnds, Zenon
  <2> HIDE DEF r
  <2> QED BY <2>0, <2>1, <2>2, CommitsKeepInv
<1>6. CASE Works
  <2> DEFINE r == [row EXCEPT !.work = writes + 1]
  <2>1. r \in EpisodeRow /\ r.work = writes + 1 /\ r.ended <= r.work
    BY <1>1, <1>2 DEF EpisodeRow, EpisodeStatuses, RowInv
  <2>2. Commits(r)
    BY <1>6 DEF Works
  <2> HIDE DEF r
  <2> QED BY <2>1, <2>2, CommitsKeepInv
<1>7. CASE EditEpisode
  <2>1. PICK status \in {"ready", "recording", "completed", "cancel"} \ {row.status} :
          Commits([row EXCEPT !.status = status,
                              !.ended = IF status \in Terminal THEN row.work ELSE @])
    BY <1>7 DEF EditEpisode
  <2> DEFINE r == [row EXCEPT !.status = status,
                              !.ended = IF status \in Terminal THEN row.work ELSE @]
  <2> DEFINE end == IF status \in Terminal THEN row.work ELSE row.ended
  <2>0. r = [row EXCEPT !.status = status, !.ended = end]
    BY Zenon
  <2>2. r \in EpisodeRow /\ r.work = row.work /\ r.ended <= r.work
    <3> HIDE DEF r
    <3>1. row.work \in Nat /\ row.ended \in Nat /\ row.stopped \in BOOLEAN /\ row.ended <= row.work
      BY <1>1, <1>2 DEF EpisodeRow, RowInv
    <3>2. end \in Nat /\ end <= row.work
      BY <3>1
    <3> HIDE DEF end
    <3>3. status \in EpisodeStatuses
      BY DEF EpisodeStatuses
    <3>4. r \in EpisodeRow /\ r.work = row.work /\ r.ended = end
      <4>1. end \in Nat /\ row \in EpisodeRow
        BY <1>1, <3>2
      <4>2. ASSUME NEW x \in EpisodeRow
            PROVE  /\ [x EXCEPT !.status = status, !.ended = end] \in EpisodeRow
                   /\ [x EXCEPT !.status = status, !.ended = end].work = x.work
                   /\ [x EXCEPT !.status = status, !.ended = end].ended = end
        BY <3>3, <4>1 DEF EpisodeRow
      <4> QED BY <2>0, <4>1, <4>2, Zenon
    <3> QED BY <3>2, <3>4
  <2>3. Commits(r)
    BY <2>1
  <2> HIDE DEF r
  <2> QED BY <2>2, <2>3, CommitsKeepInv
<1> QED BY <1>3, <1>4, <1>5, <1>6, <1>7

\* A signal reaches every inbox, or finds one that waits there.
LEMMA NotifyKeepsInv == ASSUME EpisodeStreamInv, NotifyStreams PROVE EpisodeStreamInv'
<1>1. /\ owed' = owed - 1 /\ owed > 0 /\ inbox' = [s \in Subscribers |-> Signalled(s)]
      /\ UNCHANGED <<writes, row, conn, frame, asked, kept, seen>>
  BY DEF NotifyStreams, Notify, episodeVars
<1>2. EpisodeStreamTypes' /\ EpisodeStreamTypes
  BY <1>1 DEF EpisodeStreamInv, EpisodeStreamTypes, Signalled
<1>3. \A s \in Subscribers : inbox[s] # "absent" => inbox'[s] = "signal"
  BY <1>1 DEF Signalled
<1>4. SUFFICES ASSUME There
               PROVE  RowInv' /\ (\A p \in Pages : PageInv(p)') /\ (\A l \in Lists : ListInv(l)')
  BY <1>1, <1>2 DEF EpisodeStreamInv, There
<1>5. RowInv'
  BY <1>1, <1>4 DEF EpisodeStreamInv, RowInv
<1>6. ASSUME NEW p \in Pages PROVE PageInv(p)'
  <2>1. PageInv(p) /\ p \in Subscribers
    BY <1>4 DEF EpisodeStreamInv, Pages
  <2> QED BY <1>1, <1>3, <2>1 DEF PageInv, Told, NotBefore
<1>7. ASSUME NEW l \in Lists PROVE ListInv(l)'
  <2>1. ListInv(l) /\ l \in Subscribers
    BY <1>4, EpisodeStreamAssumption DEF EpisodeStreamInv
  <2> QED BY <1>1, <1>3, <2>1 DEF ListInv, Told
<1> QED BY <1>5, <1>6, <1>7

\* A query reads what is so, and nothing older than the queries before it.
LEMMA QueryReads ==
    ASSUME EpisodeStreamTypes, There, RowInv, NEW f \in Frame, NEW at \in 1..3
    PROVE  /\ Reads(f, Queries[at]) \in Frame
           /\ Agrees(f, at) => Agrees(Reads(f, Queries[at]), at + 1)
           /\ NotBefore(f, at) => NotBefore(Reads(f, Queries[at]), at + 1)
<1>1. row \in EpisodeRow
  BY DEF EpisodeStreamTypes
<1>2. /\ row.status \in EpisodeStatuses /\ row.work \in Nat /\ row.ended \in Nat /\ row.ended <= row.work
      /\ f.ended \in Nat /\ f.records \in Nat /\ f.executions \in Nat
  BY <1>1 DEF EpisodeRow, RowInv, Frame
<1>3. CASE at = 1
  <2>1. Reads(f, Queries[at]) = [f EXCEPT !.status = row.status, !.ended = row.ended]
    BY <1>3 DEF Queries, Reads
  <2>2. Reads(f, Queries[at]) = [status |-> row.status, ended |-> row.ended, records |-> f.records,
                                 executions |-> f.executions]
    BY <2>1 DEF Frame
  <2> QED BY <1>2, <1>3, <2>2 DEF Frame, Agrees, NotBefore
<1>4. CASE at = 2
  <2>1. Reads(f, Queries[at]) = [f EXCEPT !.records = row.work]
    BY <1>4 DEF Queries, Reads
  <2>2. Reads(f, Queries[at]) = [status |-> f.status, ended |-> f.ended, records |-> row.work,
                                 executions |-> f.executions]
    BY <2>1 DEF Frame
  <2> QED BY <1>2, <1>4, <2>2 DEF Frame, Agrees, NotBefore
<1>5. CASE at = 3
  <2>1. Reads(f, Queries[at]) = [f EXCEPT !.executions = row.work]
    BY <1>5 DEF Queries, Reads
  <2>2. Reads(f, Queries[at]) = [status |-> f.status, ended |-> f.ended, records |-> f.records,
                                 executions |-> row.work]
    BY <2>1 DEF Frame
  <2> QED BY <1>2, <1>5, <2>2 DEF Frame, Agrees, NotBefore
<1> QED BY <1>3, <1>4, <1>5

\* A frame of any reads is a frame, of a deleted episode too.
LEMMA ReadsFrame ==
    ASSUME EpisodeStreamTypes, NEW f \in Frame, NEW at \in 1..3
    PROVE  Reads(f, Queries[at]) \in Frame
<1>1. row \in EpisodeRow
  BY DEF EpisodeStreamTypes
<1>2. CASE at = 1
  BY <1>1, <1>2 DEF Queries, Reads, Frame, EpisodeRow
<1>3. CASE at = 2
  BY <1>1, <1>3 DEF Queries, Reads, Frame, EpisodeRow
<1>4. CASE at = 3
  BY <1>1, <1>4 DEF Queries, Reads, Frame, EpisodeRow
<1> QED BY <1>2, <1>3, <1>4

\* A frame that has read nothing agrees with any row.
LEMMA UnreadIs == Unread \in Frame /\ \A at : at = 1 => Agrees(Unread, at) /\ NotBefore(Unread, at)
BY DEF Unread, Frame, Agrees, NotBefore

\* The connection of a page.
LEMMA PageStepsKeepInv ==
    ASSUME EpisodeStreamInv, NEW p \in Pages,
           \/ Accept(p) \/ Join(p) \/ Wake(p) \/ ReadFrame(p) \/ SendFrame(p)
           \/ ConnectionLost(p) \/ Retry(p)
    PROVE  EpisodeStreamInv'
<1>1. /\ EpisodeStreamTypes /\ p \in Subscribers /\ p \notin Lists
      /\ conn[p] \in Connections /\ frame[p] \in Frame
  BY DEF EpisodeStreamInv, EpisodeStreamTypes, Pages
<1>2. There => RowInv /\ PageInv(p)
  BY DEF EpisodeStreamInv
<1> USE DEF BusSubscribe, BusUnsubscribe, TakeSignal, busVars
<1>3. CASE Accept(p)
  <2>1. conn' = [conn EXCEPT ![p] = [step |-> "accepted"]]
    BY <1>1, <1>3, StepTo DEF Accept
  <2>2. EpisodeStreamTypes'
    BY <1>1, <1>3, <2>1 DEF Accept, EpisodeStreamTypes, Connections
  <2>3. PageInv(p)'
    BY <1>1, <2>1 DEF PageInv, EpisodeStreamTypes
  <2> QED BY <1>1, <1>3, <2>1, <2>2, <2>3, OnePageMoves DEF Accept, EpisodeStreamTypes
<1>4. CASE Join(p) \/ Wake(p)
  <2>1. /\ conn' = [conn EXCEPT ![p] = Sending(1)]
        /\ inbox' = [inbox EXCEPT ![p] = "empty"]
        /\ UNCHANGED <<writes, owed, row, frame, asked, kept, seen>>
    BY <1>4 DEF Join, Wake
  <2>2. EpisodeStreamTypes'
    BY <1>1, <2>1 DEF EpisodeStreamTypes, Connections, Sending
  <2>3. PageInv(p)'
    BY <1>1, <2>1 DEF PageInv, EpisodeStreamTypes, Sending, Agrees, NotBefore
  <2> QED BY <1>1, <2>1, <2>2, <2>3, OnePageMoves DEF EpisodeStreamTypes
<1>5. CASE ReadFrame(p)
  <2> DEFINE at == conn[p].at
             f == Reads(frame[p], Queries[at])
  <2>1. conn[p].step = "sending" /\ at \in 1..3
    BY <1>1, <1>5 DEF ReadFrame, Connections, Queries
  <2>2. /\ conn' = [conn EXCEPT ![p] = [step |-> "sending", at |-> at + 1]]
        /\ frame' = [frame EXCEPT ![p] = f]
        /\ UNCHANGED <<writes, owed, inbox, row, asked, kept, seen>>
    BY <1>1, <1>5, <2>1, StepTo DEF ReadFrame
  <2>3. f \in Frame
    BY <1>1, <2>1, ReadsFrame
  <2>4. There => /\ Agrees(frame[p], at) => Agrees(f, at + 1)
                 /\ NotBefore(frame[p], at) => NotBefore(f, at + 1)
    BY <1>1, <1>2, <2>1, QueryReads
  <2> HIDE DEF f, at
  <2>5. EpisodeStreamTypes'
    BY <1>1, <2>1, <2>2, <2>3 DEF EpisodeStreamTypes, Connections
  <2>6. /\ conn'[p].step = "sending" /\ conn'[p].at = at + 1 /\ frame'[p] = f
        /\ inbox'[p] = inbox[p] /\ owed' = owed
    BY <1>1, <2>2 DEF EpisodeStreamTypes
  <2>7. ASSUME There PROVE PageInv(p)'
    <3>1. Told(p)' => Agrees(f, at + 1)
      BY <1>2, <2>1, <2>4, <2>6, <2>7 DEF PageInv, Told, at
    <3>2. NotBefore(f, at + 1) /\ inbox'[p] # "absent"
      BY <1>2, <2>1, <2>4, <2>6, <2>7 DEF PageInv, at
    <3> QED BY <2>2, <2>6, <3>1, <3>2 DEF PageInv, Agrees, NotBefore
  <2> QED BY <1>1, <2>2, <2>5, <2>7, OnePageMoves DEF EpisodeStreamTypes
<1>6. CASE SendFrame(p)
  <2>1. /\ conn[p].step = "sending" /\ conn[p].at = 4
        /\ seen' = [seen EXCEPT ![p] = frame[p]]
        /\ frame' = [frame EXCEPT ![p] = Unread]
        /\ UNCHANGED <<writes, owed, row, asked, kept>>
    BY <1>1, <1>6 DEF SendFrame, Connections, Queries
  <2>2. seen'[p] = frame[p]
    BY <1>1, <2>1 DEF EpisodeStreamTypes
  <2>3. CASE frame[p].status \in Terminal
    <3>1. /\ conn' = [conn EXCEPT ![p] = [step |-> "closed"]]
          /\ inbox' = [inbox EXCEPT ![p] = "absent"]
      BY <1>6, <2>3 DEF SendFrame
    <3>2. EpisodeStreamTypes'
      BY <1>1, <2>1, <3>1, UnreadIs DEF EpisodeStreamTypes, Connections
    <3>3. conn'[p].step = "closed"
      BY <1>1, <3>1 DEF EpisodeStreamTypes
    <3>4. There => PageInv(p)'
      BY <1>2, <2>1, <2>2, <2>3, <3>3 DEF PageInv, NotBefore
    <3> QED BY <1>1, <2>1, <3>1, <3>2, <3>4, OnePageMoves DEF EpisodeStreamTypes
  <2>4. CASE frame[p].status \notin Terminal
    <3>1. conn' = [conn EXCEPT ![p] = [step |-> "live"]] /\ inbox' = inbox
      BY <1>6, <2>4 DEF SendFrame, Rest
    <3>2. EpisodeStreamTypes'
      BY <1>1, <2>1, <3>1, UnreadIs DEF EpisodeStreamTypes, Connections
    <3>3. conn'[p].step = "live"
      BY <1>1, <3>1 DEF EpisodeStreamTypes
    <3>4. There => PageInv(p)'
      BY <1>2, <2>1, <2>2, <3>1, <3>3 DEF PageInv, Told, Agrees
    <3> QED BY <1>1, <2>1, <3>1, <3>2, <3>4, OnePageMoves DEF EpisodeStreamTypes
  <2> QED BY <2>3, <2>4
<1>7. CASE ConnectionLost(p) \/ Retry(p)
  <2>1. \E x \in {"retry", "connecting"} : conn' = [conn EXCEPT ![p] = [step |-> x]]
    BY <1>1, <1>7 DEF ConnectionLost, Retry, Connections
  <2>2. /\ inbox' = inbox \/ inbox' = [inbox EXCEPT ![p] = "absent"]
        /\ frame' = frame \/ frame' = [frame EXCEPT ![p] = Unread]
        /\ UNCHANGED <<writes, owed, row, asked, kept, seen>>
    BY <1>7 DEF ConnectionLost, Retry
  <2>3. EpisodeStreamTypes'
    BY <1>1, <2>1, <2>2, UnreadIs DEF EpisodeStreamTypes, Connections
  <2>4. PageInv(p)'
    BY <1>1, <2>1 DEF PageInv, EpisodeStreamTypes
  <2> QED BY <1>1, <2>1, <2>2, <2>3, <2>4, OnePageMoves DEF EpisodeStreamTypes
<1> QED BY <1>3, <1>4, <1>5, <1>6, <1>7

\* The connection of a list.
LEMMA ListStepsKeepInv ==
    ASSUME EpisodeStreamInv, NEW l \in Lists,
           \/ JoinList(l) \/ Ping(l) \/ AnswerList(l) \/ FailList(l) \/ ShowList(l)
           \/ ConnectionLost(l) \/ Retry(l)
    PROVE  EpisodeStreamInv'
<1>1. EpisodeStreamTypes /\ l \in Subscribers /\ conn[l] \in Connections
  BY EpisodeStreamAssumption DEF EpisodeStreamInv, EpisodeStreamTypes
<1>2. There => RowInv /\ ListInv(l)
  BY DEF EpisodeStreamInv
<1> USE DEF BusSubscribe, BusUnsubscribe, TakeSignal, busVars
<1>3. CASE JoinList(l) \/ Ping(l)
  <2>1. /\ inbox' = [inbox EXCEPT ![l] = "empty"]
        /\ Invalidate(l)
        /\ conn' = conn \/ conn' = [conn EXCEPT ![l] = [step |-> "live"]]
        /\ UNCHANGED <<writes, owed, row, seen>>
    BY <1>3 DEF JoinList, Ping
  <2>2. /\ asked' = asked \/ asked' = [asked EXCEPT ![l] = "asked"]
        /\ frame' = frame \/ frame' = [frame EXCEPT ![l] = Unread]
        /\ \A k \in Lists : k # l /\ k \in kept => k \in kept'
    BY <2>1 DEF Invalidate
  <2>3. EpisodeStreamTypes'
    BY <1>1, <2>1, <2>2, UnreadIs DEF EpisodeStreamTypes, Connections
  <2>4. asked'[l] \in {"asked", "again"} \/ l \in kept'
    BY <1>1, <2>1 DEF Invalidate, EpisodeStreamTypes
  <2>5. ListInv(l)'
    BY <1>1, <2>1, <2>4 DEF ListInv, EpisodeStreamTypes
  <2>6. \A q \in Subscribers : q # l /\ q \in kept => q \in kept'
    BY <2>1 DEF Invalidate
  <2> QED BY <1>1, <2>1, <2>2, <2>3, <2>5, <2>6, OneListMoves DEF EpisodeStreamTypes
<1>4. CASE AnswerList(l)
  <2> DEFINE f == [Unread EXCEPT !.status = row.status, !.ended = row.ended]
  <2>1. /\ frame' = [frame EXCEPT ![l] = f]
        /\ asked' = [asked EXCEPT ![l] = "answered"]
        /\ UNCHANGED <<writes, owed, inbox, row, conn, kept, seen>>
    BY <1>4 DEF AnswerList, Reads
  <2>2. f \in Frame /\ f.status = row.status
    BY <1>1 DEF Unread, Frame, EpisodeStreamTypes, EpisodeRow
  <2> HIDE DEF f
  <2>3. EpisodeStreamTypes'
    BY <1>1, <2>1, <2>2 DEF EpisodeStreamTypes
  <2>4. There => ListInv(l)'
    BY <1>1, <1>2, <2>1, <2>2 DEF ListInv, EpisodeStreamTypes
  <2> QED BY <1>1, <2>1, <2>3, <2>4, OneListMoves DEF EpisodeStreamTypes
<1>5. CASE ShowList(l)
  <2>1. /\ asked[l] = "answered"
        /\ seen' = [seen EXCEPT ![l] = frame[l]]
        /\ asked' = [asked EXCEPT ![l] = "no"]
        /\ frame' = [frame EXCEPT ![l] = Unread]
        /\ UNCHANGED <<writes, owed, inbox, row, conn, kept>>
    BY <1>5 DEF ShowList
  <2>2. EpisodeStreamTypes'
    BY <1>1, <2>1, UnreadIs DEF EpisodeStreamTypes
  <2>3. There => ListInv(l)'
    BY <1>1, <1>2, <2>1 DEF ListInv, Told, EpisodeStreamTypes
  <2> QED BY <1>1, <2>1, <2>2, <2>3, OneListMoves DEF EpisodeStreamTypes
<1>6. CASE ConnectionLost(l) \/ Retry(l)
  <2>1. \E x \in {"retry", "connecting"} : conn' = [conn EXCEPT ![l] = [step |-> x]]
    BY <1>1, <1>6 DEF ConnectionLost, Retry, Connections
  <2>2. /\ inbox' = inbox \/ inbox' = [inbox EXCEPT ![l] = "absent"]
        /\ frame' = frame \/ frame' = [frame EXCEPT ![l] = frame[l]]
        /\ UNCHANGED <<writes, owed, row, asked, kept, seen>>
    BY <1>6 DEF ConnectionLost, Retry, Pages
  <2>3. EpisodeStreamTypes'
    BY <1>1, <2>1, <2>2 DEF EpisodeStreamTypes, Connections
  <2>4. ListInv(l)'
    BY <1>1, <2>1 DEF ListInv, EpisodeStreamTypes
  <2> QED BY <1>1, <2>1, <2>2, <2>3, <2>4, OneListMoves DEF EpisodeStreamTypes
<1>7. CASE FailList(l)
  <2>1. /\ \E x \in {"again", "failed"} : asked' = [asked EXCEPT ![l] = x]
        /\ UNCHANGED <<writes, owed, inbox, row, conn, frame, kept, seen>>
    BY <1>7 DEF FailList
  <2>2. EpisodeStreamTypes'
    BY <1>1, <2>1 DEF EpisodeStreamTypes
  <2>3. There => ListInv(l)'
    BY <1>1, <1>2, <2>1 DEF ListInv, EpisodeStreamTypes
  <2> QED BY <1>1, <2>1, <2>2, <2>3, OneListMoves DEF EpisodeStreamTypes
<1> QED BY <1>3, <1>4, <1>5, <1>6, <1>7

\* Nobody is connected at first, and nothing written.
LEMMA EpisodeStreamInvInit == EpisodeStreamInit => EpisodeStreamInv
<1> SUFFICES ASSUME EpisodeStreamInit PROVE EpisodeStreamInv
  OBVIOUS
<1>0. /\ row \in EpisodeRow /\ row.work = 0 /\ row.ended = 0
  <2>1. PICK some \in BOOLEAN :
          row = [status |-> "ready", work |-> 0, ended |-> 0, stopped |-> FALSE, subTasks |-> some]
    BY DEF EpisodeStreamInit
  <2> QED BY <2>1 DEF EpisodeRow, EpisodeStatuses
<1>1. EpisodeStreamTypes
  BY <1>0, UnreadIs, EpisodeStreamAssumption
     DEF EpisodeStreamInit, BusInit, EpisodeStreamTypes, Connections
<1>2. \A s \in Subscribers : conn[s].step = "connecting"
  BY DEF EpisodeStreamInit
<1>3. RowInv
  BY <1>0 DEF EpisodeStreamInit, BusInit, RowInv
<1> QED BY <1>1, <1>2, <1>3, EpisodeStreamAssumption DEF EpisodeStreamInv, PageInv, ListInv, Pages

\* Every step keeps the invariant.
LEMMA EpisodeStreamInvNext ==
    EpisodeStreamInv /\ [EpisodeStreamNext]_streamVars => EpisodeStreamInv'
<1> SUFFICES ASSUME EpisodeStreamInv, [EpisodeStreamNext]_streamVars PROVE EpisodeStreamInv'
  OBVIOUS
<1>1. CASE UNCHANGED streamVars
  BY <1>1 DEF streamVars, busVars, episodeVars, EpisodeStreamInv, EpisodeStreamTypes, There, RowInv,
              PageInv, ListInv, Told, Agrees, NotBefore
<1>2. CASE DeleteEpisode
  <2>1. /\ ~There' /\ row' = [row EXCEPT !.status = "gone"]
        /\ UNCHANGED <<writes, owed, inbox, conn, frame, asked, kept, seen>>
    BY <1>2 DEF DeleteEpisode, There, busVars, EpisodeStreamInv, EpisodeStreamTypes, EpisodeRow
  <2>2. EpisodeStreamTypes'
    BY <2>1 DEF EpisodeStreamInv, EpisodeStreamTypes, EpisodeRow, EpisodeStatuses
  <2> QED BY <2>1, <2>2 DEF EpisodeStreamInv
<1>3. Subscribers = Pages \cup Lists
  BY EpisodeStreamAssumption DEF Pages
<1> QED BY <1>1, <1>2, <1>3, EpisodeStepsKeepInv, NotifyKeepsInv, PageStepsKeepInv, ListStepsKeepInv
        DEF EpisodeStreamNext

\* The invariant, of every behaviour of the streams.
LEMMA EpisodeStreamInvAlways == EpisodeStreamSpec => []EpisodeStreamInv
BY EpisodeStreamInvInit, EpisodeStreamInvNext, PTL DEF EpisodeStreamSpec

\* Any number of pages and lists, however writes, signals, queries, failures and
\* breaking connections mix: one that waits when everybody has told of what he wrote
\* shows the episode as it is, but for a list whose first answer was on its way
\* (interfaces/http/handler/sse.go StreamEpisodeUpdates, StreamEpisodeListUpdates;
\* use-episodes-list-stream.ts).
THEOREM WaitingPageIsCurrentAlways == EpisodeStreamSpec => []WaitingPageIsCurrent
<1>1. EpisodeStreamInv => WaitingPageIsCurrent
  <2> SUFFICES ASSUME EpisodeStreamInv, There, NEW s \in Subscribers \ kept, Waits(s)
               PROVE  /\ seen[s].status = row.status
                      /\ s \in Pages => seen[s].records = row.work /\ seen[s].executions = row.work
    BY DEF WaitingPageIsCurrent
  <2>1. CASE s \in Pages
    BY <2>1 DEF EpisodeStreamInv, PageInv, Waits, Told, Agrees
  <2>2. CASE s \in Lists
    BY <2>2 DEF EpisodeStreamInv, ListInv, Waits, Told, Pages
  <2> QED BY <2>1, <2>2 DEF Pages
<1> QED BY <1>1, EpisodeStreamInvAlways, PTL

\* The frame at which a page closes has the work up to the end that it shows,
\* because the episode is the first of the three queries (sendEpisodeUpdate).
THEOREM ClosedPageIsFinalAlways == EpisodeStreamSpec => []ClosedPageIsFinal
<1>1. EpisodeStreamInv => ClosedPageIsFinal
  BY DEF EpisodeStreamInv, ClosedPageIsFinal, PageInv, NotBefore
<1> QED BY <1>1, EpisodeStreamInvAlways, PTL

=============================================================================
