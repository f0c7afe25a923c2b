----------------------------- MODULE TaskDrafts -----------------------------
(***************************************************************************)
(* The versions of one task and the subtasks they list (internal/usecase/  *)
(* task_version.go and sub_task.go): people edit a draft, approve it and   *)
(* collect episodes with it.  Every edit checks that its version is a      *)
(* draft.  Creating and reordering subtasks check it holding the version's *)
(* row (SELECT ... FOR UPDATE) until they commit; all others check it      *)
(* first and write later.                                                  *)
(*                                                                         *)
(* A step is one statement, or the statements of a transaction from its    *)
(* first write to its commit, none of which others see.  A request that is *)
(* refused leaves nothing behind.                                          *)
(***************************************************************************)
EXTENDS Naturals, Sequences, FiniteSets, FiniteSetsExt, Functions

CONSTANTS
    Clients,        \* requests being served at once
    Labels,         \* version strings
    Contents,       \* values of the texts and targets people edit
    MaxVersions,    \* bound: versions ever created
    MaxSubTasks,    \* bound: subtasks ever created in a version
    MaxRows         \* bound: subtasks ever created or copied, in all versions

ASSUME DraftsAssumption ==
    /\ Labels # {} /\ Contents # {}
    /\ MaxVersions \in Nat /\ MaxSubTasks \in Nat /\ MaxRows \in Nat

VARIABLES
    version,    \* the versions, in order of creation
    work        \* of each client: the step its request is at, and what it carries

vars == <<version, work>>

\* Subtasks have a number in their version; a copy keeps the number.
SubTaskRow == [order : Nat, name : Contents]

VersionRow == [status     : {"draft", "approved"},
               label      : Labels,
               targets    : Contents,
               parameters : Contents,
               subTasks   : UNION {[S -> SubTaskRow] : S \in SUBSET (1 .. MaxSubTasks)},
               made       : 0 .. MaxSubTasks,             \* subtasks ever created
               recorded   : SUBSET (1 .. MaxSubTasks)]    \* those of some episode

Idle == [step |-> "idle"]

Goto(c, w)  == work' = [work EXCEPT ![c] = w]
Continue(c, w) == /\ Goto(c, w)
                  /\ UNCHANGED version
Respond(c)  == Goto(c, Idle)
Refuse(c)   == Continue(c, Idle)

At(c, step) == work[c].step = step
Now(c)      == version[work[c].version]     \* the version of c's request

Draft(v) == version[v].status = "draft"
OrdersOf(v) == {version[v].subTasks[k].order : k \in DOMAIN version[v].subTasks}

\* Mistake: the version is read without FOR UPDATE.
NeverHeld(v) == FALSE

\* The row of a version is locked: nobody else locks or updates it.
Held(v) == \E c \in Clients : /\ work[c].step \in {"maxOrder", "insertSubTask", "checkOrder", "writeOrder"}
                              /\ work[c].version = v

-----------------------------------------------------------------------------
(* Task versions.                                                          *)

FirstVersion == [status |-> "draft", subTasks |-> << >>, made |-> 0, recorded |-> {},
                 label |-> CHOOSE l \in Labels : TRUE,
                 targets |-> CHOOSE x \in Contents : TRUE,
                 parameters |-> CHOOSE x \in Contents : TRUE]

\* What MaxRows bounds: the subtasks of all versions, and those about to be.
Made == MapThenSumSet(LAMBDA v : version[v].made, DOMAIN version)
        + Cardinality({c \in Clients : work[c].step \in {"maxOrder", "insertSubTask"}})
        + MapThenSumSet(LAMBDA c : version[work[c].base].made, {c \in Clients : At(c, "copySubTasks")})

\* The list of versions gives the base's parameters and the labels taken.
CreateVersion(c) ==
    /\ At(c, "idle")
    /\ Len(version) + Cardinality({d \in Clients : At(d, "copySubTasks")}) < MaxVersions
    /\ \E base \in DOMAIN version, label \in Labels, targets \in Contents :
         /\ \A v \in DOMAIN version : version[v].label # label
         /\ Made + version[base].made <= MaxRows
         /\ Continue(c, [step |-> "copySubTasks", base |-> base, label |-> label,
                         targets |-> targets, parameters |-> version[base].parameters])

\* The subtasks of the base are read and copied after the new version's insert.
CopySubTasks(c) ==
    /\ At(c, "copySubTasks")
    /\ LET w == work[c]
           base == version[w.base]
       IN version' = Append(version,
              [status |-> "draft", label |-> w.label, targets |-> w.targets,
               parameters |-> w.parameters, subTasks |-> base.subTasks,
               made |-> base.made, recorded |-> {}])
    /\ Respond(c)

\* Update and UpdateParameters: the draft check, and later the write.
EditVersion(c) ==
    /\ At(c, "idle")
    /\ \E v \in DOMAIN version, step \in {"writeTargets", "writeParameters"}, x \in Contents :
         /\ Draft(v)
         /\ Continue(c, [step |-> step, version |-> v, content |-> x])

WriteTargets(c) ==
    /\ At(c, "writeTargets")
    /\ ~Held(work[c].version)
    /\ version' = [version EXCEPT ![work[c].version].targets = work[c].content]
    /\ Respond(c)

WriteParameters(c) ==
    /\ At(c, "writeParameters")
    /\ ~Held(work[c].version)
    /\ version' = [version EXCEPT ![work[c].version].parameters = work[c].content]
    /\ Respond(c)

\* Approve; what it does to the status of the task is TaskUsecase's.
Approve(c) ==
    /\ At(c, "idle")
    /\ \E v \in DOMAIN version :
         /\ Draft(v)
         /\ Continue(c, [step |-> "approve", version |-> v])

WriteApproved(c) ==
    /\ At(c, "approve")
    /\ ~Held(work[c].version)
    /\ version' = [version EXCEPT ![work[c].version].status = "approved"]
    /\ Respond(c)

-----------------------------------------------------------------------------
(* Subtasks.                                                               *)

\* Create: lock and check, take the largest order, insert behind it.
CreateSubTask(c) ==
    /\ At(c, "idle")
    /\ \E v \in DOMAIN version, name \in Contents :
         /\ ~Held(v)
         /\ Draft(v)
         /\ Made < MaxRows
         /\ version[v].made < MaxSubTasks
         /\ Continue(c, [step |-> "maxOrder", version |-> v, name |-> name])

\* Mistake: the next order is the number of subtasks.
NextOrderIndexByCount(v) == Cardinality(DOMAIN version[v].subTasks)

NextOrderIndex(v) == IF OrdersOf(v) = {} THEN 0 ELSE Max(OrdersOf(v)) + 1

MaxOrder(c) ==
    /\ At(c, "maxOrder")
    /\ Continue(c, [step |-> "insertSubTask", version |-> work[c].version,
                    name |-> work[c].name, order |-> NextOrderIndex(work[c].version)])

InsertSubTask(c) ==
    /\ At(c, "insertSubTask")
    /\ LET w == work[c]
           id == Now(c).made + 1
           row == [order |-> w.order, name |-> w.name]
       IN version' = [version EXCEPT
              ![w.version].made = id,
              ![w.version].subTasks = [k \in DOMAIN @ \cup {id} |-> IF k = id THEN row ELSE @[k]]]
    /\ Respond(c)

\* Reorder: lock and check, compare the ids with those of the version, number them.
\* As many ids as subtasks, all of the version: one may be named twice, one never.
Reorder(c) ==
    /\ At(c, "idle")
    /\ \E v \in DOMAIN version :
         LET ids == DOMAIN version[v].subTasks
         IN /\ ~Held(v)
            /\ Draft(v)
            /\ \E list \in [1 .. Cardinality(ids) -> ids] :
                 Continue(c, [step |-> "checkOrder", version |-> v, list |-> list])

CheckOrder(c) ==
    /\ At(c, "checkOrder")
    /\ LET list == work[c].list
           ids == DOMAIN Now(c).subTasks
       IN IF Len(list) = Cardinality(ids) /\ Range(list) \subseteq ids
          THEN Continue(c, [work[c] EXCEPT !.step = "writeOrder"])
          ELSE Refuse(c)

\* One UPDATE for each id in turn: the last naming counts, and who is not named
\* keeps its place.
Numbered(list, k, order) ==
    IF k \in Range(list) THEN Max({i \in DOMAIN list : list[i] = k}) - 1 ELSE order

\* A subtask deleted since is skipped.
UpdateOrderIndices(c) ==
    /\ At(c, "writeOrder")
    /\ LET old == Now(c).subTasks
           new == [k \in DOMAIN old |->
                     [old[k] EXCEPT !.order = Numbered(work[c].list, k, old[k].order)]]
       IN version' = [version EXCEPT ![work[c].version].subTasks = new]
    /\ Respond(c)

\* Update and Delete: the draft check, and later the write, without a lock.  No
\* controller sends Update an order.
EditSubTask(c) ==
    /\ At(c, "idle")
    /\ \E v \in DOMAIN version : \E k \in DOMAIN version[v].subTasks :
         /\ Draft(v)
         /\ \/ \E name \in Contents :
                 Continue(c, [step |-> "writeSubTask", version |-> v, subTask |-> k, name |-> name])
            \/ Continue(c, [step |-> "deleteSubTask", version |-> v, subTask |-> k])

WriteSubTask(c) ==
    /\ At(c, "writeSubTask")
    /\ LET w == work[c]
       IN IF w.subTask \in DOMAIN Now(c).subTasks
          THEN /\ version' = [version EXCEPT ![w.version].subTasks[w.subTask].name = w.name]
               /\ Respond(c)
          ELSE Refuse(c)

\* Mistake: a subtask is deleted whatever refers to it.
DeleteAnySubTask(c) ==
    /\ At(c, "deleteSubTask")
    /\ LET w == work[c]
       IN version' = [version EXCEPT ![w.version].subTasks = Restrict(@, DOMAIN @ \ {w.subTask})]
    /\ Respond(c)

\* The rows of episodes keep the subtasks they refer to.
DeleteSubTask(c) ==
    /\ At(c, "deleteSubTask")
    /\ LET w == work[c]
       IN IF w.subTask \in DOMAIN Now(c).subTasks \ Now(c).recorded
          THEN /\ version' = [version EXCEPT ![w.version].subTasks =
                                  Restrict(@, DOMAIN @ \ {w.subTask})]
               /\ Respond(c)
          ELSE Refuse(c)

-----------------------------------------------------------------------------
(* Episode Create: an approved version and its subtasks are read; the       *)
(* episode's rows for them are inserted later, and refused when one is gone. *)

CreateEpisode(c) ==
    /\ At(c, "idle")
    /\ \E v \in DOMAIN version :
         /\ version[v].status = "approved"
         /\ Continue(c, [step |-> "insertEpisode", version |-> v,
                         subTasks |-> DOMAIN version[v].subTasks])

InsertEpisode(c) ==
    /\ At(c, "insertEpisode")
    /\ LET w == work[c]
       IN IF w.subTasks \subseteq DOMAIN Now(c).subTasks
          THEN /\ version' = [version EXCEPT ![w.version].recorded = @ \cup w.subTasks]
               /\ Respond(c)
          ELSE Refuse(c)

-----------------------------------------------------------------------------

Init == /\ version = <<FirstVersion>>
        /\ work = [c \in Clients |-> Idle]

Next == \E c \in Clients :
    \/ CreateVersion(c) \/ CopySubTasks(c)
    \/ EditVersion(c) \/ WriteTargets(c) \/ WriteParameters(c)
    \/ Approve(c) \/ WriteApproved(c)
    \/ CreateSubTask(c) \/ MaxOrder(c) \/ InsertSubTask(c)
    \/ Reorder(c) \/ CheckOrder(c) \/ UpdateOrderIndices(c)
    \/ EditSubTask(c) \/ WriteSubTask(c) \/ DeleteSubTask(c)
    \/ CreateEpisode(c) \/ InsertEpisode(c)

Spec == Init /\ [][Next]_vars

-----------------------------------------------------------------------------
(* What must hold.                                                         *)

TypeOK ==
    /\ version \in Seq(VersionRow)
    /\ Len(version) <= MaxVersions
    /\ \A v \in DOMAIN version : DOMAIN version[v].subTasks \subseteq 1 .. version[v].made

PlacesShared(list) == \E j, k \in DOMAIN list : j # k /\ list[j].order = list[k].order

\* Two subtasks of a version come to share a place only by a reordering that names
\* one twice, though they are created, deleted, reordered and copied at once: max +
\* 1 is taken under the lock, and a copy shares no place that its base does not.
PlacesStayDistinct ==
    [][\A v \in DOMAIN version' : PlacesShared(version'[v].subTasks) =>
         \/ v \in DOMAIN version /\ PlacesShared(version[v].subTasks)
         \/ v \notin DOMAIN version /\ \E base \in DOMAIN version : PlacesShared(version[base].subTasks)
         \/ \E c \in Clients : /\ At(c, "writeOrder") /\ work[c].version = v
                               /\ ~IsInjective(work[c].list)]_vars

\* No subtask is added to an approved version or moved in it, whatever its
\* editors had begun before: they hold the row the approval must update.
ApprovedListFrozen ==
    [][\A v \in DOMAIN version : version[v].status = "approved" =>
         \A k \in DOMAIN version'[v].subTasks :
             /\ k \in DOMAIN version[v].subTasks
             /\ version'[v].subTasks[k].order = version[v].subTasks[k].order]_vars

\* The subtasks of an episode stay in their version, and in their places, though a
\* request that found the version a draft may still be about to delete one.
RecordedSubTasksStay ==
    [][\A v \in DOMAIN version : \A k \in version[v].recorded :
         /\ k \in DOMAIN version'[v].subTasks
         /\ version'[v].subTasks[k].order = version[v].subTasks[k].order]_vars

\* "1: Approved - Version is approved, locked for data collection"
\* (openapi/openapi.yaml:3378): nothing of an approved version is edited.
ApprovedIsLocked ==
    [][\A v \in DOMAIN version : version[v].status = "approved" =>
         /\ version'[v].targets = version[v].targets
         /\ version'[v].parameters = version[v].parameters
         /\ version'[v].subTasks = version[v].subTasks]_vars
=============================================================================
