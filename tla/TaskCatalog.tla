---------------------------- MODULE TaskCatalog ----------------------------
(***************************************************************************)
(* The tasks of an organization and their tags: people create, change and  *)
(* delete tasks (internal/usecase/task.go) and import files of them        *)
(* (internal/usecase/task_import.go).  An import reads the names and tags  *)
(* it needs to judge its rows, and inserts the valid ones later, in one    *)
(* transaction.  No index keeps names or tags of a task apart.             *)
(*                                                                         *)
(* A step is one statement, or the statements of a transaction from its    *)
(* first write to its commit, none of which others see.  The versions that *)
(* are created with a task are TaskDrafts', its status is TaskUsecase's.   *)
(***************************************************************************)
EXTENDS Naturals, Sequences, Bags, SequencesExt

CONSTANTS
    People,         \* requests being served at once
    Names,          \* names of tasks
    Tags,           \* names of tags
    Files,          \* what people import
    Serial,         \* people import one at a time
    MaxTasks        \* bound: tasks ever created

\* A row is faulty for a number, field or URL that is not one; a deadline that is
\* missing is not a fault.
FileRow == [name : Names, tags : SUBSET Tags, categories : SUBSET Tags,
            sound : BOOLEAN, deadline : BOOLEAN]

ASSUME CatalogAssumption ==
    /\ Files \subseteq Seq(FileRow)
    /\ Serial \in BOOLEAN /\ MaxTasks \in Nat

VARIABLES
    task,       \* the tasks, in order of creation; there: not deleted
    tag,        \* the tags that exist
    job         \* of each person: the step the request is at, and what it carries

catalogVars == <<task, tag, job>>

\* The tags a task has are rows of a table without a key; want: those that the
\* last request about them named.
NewTask(name, tags, imported) ==
    [there |-> TRUE, name |-> name, tags |-> tags, want |-> tags, imported |-> imported]

NoJob == [step |-> "none"]

Begins(p)     == job[p] = NoJob
Proceed(p, j) == job' = [job EXCEPT ![p] = j]
Answer(p)     == Proceed(p, NoJob)

NamesTaken == {task[i].name : i \in {j \in DOMAIN task : task[j].there}}

\* Mistake: the tags are replaced without the row of the task.
NeverLocked(i) == FALSE

\* Some transaction has updated the row of the task.
RowLocked(i) == \E p \in People : /\ job[p].step \in {"removeTags", "insertTags"}
                                  /\ job[p].task = i

-----------------------------------------------------------------------------
(* Tasks and tags.                                                         *)

CreateTag(p) ==
    /\ Begins(p)
    /\ \E t \in Tags \ tag : tag' = tag \cup {t}
    /\ UNCHANGED <<task, job>>

\* Create: any name, each tag once.
CreateTask(p) ==
    /\ Begins(p)
    /\ Len(task) < MaxTasks
    /\ \E name \in Names, tags \in SUBSET tag :
         task' = Append(task, NewTask(name, SetToBag(tags), FALSE))
    /\ UNCHANGED <<tag, job>>

\* Update without tags.  Tags alone are refused: "no fields to update".
RenameTask(p) ==
    /\ Begins(p)
    /\ \E i \in DOMAIN task, name \in Names :
         /\ task[i].there /\ ~RowLocked(i)
         /\ task' = [task EXCEPT ![i].name = name,
                                 ![i].imported = @ /\ name = task[i].name]
    /\ UNCHANGED <<tag, job>>

\* Update with tags: the row of the task first.
UpdateTask(p) ==
    /\ Begins(p)
    /\ \E i \in DOMAIN task, name \in Names, tags \in SUBSET tag :
         /\ task[i].there /\ ~RowLocked(i)
         /\ Proceed(p, [step |-> "removeTags", task |-> i, name |-> name, tags |-> SetToBag(tags)])
    /\ UNCHANGED <<task, tag>>

\* SetTaskTags: the rows that DELETE sees go, the new ones come.
RemoveTags(p) ==
    /\ job[p].step = "removeTags"
    /\ LET j == job[p]
       IN Proceed(p, [step |-> "insertTags", task |-> j.task, name |-> j.name, tags |-> j.tags,
                      removed |-> task[j.task].tags])
    /\ UNCHANGED <<task, tag>>

InsertTags(p) ==
    /\ job[p].step = "insertTags"
    /\ LET j == job[p]
       IN task' = [task EXCEPT ![j.task].name = j.name,
                               ![j.task].imported = @ /\ j.name = task[j.task].name,
                               ![j.task].tags = (@ (-) j.removed) (+) j.tags,
                               ![j.task].want = j.tags]
    /\ Answer(p)
    /\ UNCHANGED tag

\* The tags of the task go with it.
DeleteTask(p) ==
    /\ Begins(p)
    /\ \E i \in DOMAIN task :
         /\ task[i].there /\ ~RowLocked(i)
         /\ task' = [task EXCEPT ![i] = [NewTask(@.name, EmptyBag, FALSE) EXCEPT !.there = FALSE]]
    /\ UNCHANGED <<tag, job>>

-----------------------------------------------------------------------------
(* Imports.                                                                *)

Importing(p) == job[p].step \in {"readTags", "insertTasks"}

\* FindExistingNames.
ReadNames(p) ==
    /\ Begins(p)
    /\ Serial => \A q \in People : ~Importing(q)
    /\ \E file \in Files :
         Proceed(p, [step |-> "readTags", file |-> file, taken |-> NamesTaken])
    /\ UNCHANGED <<task, tag>>

Faultless(row, known) == row.sound /\ row.tags \cup row.categories \subseteq known

\* Mistake: rows are compared with the table, not with one another.
NewRows(file, taken, known) ==
    SelectSeq(file, LAMBDA row : Faultless(row, known) /\ row.name \notin taken)

\* The first faultless row of each name that the table has not.
ValidRows(file, taken, known) ==
    LET Add(rows, row) ==
            IF /\ Faultless(row, known)
               /\ row.name \notin taken
               /\ \A i \in DOMAIN rows : rows[i].name # row.name
            THEN Append(rows, row)
            ELSE rows
    IN FoldLeft(Add, << >>, file)

\* GetTagsByNames, then the verdict on every row.  A valid row without a deadline
\* is refused by InitTask, and the whole file with it.
ReadTags(p) ==
    /\ job[p].step = "readTags"
    /\ LET rows == ValidRows(job[p].file, job[p].taken, tag)
       IN IF rows = << >> \/ \E i \in DOMAIN rows : ~rows[i].deadline
          THEN Answer(p)
          ELSE Proceed(p, [step |-> "insertTasks", rows |-> rows])
    /\ UNCHANGED <<task, tag>>

\* A tag that both columns name is inserted twice.
TaskOfRow(row) == NewTask(row.name, SetToBag(row.tags) (+) SetToBag(row.categories), TRUE)

InsertTasks(p) ==
    /\ job[p].step = "insertTasks"
    /\ Len(task) + Len(job[p].rows) <= MaxTasks
    /\ task' = task \o [i \in DOMAIN job[p].rows |-> TaskOfRow(job[p].rows[i])]
    /\ Answer(p)
    /\ UNCHANGED tag

\* A statement fails: nothing is inserted.
ImportFails(p) ==
    /\ Importing(p)
    /\ Answer(p)
    /\ UNCHANGED <<task, tag>>

-----------------------------------------------------------------------------

CatalogInit ==
    /\ task = << >>
    /\ tag = {}
    /\ job = [p \in People |-> NoJob]

CatalogNext == \E p \in People :
    \/ CreateTag(p) \/ CreateTask(p) \/ RenameTask(p) \/ DeleteTask(p)
    \/ UpdateTask(p) \/ RemoveTags(p) \/ InsertTags(p)
    \/ ReadNames(p) \/ ReadTags(p) \/ InsertTasks(p) \/ ImportFails(p)

CatalogSpec == CatalogInit /\ [][CatalogNext]_catalogVars

-----------------------------------------------------------------------------
(* What must hold.                                                         *)

\* "Duplicate rows (by name) are skipped" (openapi/openapi.yaml:1349): repeating an
\* import, whole or after some of its tasks were deleted, renamed or imported from
\* another file, never gives an organization two tasks of one row's name.
OneImportedTaskPerName ==
    \A i, j \in DOMAIN task :
        /\ task[i].there /\ task[i].imported
        /\ task[j].there /\ task[j].imported
        /\ task[i].name = task[j].name
        => i = j

\* A task has exactly the tags of the last request that named any, though nothing
\* but the row of the task keeps two of them from leaving the tags of both.
TagsAsLastSet ==
    \A i \in DOMAIN task : task[i].there => task[i].tags = task[i].want
=============================================================================
