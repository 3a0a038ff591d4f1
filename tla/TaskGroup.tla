------------------------------ MODULE TaskGroup ------------------------------
(* runtime/gr/stopable_task_group.go: tasks that are added one by one and     *)
(* closed together, in goroutines of their own, under the lock of the group.  *)
EXTENDS Integers, Sequences, SequencesExt

CONSTANTS TgTasks,     \* the tasks that are added, each once
          TgStoppers   \* goroutines that call WaitStopAll or Close
ASSUME TgAssumption == "none" \notin TgStoppers

VARIABLES tgList,      \* taskList
          tgHolder,    \* the stopper that holds the lock, or "none"
          tgPending,   \* tasks whose Close runs in a goroutine of the holder
          tgClosed,    \* how often each task was closed
          tgAdded,     \* the tasks added so far
          tgStopped    \* stoppers whose call has returned, with what was added before it

tgVars == <<tgList, tgHolder, tgPending, tgClosed, tgAdded, tgStopped>>

TgInit == /\ tgList = <<>> /\ tgHolder = "none" /\ tgPending = {}
          /\ tgClosed = [t \in TgTasks |-> 0] /\ tgAdded = {} /\ tgStopped = {}

\* Faulty variant: the list is changed without the lock.
TgAddTaskUnlocked(t) == /\ t \notin tgAdded
                        /\ tgList' = Append(tgList, t) /\ tgAdded' = tgAdded \cup {t}
                        /\ UNCHANGED <<tgHolder, tgPending, tgClosed, tgStopped>>

\* AddTask works while no WaitStopAll holds the lock.
TgAddTask(t) == /\ tgHolder = "none" /\ t \notin tgAdded
                /\ tgList' = Append(tgList, t) /\ tgAdded' = tgAdded \cup {t}
                /\ UNCHANGED <<tgHolder, tgPending, tgClosed, tgStopped>>

\* WaitStopAll takes the lock and starts a goroutine for each task ...
TgStop(g) == /\ tgHolder = "none" /\ g \notin tgStopped
             /\ tgHolder' = g /\ tgPending' = ToSet(tgList)
             /\ UNCHANGED <<tgList, tgClosed, tgAdded, tgStopped>>

TgCloseTask(t) == /\ t \in tgPending
                  /\ tgPending' = tgPending \ {t}
                  /\ tgClosed' = [tgClosed EXCEPT ![t] = @ + 1]
                  /\ UNCHANGED <<tgList, tgHolder, tgAdded, tgStopped>>

\* ... waits for them, empties the list and lets go of the lock.
TgReturn == /\ tgHolder # "none" /\ tgPending = {}
            /\ tgList' = <<>> /\ tgHolder' = "none"
            /\ tgStopped' = tgStopped \cup {tgHolder}
            /\ UNCHANGED <<tgPending, tgClosed, tgAdded>>

TgNext == \/ \E t \in TgTasks : TgAddTask(t) \/ TgCloseTask(t)
          \/ \E g \in TgStoppers : TgStop(g)
          \/ TgReturn

TgSpec == TgInit /\ [][TgNext]_tgVars

(* No task is forgotten and none closed twice, with several stoppers and     *)
(* tasks added between them: what was added is on the list until a stop has  *)
(* closed it (stopable_task_group.go:49-67).                                 *)
TgKept == /\ \A t \in tgAdded : tgClosed[t] = 0 => t \in ToSet(tgList)
          /\ \A t \in TgTasks : tgClosed[t] <= 1
=============================================================================
