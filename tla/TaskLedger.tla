----------------------------- MODULE TaskLedger -----------------------------
(***************************************************************************)
(* What the control plane promises about the tasks of a workflow, and      *)
(* nothing else: one task is worked on at a time, work on a task begins    *)
(* when the tasks it depends on are completed, a task is completed by the  *)
(* work on it, and a completed task is reopened only by a change of the    *)
(* authority it was built from.                                            *)
(***************************************************************************)
CONSTANTS Task, Dependencies, None

VARIABLES
  done,     \* completed tasks
  active    \* the task being worked on, or None

vars == <<done, active>>

Init == done = {} /\ active = None

\* Taking up a task; a review or a patch may leave it and come back to it.
Begin(t) ==
  /\ Dependencies[t] \subseteq done /\ t \notin done
  /\ active' = t
  /\ UNCHANGED done

Suspend == active' = None /\ UNCHANGED done

\* The task is completed; the next may be taken up in the same step.
Complete(t) ==
  /\ active = t
  /\ done' = done \cup {t}
  /\ active' = None \/ \E u \in Task \ done' : /\ Dependencies[u] \subseteq done'
                                               /\ active' = u

\* A change of authority takes completed tasks back; no task is active then.
Reopen(S) ==
  /\ active = None
  /\ done' = done \ S
  /\ active' = None \/ \E u \in Task \ done' : /\ Dependencies[u] \subseteq done'
                                               /\ active' = u

Next == \/ \E t \in Task : Begin(t) \/ Complete(t)
        \/ Suspend
        \/ \E S \in SUBSET Task : Reopen(S)

Spec == Init /\ [][Next]_vars

=============================================================================
