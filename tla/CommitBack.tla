----------------------------- MODULE CommitBack -----------------------------
(***************************************************************************)
(* workspace.py: the diff of an isolated workspace is written into the     *)
(* real project as a file transaction, while a human may be editing the    *)
(* same files.  Every action is one thing the process does to the disk, so *)
(* that a human edit, or the death of the process, can come in between.    *)
(*                                                                         *)
(* A file's content is only as fine as who wrote it last: "base" before    *)
(* the first invocation, "agent", or one of two human versions.  Deletions *)
(* and additions are contents like any other.                              *)
(***************************************************************************)
EXTENDS Integers, FiniteSets

CONSTANTS
  File,      \* files of the project
  Allowed,   \* those that allowed_paths and expected_outputs match
  Editable   \* bound: those a human edits meanwhile

ASSUME FileAssumption ==
  IsFiniteSet(File) /\ Allowed \subseteq File /\ Editable \subseteq File

VARIABLES
  project,   \* content of each file of the real project
  edited,    \* history: the human edit of each file since the baseline
  baseline,  \* what the files were when the workspace was made
  diff,      \* the files the Agent changed in the workspace
  backup,    \* the contents apply_validated_diff can go back to
  todo,      \* the files the loop it is in has still to handle
  pc         \* what the process does next; "idle" when there is none

commitVars == <<project, edited, baseline, diff, backup, todo, pc>>

HumanContent == {"human", "human2"}
Content == HumanContent \cup {"base", "agent"}

\* A human edit comes either while checks are still ahead of it ("seen"), or
\* after the last of them ("raced"); "undone" takes the file back.
Edit == {"none", "seen", "raced", "undone"}

\* From the last check of the targets to the end of the transaction.
CommitPhases == {"backup", "write", "restore", "unwind"}

-----------------------------------------------------------------------------
(* Preconditions *)

\* A target of the diff is not what the workspace was made from.
TargetDrift == \E f \in diff : project[f] # baseline[f]

\* A current target of the stage is not, whether the Agent changed it or not.
CurrentTargetDrift == \E f \in Allowed : project[f] # baseline[f]

\* Every path of the diff must match an allowed pattern.
InScope == diff \subseteq Allowed

\* Faulty variants: one of the preconditions is not looked at.
PassesUnscoped == ~TargetDrift
PassesDrifted == InScope

Passes == ~TargetDrift /\ InScope

\* target_unchanged and the loop over the targets; nothing is written yet.
\* What each refusal does is the caller's.
EnterCommit ==
  /\ pc = "commit" /\ Passes
  /\ pc' = "backup"
  /\ UNCHANGED <<project, edited, baseline, diff, backup, todo>>

-----------------------------------------------------------------------------
(* The transaction *)

\* The contents of now, which need no longer be those that were checked.
TakeBackups ==
  /\ pc = "backup"
  /\ backup' = project /\ todo' = diff /\ pc' = "write"
  /\ UNCHANGED <<project, edited, baseline, diff>>

\* os.replace puts the workspace's file in place, whatever is there.
WriteFile ==
  /\ pc = "write"
  /\ \E f \in todo :
       /\ project' = [project EXCEPT ![f] = "agent"]
       /\ todo' = todo \ {f}
  /\ UNCHANGED <<edited, baseline, diff, backup, pc>>

Raise(phase) == pc' = phase /\ todo' = diff
                /\ UNCHANGED <<project, edited, baseline, diff, backup>>

\* A file cannot be written: it is no regular file (WorkspaceError, after
\* which the invocation is refused), or the disk fails (OSError).
WriteFails ==
  /\ pc = "write" /\ todo # {}
  /\ Raise("restore") \/ Raise("unwind")

\* The fingerprints after the last write decide.
CheckWritten ==
  /\ pc = "write" /\ todo = {}
  /\ \/ /\ \A f \in diff : project[f] = "agent"
        /\ pc' = "discard"
        /\ UNCHANGED <<project, edited, baseline, diff, backup, todo>>
     \/ /\ \E f \in diff : project[f] # "agent"
        /\ Raise("restore")

\* Faulty variants: the file is left as it is; the loop does not go on.
RestoreForgets ==
  /\ pc \in {"restore", "unwind"}
  /\ \E f \in todo : todo' = todo \ {f}
  /\ UNCHANGED <<project, edited, baseline, diff, backup, pc>>

RestoreRepeats ==
  /\ pc \in {"restore", "unwind"}
  /\ \E f \in todo : project' = [project EXCEPT ![f] = backup[f]]
  /\ UNCHANGED <<edited, baseline, diff, backup, todo, pc>>

\* Every target is put back, whether it was written or not.  Bound: a file
\* that cannot be put back, whose error is dropped, is left out.
RestoreFile ==
  /\ pc \in {"restore", "unwind"}
  /\ \E f \in todo :
       /\ project' = [project EXCEPT ![f] = backup[f]]
       /\ todo' = todo \ {f}
  /\ UNCHANGED <<edited, baseline, diff, backup, pc>>

\* Then the error goes on: a WorkspaceError to the caller, an OSError
\* through it, which ends the process.
Restored ==
  /\ pc \in {"restore", "unwind"} /\ todo = {}
  /\ pc' = IF pc = "restore" THEN "refused" ELSE "idle"
  /\ UNCHANGED <<project, edited, baseline, diff, backup, todo>>

Commit == \/ EnterCommit \/ TakeBackups \/ WriteFile \/ WriteFails
          \/ CheckWritten \/ RestoreFile \/ Restored

-----------------------------------------------------------------------------
\* A human saves a file of the real project.
HumanEdits ==
  /\ \E f \in Editable : \E content \in HumanContent \ {project[f]} :
       /\ project' = [project EXCEPT ![f] = content]
       /\ edited' = [edited EXCEPT ![f] =
                       IF content = baseline[f] THEN "undone"
                       ELSE IF pc \in CommitPhases THEN "raced" ELSE "seen"]
  /\ UNCHANGED <<baseline, diff, backup, todo, pc>>

=============================================================================
