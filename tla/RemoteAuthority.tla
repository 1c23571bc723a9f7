--------------------------- MODULE RemoteAuthority ---------------------------
(***************************************************************************)
(* The submitted Human Guide.  A branch of a remote repository holds what  *)
(* humans submit; a scan compares it with the authority ledger and opens a *)
(* change, or rolls the candidate of an open change over to the newer      *)
(* submission.  The change is analysed and accepted at once or offered to  *)
(* a human.                                                                *)
(*                                                                         *)
(* Every file is written on its own, a process can die between any two     *)
(* writes, and a scan happens in steps and decisions of cwo as well as in  *)
(* cwo authority check and watch.  A process computes what it writes when  *)
(* it has scanned and then writes one file after the other.                *)
(*                                                                         *)
(* A typed workflow whose remote can be reached, with one guide and with   *)
(* its baseline observed before.  Left out: the remote state file, which   *)
(* is only reported, Authority Sets, the artifacts (ArtifactPipeline) and  *)
(* the retries of refused outcomes (Orchestrator).                         *)
(***************************************************************************)
EXTENDS Integers, Sequences

CONSTANTS
  Content,     \* what is submitted
  Change,      \* change ids; bound: the changes that are opened
  None,
  MaxSubmissions,  \* bound: how often the branch moves
  MaxCrashes,  \* bound: how often a process dies
  Exclusive    \* no two processes at the same time; nothing enforces it

ASSUME RemoteAssumption ==
  /\ None \notin Content \cup Change
  /\ MaxSubmissions \in Nat /\ MaxCrashes \in Nat /\ Exclusive \in BOOLEAN

VARIABLES
  branch,   \* content of the guide at the head of the branch
  submissions,
  ledger,   \* authority ledger, the entry of the guide
  files,    \* authority/changes/<id>.json
  notes,    \* decisions/<id>.json
  record,   \* state.json
  pc, mem,  \* of each process: where it is, the record in its memory
  writes,   \* what it still has to write
  answer,   \* the decision that cwo decide answers
  crashes

disk == <<ledger, files, notes, record>>
vars == <<branch, submissions, ledger, files, notes, record, pc, mem, writes, answer, crashes>>

Process == {"cwo", "check"}
Maybe(S) == S \cup {None}

\* _human_guide_decision_id: without a hash for the first revision of a change.
Decision == Change \X Maybe(Content)
IdOf(c, revision) == <<c, IF revision.rolled THEN revision.candidate ELSE None>>

NoRevision == [candidate |-> None, rolled |-> FALSE, meaning |-> "OPEN"]
NoDecision == [status |-> "NONE", of |-> None]

-----------------------------------------------------------------------------
(* remote.py *)

\* The writes of one file each.
ToLedger(entry)  == [file |-> "ledger", entry |-> entry]
ToChange(c, rev) == [file |-> "change", id |-> c, revision |-> rev]
ToNotes(all)     == [file |-> "decision", decisions |-> all]
ToRecord(r)      == [file |-> "record", record |-> r]

Pending == ledger.status # "ACCEPTED" /\ ledger.change # None

SameCandidate == ledger.candidate = branch

\* Faulty variant: a pending change keeps its first candidate.
NeverRolls == FALSE

\* _rollover_pending_candidate applies.
RollsOver == files[ledger.change].candidate \notin {None, branch, ledger.accepted}

\* Faulty variant: the decisions about the old candidate stay.
SupersededNone(m, c, old) == {}

\* _supersede_candidate_decisions: a decision file goes before the record.
Superseded(m, c, old) ==
  {d \in Decision :
     LET known == IF notes[d].status = "NONE" THEN m.decisions[d] ELSE notes[d]
     IN d[1] = c /\ known = [status |-> "PENDING", of |-> old]}

Withdrawn(decisions, gone, old) ==
  [d \in Decision |-> IF d \in gone THEN [status |-> "SUPERSEDED", of |-> old]
                      ELSE decisions[d]]

Unscanned(m) == [found |-> {}, mem |-> m, files |-> files, notes |-> notes,
                 ledger |-> ledger, writes |-> <<>>]

\* _rollover_pending_candidate: every file is replaced, the record last.
Rollover(m) ==
  LET c    == ledger.change
      old  == files[c].candidate
      gone == Superseded(m, c, old)
      new  == [candidate |-> branch, rolled |-> TRUE, meaning |-> "OPEN"]
      next == [ledger EXCEPT !.candidate = branch, !.status = "CHANGE_PENDING"]
      kept == [m EXCEPT !.changes[c] = new,
                        !.decisions = Withdrawn(@, gone, old)]
  IN [found |-> {c}, mem |-> kept, files |-> [files EXCEPT ![c] = new],
      notes |-> Withdrawn(notes, gone, old), ledger |-> next,
      writes |-> (IF gone = {} THEN <<>> ELSE <<ToNotes(Withdrawn(notes, gone, old))>>)
                 \o <<ToChange(c, new), ToLedger(next), ToRecord(kept)>>]

\* Faulty variant: the entry forgets the change it waits for.
NewerForgets(m) ==
  LET next == [ledger EXCEPT !.status = "NEWER_REMOTE_REVISION_AVAILABLE",
                             !.change = None]
  IN [Unscanned(m) EXCEPT !.ledger = next, !.writes = <<ToLedger(next)>>]

\* The submission cannot replace the candidate: it is only noted.
Newer(m) ==
  LET next == [ledger EXCEPT !.status = "NEWER_REMOTE_REVISION_AVAILABLE"]
  IN [Unscanned(m) EXCEPT
        !.found = {c \in {ledger.change} : files[c].candidate # None},
        !.ledger = next, !.writes = <<ToLedger(next)>>]

NewChange(m, c) ==
  LET new  == [NoRevision EXCEPT !.candidate = branch]
      next == [ledger EXCEPT !.candidate = branch, !.status = "CHANGE_PENDING",
                             !.change = c]
  IN [Unscanned(m) EXCEPT !.found = {c}, !.files[c] = new, !.ledger = next,
        !.writes = <<ToChange(c, new), ToLedger(next)>>]

\* Change ids are drawn at random: none that is or is going to be a file.
Unused ==
  {c \in Change :
     /\ files[c].candidate = None
     /\ \A p \in Process : \A i \in DOMAIN writes[p] :
          writes[p][i].file = "change" => writes[p][i].id # c}

\* check_remote_authority.  A branch that is back at what is accepted leaves
\* a pending change alone, and the scan does not report it.
Scan(m) ==
  IF branch = ledger.accepted THEN Unscanned(m)
  ELSE IF Pending /\ SameCandidate
    THEN [Unscanned(m) EXCEPT !.found =
            {c \in {ledger.change} : files[c].candidate # None}]
  ELSE IF Pending THEN IF RollsOver THEN Rollover(m) ELSE Newer(m)
  ELSE IF Unused = {} THEN Unscanned(m)
  ELSE NewChange(m, CHOOSE c \in Unused : TRUE)

-----------------------------------------------------------------------------
(* The processes *)

Idle == [p \in Process |-> "idle"]

Init ==
  /\ branch \in Content /\ submissions = 0
  /\ ledger = [accepted |-> branch, candidate |-> branch, status |-> "ACCEPTED",
               change |-> None]
  /\ files = [c \in Change |-> NoRevision]
  /\ notes = [d \in Decision |-> NoDecision]
  /\ record = [stage |-> "READY", current |-> None,
               changes |-> [c \in Change |-> NoRevision],
               decisions |-> [d \in Decision |-> NoDecision], adrs |-> {}]
  /\ pc = Idle /\ mem = [p \in Process |-> record]
  /\ writes = [p \in Process |-> <<>>]
  /\ answer = <<>> /\ crashes = 0

\* Only a scan reads the branch: a submission at any other point has the effect
\* of one at the next point before a scan.
BeforeScan == \A p \in Process : writes[p] = <<>> /\ pc[p] \notin {"work", "end"}

Submit ==
  /\ BeforeScan /\ submissions < MaxSubmissions
  /\ branch' \in Content \ {branch} /\ submissions' = submissions + 1
  /\ UNCHANGED <<disk, pc, mem, writes, answer, crashes>>

MayStart(p) == pc[p] = "idle" /\ (Exclusive => pc = Idle)

\* The record is loaded before the branch is fetched.
Load(p, at) ==
  /\ MayStart(p)
  /\ pc' = [pc EXCEPT ![p] = at] /\ mem' = [mem EXCEPT ![p] = record]
  /\ UNCHANGED <<branch, submissions, disk, writes, crashes>>

StartCheck == Load("check", "scan") /\ UNCHANGED answer
StartStep  == Load("cwo", "gate") /\ UNCHANGED answer
StartDecide ==
  /\ Load("cwo", "decide")
  /\ \E d \in Decision : record.decisions[d].status = "PENDING" /\ answer' = d

\* What is left to do is to write, and then to go on at a point, with m.
Plan(p, m, todo, at) ==
  /\ writes' = [writes EXCEPT ![p] = todo]
  /\ pc' = [pc EXCEPT ![p] = at] /\ mem' = [mem EXCEPT ![p] = m]
  /\ UNCHANGED <<branch, submissions, disk, answer, crashes>>

Write(p) ==
  /\ writes[p] # <<>>
  /\ LET w == Head(writes[p]) IN
       /\ ledger' = IF w.file = "ledger" THEN w.entry ELSE ledger
       /\ files'  = IF w.file = "change" THEN [files EXCEPT ![w.id] = w.revision] ELSE files
       /\ notes'  = IF w.file = "decision" THEN w.decisions ELSE notes
       /\ record' = IF w.file = "record" THEN w.record ELSE record
  /\ writes' = [writes EXCEPT ![p] = Tail(@)]
  /\ UNCHANGED <<branch, submissions, pc, mem, answer, crashes>>

Return(p) ==
  /\ pc[p] = "end" /\ writes[p] = <<>>
  /\ pc' = [pc EXCEPT ![p] = "idle"] /\ mem' = [mem EXCEPT ![p] = record]
  /\ answer' = IF p = "cwo" THEN <<>> ELSE answer
  /\ UNCHANGED <<branch, submissions, disk, writes, crashes>>

Crash(p) ==
  /\ pc[p] # "idle" /\ crashes < MaxCrashes
  /\ crashes' = crashes + 1
  /\ pc' = [pc EXCEPT ![p] = "idle"] /\ mem' = [mem EXCEPT ![p] = record]
  /\ writes' = [writes EXCEPT ![p] = <<>>]
  /\ answer' = IF p = "cwo" THEN <<>> ELSE answer
  /\ UNCHANGED <<branch, submissions, disk>>

At(p, at) == pc[p] = at /\ writes[p] = <<>>

\* cwo authority check, or one round of watch.
CheckBranch ==
  /\ At("check", "scan")
  /\ LET s == Scan(mem["check"]) IN Plan("check", s.mem, s.writes, "end")

\* Where a step goes on behind the gate.  At a human gate there is nothing to do,
\* and a wait is rescheduled without an audit.
Onward(m) ==
  IF m.stage = "AUTHORITY_CHANGE_ANALYSIS" THEN {"audit"} ELSE {"audit", "work", "end"}

\* _authority_gate.  The step ends when it registers a change.
Gate ==
  /\ At("cwo", "gate")
  /\ LET s      == Scan(mem["cwo"])
         merged == [c \in Change |-> IF c \in s.found THEN s.files[c]
                                     ELSE s.mem.changes[c]]
         open   == {c \in s.found : s.mem.changes[c].meaning = "OPEN"}
     IN IF open # {} /\ s.mem.stage # "AUTHORITY_CHANGE_ANALYSIS"
          THEN \E c \in open :
                 LET r == [s.mem EXCEPT !.stage = "AUTHORITY_CHANGE_ANALYSIS",
                                        !.current = c, !.changes = merged]
                 IN Plan("cwo", r, Append(s.writes, ToRecord(r)), "end")
        ELSE IF open # {} /\ merged # s.mem.changes
          THEN LET r == [s.mem EXCEPT !.changes = merged]
               IN Plan("cwo", r, Append(s.writes, ToRecord(r)), "end")
        ELSE \E at \in Onward(s.mem) : Plan("cwo", s.mem, s.writes, at)

\* _audit_gate, which scans again, with a record that it loads itself: what this
\* scan changes in the record is not in the memory of the step.
Audit ==
  /\ At("cwo", "audit")
  /\ Plan("cwo", mem["cwo"], Scan(record).writes, "work")

\* The step of a stage saves the record from its memory; at the analysis an
\* Agent reads the candidate of that record.
Work ==
  /\ At("cwo", "work")
  /\ Plan("cwo", mem["cwo"], <<ToRecord(mem["cwo"])>>,
          IF mem["cwo"].stage = "AUTHORITY_CHANGE_ANALYSIS" THEN "agent" ELSE "end")

\* Faulty variant: the outcome may be about a candidate that has been replaced.
RegisteredChange(s, c, candidate) == c \in s.found

\* The scan confirms that the change is pending, with the same candidate.
Registered(s, c, candidate) == c \in s.found /\ s.files[c].candidate = candidate

\* _accept_nonsemantic_authority_revision, for C0 and C1.
AcceptMinor(s, c, revision) ==
  LET r == [s.mem EXCEPT !.stage = "READY", !.changes[c] = revision]
  IN Plan("cwo", r,
       s.writes \o <<ToChange(c, revision),
         ToLedger([accepted |-> revision.candidate, candidate |-> revision.candidate,
                   status |-> "ACCEPTED", change |-> c]),
         ToRecord(r)>>, "end")

\* _start_typed_authority_propagation, for C2 to C4.
OfferMajor(s, c, revision) ==
  LET d     == IdOf(c, revision)
      offer == [status |-> "PENDING", of |-> revision.candidate]
      asked == s.mem.decisions[d].status = "PENDING"
      r == [s.mem EXCEPT !.stage = "READY", !.changes[c] = revision,
                         !.decisions[d] = IF asked THEN @ ELSE offer]
  IN Plan("cwo", r,
       s.writes \o <<ToChange(c, revision),
         ToLedger([s.ledger EXCEPT !.status = "CHANGE_PENDING", !.change = c])>>
       \o (IF asked THEN <<>> ELSE <<ToNotes([s.notes EXCEPT ![d] = offer])>>)
       \o <<ToRecord(r)>>, "end")

\* _apply_authority_analysis; a refused outcome leaves the stage as it is.
Analyse ==
  /\ At("cwo", "agent")
  /\ LET c    == mem["cwo"].current
         told == mem["cwo"].changes[c].candidate
         s    == Scan(mem["cwo"])
     IN IF ~Registered(s, c, told)
          THEN Plan("cwo", s.mem, Append(s.writes, ToRecord(s.mem)), "end")
          ELSE \/ AcceptMinor(s, c, [s.mem.changes[c] EXCEPT !.meaning = "MINOR"])
               \/ OfferMajor(s, c, [s.mem.changes[c] EXCEPT !.meaning = "MAJOR"])

\* decide and _promote_typed_human_guide.  The scan is given the record in
\* which the decision is answered already.
Decide ==
  /\ At("cwo", "decide")
  /\ LET c == answer[1]
         revision == mem["cwo"].changes[c]
         answered == [mem["cwo"] EXCEPT !.stage = "READY", !.adrs = @ \cup {answer},
                                        !.decisions[answer].status = "RESOLVED"]
         s == Scan(answered)
     IN IF ~Registered(s, c, revision.candidate)
          THEN Plan("cwo", s.mem, s.writes, "end")
          ELSE LET r == [s.mem EXCEPT !.changes[c] = revision] IN
               Plan("cwo", r,
                 s.writes \o
                 <<ToLedger([s.ledger EXCEPT !.accepted = revision.candidate,
                                             !.status = "ACCEPTED", !.change = c]),
                   ToChange(c, revision),
                   ToNotes([s.notes EXCEPT ![answer] = r.decisions[answer]]),
                   ToRecord(r)>>, "end")

-----------------------------------------------------------------------------
Progress(p) == Write(p) \/ Return(p)
Go == CheckBranch \/ Gate \/ Audit \/ Work \/ Analyse \/ Decide
Start == StartCheck \/ StartStep

Next == \/ Submit \/ Start \/ StartDecide \/ Go
        \/ \E p \in Process : Write(p) \/ Return(p) \/ Crash(p)

Spec == Init /\ [][Next]_vars

\* A watch or a run goes on polling, and what was started goes on.
FairSpec == Spec /\ WF_vars(Start) /\ WF_vars(Go)
                 /\ \A p \in Process : WF_vars(Progress(p))

-----------------------------------------------------------------------------
(* Properties *)

Revisions == [candidate : Maybe(Content), rolled : BOOLEAN,
              meaning : {"OPEN", "MINOR", "MAJOR"}]
Decisions == [Decision -> [status : {"NONE", "PENDING", "RESOLVED", "SUPERSEDED"},
                           of : Maybe(Content)]]
Entries ==
  [accepted : Content, candidate : Content, status : {"ACCEPTED"}, change : Maybe(Change)]
  \cup [accepted : Content, candidate : Content, change : Change,
        status : {"CHANGE_PENDING", "NEWER_REMOTE_REVISION_AVAILABLE"}]
Records == [stage : {"READY", "AUTHORITY_CHANGE_ANALYSIS"}, current : Maybe(Change),
            changes : [Change -> Revisions], decisions : Decisions,
            adrs : SUBSET Decision]

\* Every variable keeps to its set of values; an entry that is not accepted names
\* the change it waits for.
TypeOK ==
  /\ branch \in Content /\ submissions \in 0 .. MaxSubmissions
  /\ ledger \in Entries /\ files \in [Change -> Revisions]
  /\ notes \in Decisions /\ record \in Records
  /\ pc \in [Process -> {"idle", "scan", "gate", "audit", "work", "agent", "decide", "end"}]
  /\ mem \in [Process -> Records]
  /\ answer \in Decision \cup {<<>>} /\ crashes \in 0 .. MaxCrashes

\* A decision is withdrawn in its file, and the record does not know: the step that
\* was at work when its audit rolled the candidate over has saved the older record
\* (SkippedRevision.cfg).
WithdrawnOnFile(d) ==
  notes[d].status = "SUPERSEDED" /\ record.decisions[d].status # "SUPERSEDED"

\* Without a crash the ledger accepts only what is approved at that moment: the
\* candidate the answered decision is about, or the one whose analysis found
\* nothing to decide.  Neither a submission nor a rollover comes in between.  The
\* answer to a decision that is withdrawn in its file only is excepted.
AcceptsOnlyApproved ==
  [][crashes = 0 /\ ledger'.accepted # ledger.accepted =>
       IF answer # <<>>
         THEN \/ WithdrawnOnFile(answer)
              \/ notes[answer] = [status |-> "PENDING", of |-> ledger'.accepted]
         ELSE LET revision == files[ledger'.change] IN
              revision.candidate = ledger'.accepted /\ revision.meaning = "MINOR"]_vars

\* What the ledger accepts is the candidate in the file of its change and stays
\* it: an accepted change is never rolled over, whatever crashes.
AcceptedIsOnFile ==
  ledger.status = "ACCEPTED" /\ ledger.change # None =>
    files[ledger.change].candidate = ledger.accepted

\* Without a crash the files agree whenever no process is at work: the pending
\* change has one candidate, and what is analysed on file is in the record.  The
\* record may only be behind a candidate that is not analysed yet.
FilesAgree ==
  crashes = 0 /\ pc = Idle /\ Pending =>
    LET c == ledger.change IN
    /\ files[c].candidate = ledger.candidate
    /\ record.changes[c] = files[c] \/ files[c].meaning = "OPEN"

\* Without a crash, a decision that waits for an answer and is not withdrawn in its
\* file is about the candidate that its change has now, in the record and on file.
OfferIsCurrent ==
  crashes = 0 /\ pc = Idle =>
    \A d \in Decision : record.decisions[d].status = "PENDING" /\ ~WithdrawnOnFile(d) =>
      /\ notes[d] = record.decisions[d]
      /\ record.changes[d[1]] = files[d[1]]
      /\ files[d[1]].candidate = notes[d].of /\ files[d[1]].meaning = "MAJOR"

ChangesUsedUp == Unused = {} /\ ~Pending

\* A submission that stays at the head of the branch is accepted or becomes the
\* candidate of the pending change: in the ledger or, after a crash, at least in
\* the file of the change.
NewestIsRegistered ==
  \A content \in Content :
    <>[](branch = content) =>
      <>[](\/ ledger.accepted = content \/ ChangesUsedUp
           \/ /\ Pending
              /\ content \in {ledger.candidate, files[ledger.change].candidate}
              /\ crashes = 0 => ledger.candidate = files[ledger.change].candidate)

-----------------------------------------------------------------------------
(* What the source says and these instances refute *)

\* _human_guide_decision_id: a historical decision is never mistaken for the
\* approval of a later revision.
NoHistoricalApproval ==
  [][answer # <<>> /\ ledger'.accepted # ledger.accepted =>
       record.decisions[answer].of = ledger'.accepted]_vars

\* docs/adr/ADR-006: a new revision must go through the analysis again.  No step
\* goes on with other work while the candidate it has found is not analysed.
NewRevisionIsAnalysed ==
  [][/\ pc["cwo"] = "gate" /\ pc'["cwo"] \in {"audit", "work"}
     /\ mem["cwo"].stage # "AUTHORITY_CHANGE_ANALYSIS"
     /\ Pending /\ SameCandidate
     => files[ledger.change].meaning # "OPEN"]_vars

\* decide: a rejected promotion leaves no false answer behind.
NoFalseAnswer ==
  pc = Idle =>
    \A d \in record.adrs : record.decisions[d].status = "RESOLVED"

\* docs/architecture.md: a valid outcome left behind is reconciled; no change
\* is still analysed that the ledger has accepted.
AnalysisIsReconciled ==
  pc = Idle /\ record.stage = "AUTHORITY_CHANGE_ANALYSIS" =>
    ~(ledger.change = record.current /\ ledger.status = "ACCEPTED")

\* An accepted revision is replaced, never lost: the ledger does not return to
\* a revision without a change that says so.
AcceptedStays ==
  [][ledger'.accepted # ledger.accepted => ledger'.status = "ACCEPTED"]_vars
=============================================================================
