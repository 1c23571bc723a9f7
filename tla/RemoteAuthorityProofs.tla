------------------------ MODULE RemoteAuthorityProofs ------------------------
(***************************************************************************)
(* Proofs about RemoteAuthority, for any contents, changes, submissions    *)
(* and crashes.  A process computes its writes before it makes the first:  *)
(* what is invariant is the run of disk states they lead through, so that  *)
(* a crash may end the run anywhere.                                       *)
(***************************************************************************)
EXTENDS RemoteAuthority, SequenceTheorems, TLAPS

-----------------------------------------------------------------------------
(* The disk and the writes that are left *)

Disk == [ledger |-> ledger, files |-> files, notes |-> notes, record |-> record]

\* The disk after one write.
Wrote(d, w) ==
  [ledger |-> IF w.file = "ledger" THEN w.entry ELSE d.ledger,
   files  |-> IF w.file = "change" THEN [d.files EXCEPT ![w.id] = w.revision]
                                   ELSE d.files,
   notes  |-> IF w.file = "decision" THEN w.decisions ELSE d.notes,
   record |-> IF w.file = "record" THEN w.record ELSE d.record]

Writing ==
  [file : {"ledger"}, entry : Entries]
  \cup [file : {"change"}, id : Change, revision : Revisions]
  \cup [file : {"decision"}, decisions : Decisions]
  \cup [file : {"record"}, record : Records]

\* What is accepted is on file.
OnFile(d) ==
  d.ledger.status = "ACCEPTED" /\ d.ledger.change # None =>
    d.files[d.ledger.change].candidate = d.ledger.accepted

\* A write accepts what is approved: by the decision that is answered, or by
\* an analysis that found nothing to decide.
Approved(asked, d, e) ==
  e.ledger.accepted # d.ledger.accepted =>
    IF asked # <<>>
      THEN \/ /\ d.notes[asked].status = "SUPERSEDED"
            /\ d.record.decisions[asked].status # "SUPERSEDED"
           \/ d.notes[asked] = [status |-> "PENDING", of |-> e.ledger.accepted]
      ELSE LET revision == d.files[e.ledger.change] IN
           revision.candidate = e.ledger.accepted /\ revision.meaning = "MINOR"

\* The writes w lead from d to e, past disks whose accepted revision is on file;
\* and, without a crash, nothing is accepted on the way that is not approved.
Leads(free, asked, d, w, e) ==
  \E path :
    /\ path[0] = d /\ path[Len(w)] = e
    /\ \A i \in 1 .. Len(w) : path[i] = Wrote(path[i - 1], w[i])
    /\ \A i \in 0 .. Len(w) : OnFile(path[i])
    /\ free => \A i \in 1 .. Len(w) : Approved(asked, path[i - 1], path[i])

LEMMA NothingLeads ==
  ASSUME NEW free, NEW asked, NEW d, OnFile(d)
  PROVE  Leads(free, asked, d, <<>>, d)
<1> DEFINE path == [i \in {0} |-> d]
<1>1. path[0] = d /\ Len(<<>>) = 0 /\ 0 .. 0 = {0} /\ 1 .. 0 = {}
  OBVIOUS
<1> HIDE DEF path
<1> QED BY <1>1 DEF Leads

\* One more write at the end.
LEMMA AppendLeads ==
  ASSUME NEW S, NEW w \in Seq(S), NEW x \in S,
         NEW free, NEW asked, NEW d, NEW e, Leads(free, asked, d, w, e),
         OnFile(Wrote(e, x)), free => Approved(asked, e, Wrote(e, x))
  PROVE  Leads(free, asked, d, Append(w, x), Wrote(e, x))
<1>1. PICK path :
        /\ path[0] = d /\ path[Len(w)] = e
        /\ \A i \in 1 .. Len(w) : path[i] = Wrote(path[i - 1], w[i])
        /\ \A i \in 0 .. Len(w) : OnFile(path[i])
        /\ free => \A i \in 1 .. Len(w) : Approved(asked, path[i - 1], path[i])
  BY DEF Leads
<1> DEFINE n == Len(w)
           new == [i \in 0 .. n + 1 |-> IF i = n + 1 THEN Wrote(e, x) ELSE path[i]]
           v == Append(w, x)
<1>2. n \in Nat /\ Len(v) = n + 1
  OBVIOUS
<1>3. \A i \in 1 .. n : v[i] = w[i]
  OBVIOUS
<1>4. v[n + 1] = x
  OBVIOUS
<1>5. /\ \A i \in 0 .. n : new[i] = path[i]
      /\ new[n + 1] = Wrote(e, x)
  BY <1>2
<1> HIDE DEF new, v
<1>6. \A i \in 1 .. n + 1 : i \in 1 .. n \/ i = n + 1
  BY <1>2
<1>7. \A i \in 1 .. n + 1 : new[i] = Wrote(new[i - 1], v[i])
  <2> TAKE i \in 1 .. n + 1
  <2>1. CASE i \in 1 .. n
    <3>1. i - 1 \in 0 .. n /\ i \in 0 .. n
      BY <1>2, <2>1
    <3> QED BY <1>1, <1>3, <1>5, <2>1, <3>1
  <2>2. CASE i = n + 1
    <3>1. i - 1 = n /\ n \in 0 .. n
      BY <1>2, <2>2
    <3> QED BY <1>1, <1>4, <1>5, <2>2, <3>1
  <2> QED BY <1>6, <2>1, <2>2
<1>8. \A i \in 0 .. n + 1 : OnFile(new[i])
  <2> TAKE i \in 0 .. n + 1
  <2>1. i \in 0 .. n \/ i = n + 1
    BY <1>2
  <2> QED BY <1>1, <1>5, <2>1
<1>9. ASSUME free
      PROVE  \A i \in 1 .. n + 1 : Approved(asked, new[i - 1], new[i])
  <2> TAKE i \in 1 .. n + 1
  <2>1. CASE i \in 1 .. n
    <3>1. i - 1 \in 0 .. n /\ i \in 0 .. n
      BY <1>2, <2>1
    <3> QED BY <1>1, <1>5, <1>9, <2>1, <3>1
  <2>2. CASE i = n + 1
    <3>1. i - 1 = n /\ n \in 0 .. n
      BY <1>2, <2>2
    <3> QED BY <1>1, <1>5, <1>9, <2>2, <3>1
  <2> QED BY <1>6, <2>1, <2>2
<1>10. new[0] = d
  BY <1>1, <1>2, <1>5
<1>11. Leads(free, asked, d, v, Wrote(e, x))
  BY <1>2, <1>5, <1>7, <1>8, <1>9, <1>10 DEF Leads
<1> QED BY <1>11 DEF v

\* The first write is made.
LEMMA HeadLeads ==
  ASSUME NEW S, NEW w \in Seq(S), w # <<>>,
         NEW free, NEW asked, NEW d, NEW e, Leads(free, asked, d, w, e)
  PROVE  /\ Leads(free, asked, Wrote(d, Head(w)), Tail(w), e)
         /\ free => Approved(asked, d, Wrote(d, Head(w)))
<1>1. PICK path :
        /\ path[0] = d /\ path[Len(w)] = e
        /\ \A i \in 1 .. Len(w) : path[i] = Wrote(path[i - 1], w[i])
        /\ \A i \in 0 .. Len(w) : OnFile(path[i])
        /\ free => \A i \in 1 .. Len(w) : Approved(asked, path[i - 1], path[i])
  BY DEF Leads
<1> DEFINE n == Len(w) - 1
           v == Tail(w)
           new == [i \in 0 .. n |-> path[i + 1]]
<1>2. n \in Nat /\ Len(v) = n /\ Len(w) = n + 1 /\ Head(w) = w[1]
      /\ \A i \in 1 .. n : v[i] = w[i + 1]
  OBVIOUS
<1>3. \A i \in 0 .. n : new[i] = path[i + 1]
  OBVIOUS
<1> HIDE DEF new, v, n
<1>4. path[1] = Wrote(d, Head(w)) /\ (free => Approved(asked, d, path[1]))
  BY <1>1, <1>2
<1>5. \A i \in 1 .. n : /\ i + 1 \in 1 .. n + 1 /\ i \in 0 .. n /\ i - 1 \in 0 .. n
                        /\ (i + 1) - 1 = i /\ (i - 1) + 1 = i
  BY <1>2
<1>6. \A i \in 1 .. n : new[i] = Wrote(new[i - 1], v[i])
  BY <1>1, <1>2, <1>3, <1>5
<1>7. \A i \in 0 .. n : OnFile(new[i])
  BY <1>1, <1>2, <1>3
<1>8. free => \A i \in 1 .. n : Approved(asked, new[i - 1], new[i])
  BY <1>1, <1>2, <1>3, <1>5
<1>9. new[0] = path[1] /\ new[n] = e
  BY <1>1, <1>2, <1>3
<1>10. Leads(free, asked, path[1], v, e)
  BY <1>2, <1>6, <1>7, <1>8, <1>9 DEF Leads
<1> QED BY <1>4, <1>10 DEF v

\* Where the writes start is a disk with its accepted revision on file.
LEMMA LeadsFromOnFile ==
  ASSUME NEW S, NEW w \in Seq(S), NEW free, NEW asked, NEW d, NEW e,
         Leads(free, asked, d, w, e)
  PROVE  OnFile(d) /\ (w = <<>> => e = d)
<1>1. Len(w) \in Nat /\ 0 \in 0 .. Len(w) /\ (w = <<>> => Len(w) = 0)
  OBVIOUS
<1> QED BY <1>1 DEF Leads

\* The writes of a plan are made one after the other.
LEMMA Appended ==
  ASSUME NEW S, NEW v \in Seq(S), NEW a \in S, NEW b \in S, NEW c \in S, NEW d \in S
  PROVE  /\ v \o <<a>> = Append(v, a)
         /\ v \o <<a, b>> = Append(Append(v, a), b)
         /\ v \o <<a, b, c>> = Append(Append(Append(v, a), b), c)
         /\ v \o <<a, b, c, d>> = Append(Append(Append(Append(v, a), b), c), d)
<1>1. v \o <<a>> = Append(v, a)
  OBVIOUS
<1>2. v \o <<a, b>> = Append(Append(v, a), b)
  OBVIOUS
<1>3. v \o <<a, b, c>> = Append(Append(Append(v, a), b), c)
  OBVIOUS
<1>4. v \o <<a, b, c, d>> = Append(Append(Append(Append(v, a), b), c), d)
  OBVIOUS
<1> QED BY <1>1, <1>2, <1>3, <1>4

-----------------------------------------------------------------------------
(* Types *)

Typed ==
  /\ TypeOK
  /\ writes \in [Process -> Seq(Writing)]
  /\ pc["cwo"] = "decide" => answer \in Decision

\* The values a write puts on file.
LEMMA WritingTyped ==
  /\ \A entry \in Entries : ToLedger(entry) \in Writing
  /\ \A c \in Change, revision \in Revisions : ToChange(c, revision) \in Writing
  /\ \A all \in Decisions : ToNotes(all) \in Writing
  /\ \A r \in Records : ToRecord(r) \in Writing
BY DEF ToLedger, ToChange, ToNotes, ToRecord, Writing

LEMMA WroteTyped ==
  ASSUME TypeOK, NEW w \in Writing
  PROVE  LET d == Wrote(Disk, w) IN
         /\ d.ledger \in Entries /\ d.files \in [Change -> Revisions]
         /\ d.notes \in Decisions /\ d.record \in Records
BY DEF TypeOK, Writing, Wrote, Disk

\* Withdrawing decisions keeps them typed.
LEMMA WithdrawnTyped ==
  ASSUME NEW all \in Decisions, NEW gone, NEW old \in Maybe(Content)
  PROVE  Withdrawn(all, gone, old) \in Decisions
BY DEF Withdrawn, Decisions

\* An entry that is not accepted names its change.
LEMMA PendingEntry ==
  ASSUME NEW entry \in Entries
  PROVE  /\ entry.accepted \in Content /\ entry.candidate \in Content
         /\ entry.change \in Maybe(Change)
         /\ entry.status # "ACCEPTED" => entry.change \in Change
BY DEF Entries, Maybe

LEMMA NewRevisionTyped ==
  ASSUME NEW content \in Content, NEW rolled \in BOOLEAN
  PROVE  [candidate |-> content, rolled |-> rolled, meaning |-> "OPEN"] \in Revisions
<1>1. content \in Maybe(Content)
  BY DEF Maybe
<1> QED BY <1>1 DEF Revisions

\* The first revision of a change.
LEMMA FirstRevisionTyped ==
  ASSUME NEW content \in Content
  PROVE  LET new == [NoRevision EXCEPT !.candidate = content] IN
         new \in Revisions /\ new.candidate = content /\ new.meaning = "OPEN"
<1>1. content \in Maybe(Content) /\ None \in Maybe(Content)
  BY DEF Maybe
<1> DEFINE new == [NoRevision EXCEPT !.candidate = content]
<1>2. NoRevision \in Revisions
  BY <1>1 DEF Revisions, NoRevision
<1>3. new.candidate = content /\ new.meaning = "OPEN"
  BY DEF NoRevision
<1>4. new \in Revisions
  BY <1>1, <1>2 DEF Revisions
<1> QED BY <1>3, <1>4

\* What a scan of a process with the record m is about.
ScanTyped(s) ==
  /\ s.mem \in Records /\ s.files \in [Change -> Revisions] /\ s.ledger \in Entries
  /\ s.notes \in Decisions /\ s.writes \in Seq(Writing)
  /\ \A c \in s.found : /\ c \in Change /\ s.files[c].candidate \in Content
                         /\ s.ledger.change = c /\ s.ledger.status # "ACCEPTED"

LEMMA UnscannedTyped ==
  ASSUME TypeOK, NEW m \in Records
  PROVE  ScanTyped(Unscanned(m))
<1>1. <<>> \in Seq(Writing)
  OBVIOUS
<1> QED BY <1>1 DEF Unscanned, ScanTyped, TypeOK

LEMMA SameCandidateTyped ==
  ASSUME TypeOK, NEW m \in Records, Pending
  PROVE  ScanTyped([Unscanned(m) EXCEPT !.found =
                      {c \in {ledger.change} : files[c].candidate # None}])
<1>1. <<>> \in Seq(Writing)
  OBVIOUS
<1>2. ledger.change \in Change /\ files[ledger.change] \in Revisions
  BY PendingEntry DEF TypeOK, Pending
<1>3. files[ledger.change].candidate \in Maybe(Content)
  BY <1>2 DEF Revisions
<1> DEFINE found == {c \in {ledger.change} : files[c].candidate # None}
           s == [Unscanned(m) EXCEPT !.found = found]
<1>4. /\ s.found = found /\ s.mem = m /\ s.files = files /\ s.ledger = ledger
      /\ s.notes = notes /\ s.writes = <<>>
  BY DEF Unscanned
<1>5. \A c \in found : c = ledger.change /\ files[c].candidate \in Content
  BY <1>3 DEF Maybe
<1>6. /\ ledger.status # "ACCEPTED" /\ ledger \in Entries
      /\ files \in [Change -> Revisions] /\ notes \in Decisions
  BY DEF TypeOK, Pending
<1> HIDE DEF s, found
<1>7. ScanTyped(s)
  BY <1>1, <1>2, <1>4, <1>5, <1>6 DEF ScanTyped
<1> QED BY <1>7 DEF s, found

\* What a rollover puts on file.
LEMMA RolloverParts ==
  ASSUME TypeOK, NEW m \in Records, Pending
  PROVE  LET c    == ledger.change
             old  == files[c].candidate
             gone == Superseded(m, c, old)
             new  == [candidate |-> branch, rolled |-> TRUE, meaning |-> "OPEN"]
             next == [ledger EXCEPT !.candidate = branch, !.status = "CHANGE_PENDING"]
             kept == [m EXCEPT !.changes[c] = new, !.decisions = Withdrawn(@, gone, old)]
         IN /\ c \in Change /\ new \in Revisions /\ next \in Entries
            /\ Withdrawn(notes, gone, old) \in Decisions
            /\ kept \in Records
            /\ kept.stage = m.stage /\ kept.current = m.current
            /\ kept.changes = [m.changes EXCEPT ![c] = new]
            /\ kept.decisions = Withdrawn(m.decisions, gone, old)
            /\ next.change = c /\ next.status = "CHANGE_PENDING"
            /\ next.candidate = branch /\ next.accepted = ledger.accepted
<1> DEFINE c    == ledger.change
           old  == files[c].candidate
           gone == Superseded(m, c, old)
           new  == [candidate |-> branch, rolled |-> TRUE, meaning |-> "OPEN"]
           next == [ledger EXCEPT !.candidate = branch, !.status = "CHANGE_PENDING"]
           kept == [m EXCEPT !.changes[c] = new, !.decisions = Withdrawn(@, gone, old)]
<1>1. /\ c \in Change /\ files[c] \in Revisions /\ branch \in Content
      /\ ledger \in Entries /\ notes \in Decisions
  BY PendingEntry DEF TypeOK, Pending
<1>2. old \in Maybe(Content)
  BY <1>1 DEF Revisions
<1>3. new \in Revisions
  BY <1>1, NewRevisionTyped
<1>4. /\ next \in Entries /\ next.change = c /\ next.status = "CHANGE_PENDING"
      /\ next.candidate = branch /\ next.accepted = ledger.accepted
  BY <1>1 DEF Entries
<1>5. m.changes \in [Change -> Revisions] /\ m.decisions \in Decisions
  BY DEF Records
<1> HIDE DEF new, gone, old, c
<1>6. [m.changes EXCEPT ![c] = new] \in [Change -> Revisions]
  BY <1>3, <1>5
<1>7. /\ Withdrawn(notes, gone, old) \in Decisions
      /\ Withdrawn(m.decisions, gone, old) \in Decisions
  BY <1>1, <1>2, <1>5, WithdrawnTyped
<1>8. /\ kept.stage = m.stage /\ kept.current = m.current /\ kept.adrs = m.adrs
      /\ kept.changes = [m.changes EXCEPT ![c] = new]
      /\ kept.decisions = Withdrawn(m.decisions, gone, old)
  BY DEF Records
<1>9. kept \in Records
  BY <1>6, <1>7 DEF Records
<1> HIDE DEF kept, next
<1>10. /\ c \in Change /\ new \in Revisions /\ next \in Entries
       /\ Withdrawn(notes, gone, old) \in Decisions
       /\ kept \in Records
       /\ kept.stage = m.stage /\ kept.current = m.current
       /\ kept.changes = [m.changes EXCEPT ![c] = new]
       /\ kept.decisions = Withdrawn(m.decisions, gone, old)
       /\ next.change = c /\ next.status = "CHANGE_PENDING"
       /\ next.candidate = branch /\ next.accepted = ledger.accepted
  BY <1>1, <1>3, <1>4, <1>7, <1>8, <1>9
<1> QED BY <1>10 DEF c, old, gone, new, next, kept

LEMMA RolloverTyped ==
  ASSUME TypeOK, NEW m \in Records, Pending
  PROVE  ScanTyped(Rollover(m))
<1> DEFINE c    == ledger.change
           old  == files[c].candidate
           gone == Superseded(m, c, old)
           new  == [candidate |-> branch, rolled |-> TRUE, meaning |-> "OPEN"]
           next == [ledger EXCEPT !.candidate = branch, !.status = "CHANGE_PENDING"]
           kept == [m EXCEPT !.changes[c] = new, !.decisions = Withdrawn(@, gone, old)]
           noted == IF gone = {} THEN <<>> ELSE <<ToNotes(Withdrawn(notes, gone, old))>>
           s == Rollover(m)
<1>1. /\ c \in Change /\ new \in Revisions /\ next \in Entries
      /\ Withdrawn(notes, gone, old) \in Decisions
      /\ kept \in Records /\ next.change = c /\ next.status = "CHANGE_PENDING"
  BY RolloverParts
<1>2. new.candidate \in Content
  BY DEF TypeOK
<1>3. /\ s.found = {c} /\ s.mem = kept /\ s.files = [files EXCEPT ![c] = new]
      /\ s.ledger = next /\ s.notes = Withdrawn(notes, gone, old)
      /\ s.writes = noted \o <<ToChange(c, new), ToLedger(next), ToRecord(kept)>>
  BY DEF Rollover
<1>4. files \in [Change -> Revisions]
  BY DEF TypeOK
<1> HIDE DEF s, new, next, kept, gone, old, c
<1>5. noted \in Seq(Writing)
  BY <1>1, WritingTyped
<1>6. <<ToChange(c, new), ToLedger(next), ToRecord(kept)>> \in Seq(Writing)
  <2>1. /\ ToChange(c, new) \in Writing /\ ToLedger(next) \in Writing
        /\ ToRecord(kept) \in Writing
    BY <1>1, WritingTyped
  <2> QED BY <2>1
<1> HIDE DEF noted
<1>7. s.writes \in Seq(Writing)
  BY <1>3, <1>5, <1>6
<1>8. s.files \in [Change -> Revisions] /\ s.files[c] = new
  BY <1>1, <1>3, <1>4
<1>9. ScanTyped(s)
  BY <1>1, <1>2, <1>3, <1>7, <1>8 DEF ScanTyped
<1> QED BY <1>9 DEF s

LEMMA NewerParts ==
  ASSUME TypeOK, NEW m \in Records, Pending
  PROVE  LET next == [ledger EXCEPT !.status = "NEWER_REMOTE_REVISION_AVAILABLE"]
             s    == Newer(m)
         IN /\ s.found = {c \in {ledger.change} : files[c].candidate # None}
            /\ s.mem = m /\ s.files = files /\ s.notes = notes /\ s.ledger = next
            /\ s.writes = <<ToLedger(next)>>
            /\ next \in Entries /\ next.change = ledger.change
            /\ next.candidate = ledger.candidate /\ next.accepted = ledger.accepted
            /\ next.status = "NEWER_REMOTE_REVISION_AVAILABLE"
<1> DEFINE next == [ledger EXCEPT !.status = "NEWER_REMOTE_REVISION_AVAILABLE"]
           s    == Newer(m)
<1>1. /\ s.found = {c \in {ledger.change} : files[c].candidate # None}
      /\ s.mem = m /\ s.files = files /\ s.notes = notes /\ s.ledger = next
      /\ s.writes = <<ToLedger(next)>>
  BY DEF Newer, Unscanned
<1>2. ledger \in Entries /\ ledger.change \in Change
  BY PendingEntry DEF TypeOK, Pending
<1>3. /\ next \in Entries /\ next.change = ledger.change
      /\ next.candidate = ledger.candidate /\ next.accepted = ledger.accepted
      /\ next.status = "NEWER_REMOTE_REVISION_AVAILABLE"
  BY <1>2 DEF Entries
<1> HIDE DEF s, next
<1>4. /\ s.found = {c \in {ledger.change} : files[c].candidate # None}
      /\ s.mem = m /\ s.files = files /\ s.notes = notes /\ s.ledger = next
      /\ s.writes = <<ToLedger(next)>>
      /\ next \in Entries /\ next.change = ledger.change
      /\ next.candidate = ledger.candidate /\ next.accepted = ledger.accepted
      /\ next.status = "NEWER_REMOTE_REVISION_AVAILABLE"
  BY <1>1, <1>3
<1> QED BY <1>4 DEF s, next

LEMMA NewerTyped ==
  ASSUME TypeOK, NEW m \in Records, Pending
  PROVE  ScanTyped(Newer(m))
<1> DEFINE next == [ledger EXCEPT !.status = "NEWER_REMOTE_REVISION_AVAILABLE"]
           s    == Newer(m)
<1>1. /\ s.found = {c \in {ledger.change} : files[c].candidate # None}
      /\ s.mem = m /\ s.files = files /\ s.notes = notes /\ s.ledger = next
      /\ s.writes = <<ToLedger(next)>>
      /\ next \in Entries /\ next.change = ledger.change
      /\ next.status = "NEWER_REMOTE_REVISION_AVAILABLE"
  BY NewerParts
<1>2. ledger.change \in Change /\ files \in [Change -> Revisions] /\ notes \in Decisions
  BY PendingEntry DEF TypeOK, Pending
<1>3. files[ledger.change].candidate \in Maybe(Content)
  BY <1>2 DEF Revisions
<1> HIDE DEF s, next
<1>4. \A c \in s.found : c = ledger.change /\ files[c].candidate \in Content
  BY <1>1, <1>3 DEF Maybe
<1>5. s.writes \in Seq(Writing)
  <2>1. ToLedger(next) \in Writing
    BY <1>1, WritingTyped
  <2> QED BY <1>1, <2>1
<1>6. ScanTyped(s)
  BY <1>1, <1>2, <1>4, <1>5 DEF ScanTyped
<1> QED BY <1>6 DEF s

FirstRevision == [NoRevision EXCEPT !.candidate = branch]
FirstEntry(c) == [ledger EXCEPT !.candidate = branch, !.status = "CHANGE_PENDING",
                                !.change = c]

\* What a new change puts on file.
LEMMA NewChangeParts ==
  ASSUME TypeOK, NEW m \in Records, NEW c \in Change
  PROVE  LET new  == FirstRevision
             next == FirstEntry(c)
             s    == NewChange(m, c)
         IN /\ s.found = {c} /\ s.mem = m /\ s.files = [files EXCEPT ![c] = new]
            /\ s.notes = notes
            /\ s.ledger = next /\ s.writes = <<ToChange(c, new), ToLedger(next)>>
            /\ new \in Revisions /\ new.candidate = branch /\ new.meaning = "OPEN"
            /\ next \in Entries /\ next.change = c /\ next.status = "CHANGE_PENDING"
            /\ next.candidate = branch /\ next.accepted = ledger.accepted
<1> DEFINE new == FirstRevision  next == FirstEntry(c)  s == NewChange(m, c)
<1>1. /\ s.found = {c} /\ s.mem = m /\ s.files = [files EXCEPT ![c] = new]
      /\ s.notes = notes
      /\ s.ledger = next /\ s.writes = <<ToChange(c, new), ToLedger(next)>>
  BY DEF NewChange, Unscanned, FirstRevision, FirstEntry
<1>2. ledger \in Entries /\ branch \in Content
  BY DEF TypeOK
<1>3. new \in Revisions /\ new.candidate = branch /\ new.meaning = "OPEN"
  BY <1>2, FirstRevisionTyped DEF FirstRevision
<1>4. /\ next \in Entries /\ next.change = c /\ next.status = "CHANGE_PENDING"
      /\ next.candidate = branch /\ next.accepted = ledger.accepted
  BY <1>2 DEF Entries, FirstEntry
<1> HIDE DEF s, next, new
<1>5. /\ s.found = {c} /\ s.mem = m /\ s.files = [files EXCEPT ![c] = new]
      /\ s.notes = notes
      /\ s.ledger = next /\ s.writes = <<ToChange(c, new), ToLedger(next)>>
      /\ new \in Revisions /\ new.candidate = branch /\ new.meaning = "OPEN"
      /\ next \in Entries /\ next.change = c /\ next.status = "CHANGE_PENDING"
      /\ next.candidate = branch /\ next.accepted = ledger.accepted
  BY <1>1, <1>3, <1>4
<1> QED BY <1>5 DEF s, next, new

LEMMA NewChangeTyped ==
  ASSUME TypeOK, NEW m \in Records, NEW c \in Change
  PROVE  ScanTyped(NewChange(m, c))
<1> DEFINE new == FirstRevision  next == FirstEntry(c)  s == NewChange(m, c)
<1>1. /\ s.found = {c} /\ s.mem = m /\ s.files = [files EXCEPT ![c] = new]
      /\ s.notes = notes
      /\ s.ledger = next /\ s.writes = <<ToChange(c, new), ToLedger(next)>>
      /\ new \in Revisions /\ new.candidate = branch
      /\ next \in Entries /\ next.change = c /\ next.status = "CHANGE_PENDING"
  BY NewChangeParts
<1>2. files \in [Change -> Revisions] /\ branch \in Content /\ notes \in Decisions
  BY DEF TypeOK
<1> HIDE DEF s, next, new
<1>3. s.files \in [Change -> Revisions] /\ s.files[c] = new
  BY <1>1, <1>2
<1>4. s.writes \in Seq(Writing)
  <2>1. ToLedger(next) \in Writing /\ ToChange(c, new) \in Writing
    BY <1>1, WritingTyped
  <2> QED BY <1>1, <2>1
<1>5. ScanTyped(s)
  BY <1>1, <1>2, <1>3, <1>4 DEF ScanTyped
<1> QED BY <1>5 DEF s

\* A scan leaves everything alone, finds the pending change again, rolls it
\* over, notes a newer revision or opens a change whose file is unused.
LEMMA ScanCases ==
  ASSUME NEW m
  PROVE  \/ Scan(m) = Unscanned(m)
         \/ /\ Pending
            /\ Scan(m) = [Unscanned(m) EXCEPT !.found =
                            {c \in {ledger.change} : files[c].candidate # None}]
         \/ Pending /\ RollsOver /\ Scan(m) = Rollover(m)
         \/ Pending /\ Scan(m) = Newer(m)
         \/ \E c \in Change : ~Pending /\ files[c].candidate = None
                                 /\ Scan(m) = NewChange(m, c)
<1>1. CASE branch = ledger.accepted
  BY <1>1 DEF Scan
<1>2. CASE branch # ledger.accepted /\ Pending /\ SameCandidate
  BY <1>2 DEF Scan
<1>3. CASE branch # ledger.accepted /\ Pending /\ ~SameCandidate
  BY <1>3 DEF Scan
<1>4. CASE branch # ledger.accepted /\ ~Pending
  <2>1. Scan(m) = IF Unused = {} THEN Unscanned(m)
                  ELSE NewChange(m, CHOOSE c \in Unused : TRUE)
    BY <1>4 DEF Scan
  <2>2. Unused # {} => (CHOOSE c \in Unused : TRUE) \in Unused
    OBVIOUS
  <2>3. \A c \in Unused : c \in Change /\ files[c].candidate = None
    BY DEF Unused
  <2> QED BY <1>4, <2>1, <2>2, <2>3
<1> QED BY <1>1, <1>2, <1>3, <1>4

LEMMA ScanIsTyped ==
  ASSUME TypeOK, NEW m \in Records
  PROVE  ScanTyped(Scan(m))
BY ScanCases, UnscannedTyped, SameCandidateTyped, RolloverTyped, NewerTyped,
   NewChangeTyped

Point == {"idle", "scan", "gate", "audit", "work", "agent", "decide", "end"}

\* A process that plans its writes.
LEMMA PlanTyped ==
  ASSUME Typed, NEW p \in Process, NEW m \in Records, NEW todo \in Seq(Writing),
         NEW at \in Point, at # "decide", Plan(p, m, todo, at)
  PROVE  Typed'
<1>1. /\ UNCHANGED <<branch, submissions, ledger, files, notes, record, answer, crashes>>
      /\ writes' = [writes EXCEPT ![p] = todo]
      /\ pc' = [pc EXCEPT ![p] = at] /\ mem' = [mem EXCEPT ![p] = m]
  BY DEF Plan, disk
<1>2. pc \in [Process -> Point] /\ mem \in [Process -> Records]
  BY DEF Typed, TypeOK, Point
<1>3. pc' \in [Process -> Point] /\ (pc'["cwo"] = "decide" => pc["cwo"] = "decide")
  BY <1>1, <1>2
<1>4. mem' \in [Process -> Records]
  BY <1>1, <1>2
<1>5. writes' \in [Process -> Seq(Writing)]
  <2>1. writes \in [Process -> Seq(Writing)]
    BY DEF Typed
  <2> QED BY <1>1, <2>1
<1>6. TypeOK'
  BY <1>1, <1>3, <1>4 DEF Typed, TypeOK, Point
<1>7. pc'["cwo"] = "decide" => answer' \in Decision
  BY <1>1, <1>3 DEF Typed
<1> QED BY <1>5, <1>6, <1>7 DEF Typed

LEMMA AppendTyped ==
  ASSUME NEW v \in Seq(Writing), NEW r \in Records
  PROVE  Append(v, ToRecord(r)) \in Seq(Writing)
<1>1. ToRecord(r) \in Writing
  BY WritingTyped
<1> QED BY <1>1

LEMMA CheckTyped ==
  ASSUME Typed, CheckBranch
  PROVE  Typed'
<1> DEFINE s == Scan(mem["check"])
<1>1. "check" \in Process /\ "end" \in Point
  BY DEF Process, Point
<1>2. mem["check"] \in Records /\ TypeOK
  BY <1>1 DEF Typed, TypeOK
<1>3. s.mem \in Records /\ s.writes \in Seq(Writing)
  BY <1>2, ScanIsTyped DEF ScanTyped
<1>4. Plan("check", s.mem, s.writes, "end")
  BY DEF CheckBranch
<1> QED BY <1>1, <1>3, <1>4, PlanTyped

\* The record that a gate may save.
Merged(s) == [c \in Change |-> IF c \in s.found THEN s.files[c] ELSE s.mem.changes[c]]
Registering(s, c) == [s.mem EXCEPT !.stage = "AUTHORITY_CHANGE_ANALYSIS",
                                   !.current = c, !.changes = Merged(s)]
Merging(s) == [s.mem EXCEPT !.changes = Merged(s)]

LEMMA MergedTyped ==
  ASSUME NEW s, ScanTyped(s)
  PROVE  /\ Merged(s) \in [Change -> Revisions]
         /\ Merging(s) \in Records
         /\ \A c \in s.found : Registering(s, c) \in Records
<1>1. s.mem \in Records /\ s.files \in [Change -> Revisions]
      /\ \A c \in s.found : c \in Maybe(Change)
  BY DEF ScanTyped, Maybe
<1>2. s.mem.changes \in [Change -> Revisions]
  BY <1>1 DEF Records
<1>3. Merged(s) \in [Change -> Revisions]
  BY <1>1, <1>2 DEF Merged
<1>4. Merging(s) \in Records
  BY <1>1, <1>3 DEF Merging, Records
<1>5. \A c \in s.found : Registering(s, c) \in Records
  BY <1>1, <1>3 DEF Registering, Records
<1> QED BY <1>3, <1>4, <1>5

\* What a gate does after its scan.
LEMMA GateCases ==
  ASSUME Gate
  PROVE  LET s == Scan(mem["cwo"]) IN
         \/ \E c \in s.found :
              /\ s.mem.changes[c].meaning = "OPEN"
              /\ Plan("cwo", Registering(s, c),
                      Append(s.writes, ToRecord(Registering(s, c))), "end")
         \/ Plan("cwo", Merging(s), Append(s.writes, ToRecord(Merging(s))), "end")
         \/ \E at \in {"audit", "work", "end"} : Plan("cwo", s.mem, s.writes, at)
BY DEF Gate, Onward, Registering, Merging, Merged

LEMMA GateTyped ==
  ASSUME Typed, Gate
  PROVE  Typed'
<1> DEFINE s == Scan(mem["cwo"])
<1>1. "cwo" \in Process /\ "end" \in Point /\ {"audit", "work", "end"} \subseteq Point
  BY DEF Process, Point
<1>2. mem["cwo"] \in Records /\ TypeOK
  BY <1>1 DEF Typed, TypeOK
<1>3. ScanTyped(s)
  BY <1>2, ScanIsTyped
<1>4. s.mem \in Records /\ s.writes \in Seq(Writing)
  BY <1>3 DEF ScanTyped
<1>5. Merging(s) \in Records /\ \A c \in s.found : Registering(s, c) \in Records
  BY <1>3, MergedTyped
<1>6. \/ \E c \in s.found :
           Plan("cwo", Registering(s, c),
                Append(s.writes, ToRecord(Registering(s, c))), "end")
      \/ Plan("cwo", Merging(s), Append(s.writes, ToRecord(Merging(s))), "end")
      \/ \E at \in {"audit", "work", "end"} : Plan("cwo", s.mem, s.writes, at)
  BY GateCases
<1> HIDE DEF s
<1>7. CASE \E c \in s.found :
             Plan("cwo", Registering(s, c),
                  Append(s.writes, ToRecord(Registering(s, c))), "end")
  <2>1. PICK c \in s.found :
          Plan("cwo", Registering(s, c),
               Append(s.writes, ToRecord(Registering(s, c))), "end")
    BY <1>7
  <2>2. Append(s.writes, ToRecord(Registering(s, c))) \in Seq(Writing)
    BY <1>4, <1>5, AppendTyped
  <2> QED BY <1>1, <1>5, <2>1, <2>2, PlanTyped
<1>8. CASE Plan("cwo", Merging(s), Append(s.writes, ToRecord(Merging(s))), "end")
  <2>1. Append(s.writes, ToRecord(Merging(s))) \in Seq(Writing)
    BY <1>4, <1>5, AppendTyped
  <2> QED BY <1>1, <1>5, <1>8, <2>1, PlanTyped
<1>9. CASE \E at \in {"audit", "work", "end"} : Plan("cwo", s.mem, s.writes, at)
  BY <1>1, <1>4, <1>9, PlanTyped
<1> QED BY <1>6, <1>7, <1>8, <1>9

LEMMA AuditTyped ==
  ASSUME Typed, Audit
  PROVE  Typed'
<1>1. "cwo" \in Process /\ "work" \in Point
  BY DEF Process, Point
<1>2. mem["cwo"] \in Records /\ record \in Records /\ TypeOK
  BY <1>1 DEF Typed, TypeOK
<1>3. Scan(record).writes \in Seq(Writing)
  BY <1>2, ScanIsTyped DEF ScanTyped
<1>4. Plan("cwo", mem["cwo"], Scan(record).writes, "work")
  BY DEF Audit
<1> QED BY <1>1, <1>2, <1>3, <1>4, PlanTyped

LEMMA WorkTyped ==
  ASSUME Typed, Work
  PROVE  Typed'
<1>1. "cwo" \in Process /\ "end" \in Point /\ "agent" \in Point
  BY DEF Process, Point
<1>2. mem["cwo"] \in Records
  BY <1>1 DEF Typed, TypeOK
<1>3. <<ToRecord(mem["cwo"])>> \in Seq(Writing)
  <2>1. ToRecord(mem["cwo"]) \in Writing
    BY <1>2, WritingTyped
  <2> QED BY <2>1
<1>4. \E at \in {"agent", "end"} : Plan("cwo", mem["cwo"], <<ToRecord(mem["cwo"])>>, at)
  BY DEF Work
<1> QED BY <1>1, <1>2, <1>3, <1>4, PlanTyped

\* What an accepted minor change puts on file.
MinorRecord(s, c, revision) == [s.mem EXCEPT !.stage = "READY", !.changes[c] = revision]
MinorEntry(c, revision) ==
  [accepted |-> revision.candidate, candidate |-> revision.candidate,
   status |-> "ACCEPTED", change |-> c]

MinorWrites(w, c, revision, r) ==
  Append(Append(Append(w, ToChange(c, revision)), ToLedger(MinorEntry(c, revision))),
         ToRecord(r))

LEMMA MinorTyped ==
  ASSUME NEW s, ScanTyped(s), NEW c \in Change, NEW revision \in Revisions,
         revision.candidate \in Content
  PROVE  /\ MinorRecord(s, c, revision) \in Records
         /\ MinorRecord(s, c, revision).stage = "READY"
         /\ MinorRecord(s, c, revision).changes = [s.mem.changes EXCEPT ![c] = revision]
         /\ MinorRecord(s, c, revision).decisions = s.mem.decisions
         /\ MinorEntry(c, revision) \in Entries
<1>1. s.mem \in Records /\ s.mem.changes \in [Change -> Revisions]
  BY DEF ScanTyped, Records
<1>2. [s.mem.changes EXCEPT ![c] = revision] \in [Change -> Revisions]
  BY <1>1
<1> DEFINE r == MinorRecord(s, c, revision)
<1>3. /\ r.stage = "READY" /\ r.current = s.mem.current /\ r.adrs = s.mem.adrs
      /\ r.changes = [s.mem.changes EXCEPT ![c] = revision]
      /\ r.decisions = s.mem.decisions
  BY <1>1 DEF MinorRecord, Records
<1>4. r \in Records
  BY <1>1, <1>2 DEF MinorRecord, Records
<1>5. MinorEntry(c, revision) \in Entries
  <2>1. c \in Maybe(Change)
    BY DEF Maybe
  <2> QED BY <2>1 DEF MinorEntry, Entries
<1> QED BY <1>3, <1>4, <1>5

LEMMA MinorPlan ==
  ASSUME NEW s, ScanTyped(s), NEW c \in Change, NEW revision \in Revisions,
         revision.candidate \in Content, AcceptMinor(s, c, revision)
  PROVE  LET r == MinorRecord(s, c, revision)
             w == MinorWrites(s.writes, c, revision, r)
         IN Plan("cwo", r, w, "end") /\ w \in Seq(Writing)
<1> DEFINE r == MinorRecord(s, c, revision)
           a == ToChange(c, revision)
           b == ToLedger(MinorEntry(c, revision))
           x == ToRecord(r)
           v == s.writes
<1>1. v \in Seq(Writing)
  BY DEF ScanTyped
<1>2. r \in Records /\ MinorEntry(c, revision) \in Entries
  BY MinorTyped
<1>3. a \in Writing /\ b \in Writing /\ x \in Writing
  BY <1>2, WritingTyped
<1>4. Plan("cwo", r, v \o <<a, b, x>>, "end")
  BY DEF AcceptMinor, MinorRecord, MinorEntry
<1> HIDE DEF a, b, x, r, v
<1>5. v \o <<a, b, x>> = Append(Append(Append(v, a), b), x)
  BY <1>1, <1>3, Appended
<1>6. Append(Append(Append(v, a), b), x) \in Seq(Writing)
  BY <1>1, <1>3
<1>7. /\ Plan("cwo", r, Append(Append(Append(v, a), b), x), "end")
      /\ Append(Append(Append(v, a), b), x) \in Seq(Writing)
  BY <1>4, <1>5, <1>6
<1> QED BY <1>7 DEF a, b, x, r, v, MinorWrites

\* What a major change puts on file: an offer, unless it has been made.
Offer(revision) == [status |-> "PENDING", of |-> revision.candidate]
Asked(s, c, revision) == s.mem.decisions[IdOf(c, revision)].status = "PENDING"
OfferRecord(s, c, revision) ==
  [s.mem EXCEPT !.stage = "READY", !.changes[c] = revision,
                !.decisions[IdOf(c, revision)] =
                   IF Asked(s, c, revision) THEN @ ELSE Offer(revision)]
OfferEntry(s, c) == [s.ledger EXCEPT !.status = "CHANGE_PENDING", !.change = c]
OfferNotes(s, c, revision) == [s.notes EXCEPT ![IdOf(c, revision)] = Offer(revision)]

LEMMA OfferIdTyped ==
  ASSUME NEW c \in Change, NEW revision, revision.candidate \in Content
  PROVE  IdOf(c, revision) \in Decision /\ IdOf(c, revision)[1] = c
<1>1. revision.candidate \in Maybe(Content) /\ None \in Maybe(Content)
  BY DEF Maybe
<1> QED BY <1>1 DEF IdOf, Decision

LEMMA OfferNotesTyped ==
  ASSUME NEW s, ScanTyped(s), NEW c \in Change, NEW revision, revision.candidate \in Content
  PROVE  /\ OfferNotes(s, c, revision) \in Decisions
         /\ Offer(revision) \in
              [status : {"NONE", "PENDING", "RESOLVED", "SUPERSEDED"}, of : Maybe(Content)]
<1> DEFINE d == IdOf(c, revision)
           offer == Offer(revision)
<1>1. offer \in [status : {"NONE", "PENDING", "RESOLVED", "SUPERSEDED"},
                 of : Maybe(Content)]
  BY DEF Offer, Maybe
<1>2. s.notes \in Decisions /\ d \in Decision
  BY OfferIdTyped DEF ScanTyped
<1> HIDE DEF offer, d
<1>3. [s.notes EXCEPT ![d] = offer] \in Decisions
  BY <1>1, <1>2 DEF Decisions
<1> QED BY <1>1, <1>3 DEF OfferNotes, offer, d

LEMMA OfferEntryTyped ==
  ASSUME NEW s, ScanTyped(s), NEW c \in Change
  PROVE  /\ OfferEntry(s, c) \in Entries /\ OfferEntry(s, c).change = c
         /\ OfferEntry(s, c).accepted = s.ledger.accepted
         /\ OfferEntry(s, c).candidate = s.ledger.candidate
         /\ OfferEntry(s, c).status = "CHANGE_PENDING"
<1>1. s.ledger \in Entries
  BY DEF ScanTyped
<1> QED BY <1>1 DEF OfferEntry, Entries

LEMMA OfferRecordTyped ==
  ASSUME TypeOK, NEW s, ScanTyped(s), NEW c \in Change, NEW revision \in Revisions,
         revision.candidate \in Content
  PROVE  /\ OfferRecord(s, c, revision) \in Records
         /\ OfferRecord(s, c, revision).stage = "READY"
         /\ OfferRecord(s, c, revision).changes = [s.mem.changes EXCEPT ![c] = revision]
         /\ ~Asked(s, c, revision) =>
              OfferRecord(s, c, revision).decisions
                = [s.mem.decisions EXCEPT ![IdOf(c, revision)] = Offer(revision)]
         /\ Asked(s, c, revision) =>
              OfferRecord(s, c, revision).decisions = s.mem.decisions
<1> DEFINE r == OfferRecord(s, c, revision)
           d == IdOf(c, revision)
           offer == Offer(revision)
           asked == Asked(s, c, revision)
<1>1. /\ s.mem \in Records /\ s.mem.changes \in [Change -> Revisions]
      /\ s.mem.decisions \in Decisions
  BY DEF ScanTyped, Records
<1>2. d \in Decision
  BY OfferIdTyped
<1>3. offer \in [status : {"NONE", "PENDING", "RESOLVED", "SUPERSEDED"},
                 of : Maybe(Content)]
  BY OfferNotesTyped
<1>4. r = [s.mem EXCEPT !.stage = "READY", !.changes[c] = revision,
                        !.decisions[d] = IF asked THEN @ ELSE offer]
  BY DEF OfferRecord
<1> HIDE DEF r, offer, asked, d
<1>5. /\ r.stage = "READY" /\ r.changes = [s.mem.changes EXCEPT ![c] = revision]
      /\ r.decisions = [s.mem.decisions EXCEPT ![d] = IF asked THEN @ ELSE offer]
  BY <1>1, <1>4 DEF Records
<1>6. r.decisions = IF asked THEN s.mem.decisions
                    ELSE [s.mem.decisions EXCEPT ![d] = offer]
  BY <1>1, <1>5 DEF Decisions
<1>7. r.decisions \in Decisions /\ r.changes \in [Change -> Revisions]
  BY <1>1, <1>2, <1>3, <1>5, <1>6 DEF Decisions
<1>8. r \in Records
  <2>1. r = [s.mem EXCEPT !.stage = "READY", !.changes = r.changes,
                          !.decisions = r.decisions]
    BY <1>1, <1>4, <1>5 DEF Records
  <2> QED BY <1>1, <1>7, <2>1 DEF Records
<1>9. /\ ~asked => r.decisions = [s.mem.decisions EXCEPT ![d] = offer]
      /\ asked => r.decisions = s.mem.decisions
  BY <1>6
<1> QED BY <1>5, <1>8, <1>9 DEF r, offer, asked, d

\* The writes up to the entry, and those of an offer.
OfferBegun(s, c, revision) ==
  Append(Append(s.writes, ToChange(c, revision)), ToLedger(OfferEntry(s, c)))
OfferWrites(s, c, revision) ==
  LET begun == OfferBegun(s, c, revision)
      noted == IF Asked(s, c, revision) THEN begun
               ELSE Append(begun, ToNotes(OfferNotes(s, c, revision)))
  IN Append(noted, ToRecord(OfferRecord(s, c, revision)))

LEMMA OfferPlan ==
  ASSUME TypeOK, NEW s, ScanTyped(s), NEW c \in Change, NEW revision \in Revisions,
         revision.candidate \in Content, OfferMajor(s, c, revision)
  PROVE  LET w == OfferWrites(s, c, revision)
         IN Plan("cwo", OfferRecord(s, c, revision), w, "end") /\ w \in Seq(Writing)
<1> DEFINE r == OfferRecord(s, c, revision)
           asked == Asked(s, c, revision)
           a == ToChange(c, revision)
           b == ToLedger(OfferEntry(s, c))
           n == ToNotes(OfferNotes(s, c, revision))
           x == ToRecord(r)
           v == s.writes
           w == OfferWrites(s, c, revision)
<1>1. v \in Seq(Writing)
  BY DEF ScanTyped
<1>2. r \in Records /\ OfferEntry(s, c) \in Entries /\ OfferNotes(s, c, revision) \in Decisions
  BY OfferRecordTyped, OfferEntryTyped, OfferNotesTyped
<1>3. a \in Writing /\ b \in Writing /\ n \in Writing /\ x \in Writing
  BY <1>2, WritingTyped
<1>4. Plan("cwo", r, v \o <<a, b>> \o (IF asked THEN <<>> ELSE <<n>>) \o <<x>>, "end")
  BY DEF OfferMajor, OfferRecord, OfferEntry, OfferNotes, Offer, Asked
<1>5. w = Append(IF asked THEN Append(Append(v, a), b)
                 ELSE Append(Append(Append(v, a), b), n), x)
  BY DEF OfferWrites, OfferBegun
<1> HIDE DEF a, b, n, x, r, v, w, asked
<1>6. v \o <<a, b>> = Append(Append(v, a), b)
  BY <1>1, <1>3, Appended
<1> DEFINE u == Append(Append(v, a), b)
<1>7. u \in Seq(Writing)
  BY <1>1, <1>3
<1> HIDE DEF u
<1>8. u \o <<>> = u /\ u \o <<n>> = Append(u, n) /\ Append(u, n) \in Seq(Writing)
  BY <1>3, <1>7
<1> DEFINE y == IF asked THEN u ELSE Append(u, n)
<1>9. u \o (IF asked THEN <<>> ELSE <<n>>) = y /\ y \in Seq(Writing)
  BY <1>7, <1>8
<1>10. w = Append(y, x)
  BY <1>5 DEF u
<1>11. Plan("cwo", r, y \o <<x>>, "end")
  <2>1. v \o <<a, b>> \o (IF asked THEN <<>> ELSE <<n>>) \o <<x>>
          = u \o (IF asked THEN <<>> ELSE <<n>>) \o <<x>>
    BY <1>6 DEF u
  <2> HIDE DEF y
  <2> QED BY <1>4, <1>9, <2>1
<1> HIDE DEF y
<1>12. y \o <<x>> = Append(y, x) /\ Append(y, x) \in Seq(Writing)
  BY <1>3, <1>9
<1>13. Plan("cwo", r, w, "end") /\ w \in Seq(Writing)
  BY <1>10, <1>11, <1>12
<1> QED BY <1>13 DEF r, w

\* A candidate that the scan confirms.
LEMMA RegisteredTyped ==
  ASSUME NEW s, ScanTyped(s), NEW c, NEW candidate, Registered(s, c, candidate)
  PROVE  /\ c \in Change /\ candidate \in Content /\ s.files[c].candidate = candidate
         /\ s.ledger.change = c /\ s.ledger.status # "ACCEPTED"
BY DEF ScanTyped, Registered

LEMMA ReportedTyped ==
  ASSUME NEW revision \in Revisions, revision.candidate \in Content
  PROVE  \A meaning \in {"MINOR", "MAJOR"} :
           LET told == [revision EXCEPT !.meaning = meaning] IN
           /\ told \in Revisions /\ told.candidate = revision.candidate
           /\ told.meaning = meaning
BY DEF Revisions

\* The record that is saved with the answer, before it is known to be current.
Answered ==
  [mem["cwo"] EXCEPT !.stage = "READY", !.adrs = @ \cup {answer},
                     !.decisions[answer].status = "RESOLVED"]
Given == mem["cwo"].changes[answer[1]]
PromotedRecord(s) == [s.mem EXCEPT !.changes[answer[1]] = Given]
PromotedEntry(s) == [s.ledger EXCEPT !.accepted = Given.candidate,
                                     !.status = "ACCEPTED", !.change = answer[1]]
PromotedNotes(s) == [s.notes EXCEPT ![answer] = PromotedRecord(s).decisions[answer]]

LEMMA AnsweredTyped ==
  ASSUME TypeOK, answer \in Decision
  PROVE  LET m == mem["cwo"] IN
         /\ m \in Records /\ Answered \in Records /\ answer[1] \in Change /\ Given \in Revisions
         /\ Answered.stage = "READY" /\ Answered.changes = m.changes
         /\ Answered.decisions = [m.decisions EXCEPT ![answer].status = "RESOLVED"]
<1> DEFINE m == mem["cwo"]
<1>1. m \in Records
  <2>1. "cwo" \in Process
    BY DEF Process
  <2> QED BY <2>1 DEF TypeOK
<1>2. answer[1] \in Change
  BY DEF Decision
<1>3. /\ m.changes \in [Change -> Revisions] /\ m.decisions \in Decisions
      /\ m.adrs \in SUBSET Decision
  BY <1>1 DEF Records
<1>4. Given \in Revisions
  BY <1>2, <1>3 DEF Given
<1>5. Answered = [m EXCEPT !.stage = "READY", !.adrs = @ \cup {answer},
                           !.decisions[answer].status = "RESOLVED"]
  BY DEF Answered
<1> HIDE DEF m
<1> DEFINE all == [m.decisions EXCEPT ![answer].status = "RESOLVED"]
<1>6. /\ Answered.stage = "READY" /\ Answered.changes = m.changes
      /\ Answered.decisions = all /\ Answered.adrs = m.adrs \cup {answer}
      /\ Answered.current = m.current
  BY <1>1, <1>5 DEF Records
<1>7. all \in Decisions
  <2>1. m.decisions[answer] \in [status : {"NONE", "PENDING", "RESOLVED", "SUPERSEDED"},
                                 of : Maybe(Content)]
    BY <1>3 DEF Decisions
  <2>2. [m.decisions[answer] EXCEPT !.status = "RESOLVED"]
          \in [status : {"NONE", "PENDING", "RESOLVED", "SUPERSEDED"}, of : Maybe(Content)]
    BY <2>1
  <2> QED BY <1>3, <2>2 DEF Decisions
<1> HIDE DEF all
<1>8. Answered \in Records
  <2>1. Answered = [m EXCEPT !.stage = "READY", !.adrs = m.adrs \cup {answer},
                             !.decisions = all]
    BY <1>1, <1>5 DEF Records, all
  <2>2. m.adrs \cup {answer} \in SUBSET Decision
    BY <1>3
  <2> QED BY <1>1, <1>7, <2>1, <2>2 DEF Records
<1>9. /\ m \in Records /\ Answered \in Records /\ answer[1] \in Change /\ Given \in Revisions
      /\ Answered.stage = "READY" /\ Answered.changes = m.changes
      /\ Answered.decisions = all
  BY <1>1, <1>2, <1>4, <1>6, <1>8
<1> QED BY <1>9 DEF m, all

LEMMA PromotedTyped ==
  ASSUME TypeOK, answer \in Decision, NEW s, ScanTyped(s), Given.candidate \in Content
  PROVE  /\ PromotedRecord(s) \in Records /\ PromotedRecord(s).stage = s.mem.stage
         /\ PromotedRecord(s).decisions = s.mem.decisions
         /\ PromotedRecord(s).changes = [s.mem.changes EXCEPT ![answer[1]] = Given]
         /\ PromotedEntry(s) \in Entries /\ PromotedEntry(s).accepted = Given.candidate
         /\ PromotedEntry(s).status = "ACCEPTED" /\ PromotedEntry(s).change = answer[1]
         /\ PromotedNotes(s) \in Decisions
<1> DEFINE r == PromotedRecord(s)
           next == PromotedEntry(s)
           c == answer[1]
           changes == [s.mem.changes EXCEPT ![c] = Given]
<1>1. /\ s.mem \in Records /\ s.mem.changes \in [Change -> Revisions]
      /\ s.mem.decisions \in Decisions /\ s.ledger \in Entries
  BY DEF ScanTyped, Records
<1>2. c \in Change /\ Given \in Revisions /\ c \in Maybe(Change)
  BY AnsweredTyped DEF Maybe
<1>3. changes \in [Change -> Revisions]
  BY <1>1, <1>2
<1>4. /\ r.stage = s.mem.stage /\ r.decisions = s.mem.decisions
      /\ r.changes = changes
  BY <1>1 DEF PromotedRecord, Records
<1>5. r \in Records
  BY <1>1, <1>3 DEF PromotedRecord, Records
<1>6. /\ next \in Entries /\ next.accepted = Given.candidate
      /\ next.status = "ACCEPTED" /\ next.change = c
  BY <1>1, <1>2 DEF PromotedEntry, Entries
<1>7. PromotedNotes(s) \in Decisions
  <2>1. s.notes \in Decisions
    BY DEF ScanTyped
  <2>2. r.decisions[answer] \in [status : {"NONE", "PENDING", "RESOLVED", "SUPERSEDED"},
                                 of : Maybe(Content)]
    BY <1>1, <1>4 DEF Decisions
  <2> HIDE DEF r
  <2>3. [s.notes EXCEPT ![answer] = r.decisions[answer]] \in Decisions
    BY <2>1, <2>2 DEF Decisions
  <2> QED BY <2>3 DEF PromotedNotes, r
<1> QED BY <1>4, <1>5, <1>6, <1>7

PromotedWrites(s) ==
  Append(Append(Append(Append(s.writes, ToLedger(PromotedEntry(s))),
                       ToChange(answer[1], Given)),
                ToNotes(PromotedNotes(s))), ToRecord(PromotedRecord(s)))

\* What a decision does after its scan.
LEMMA DecidePlan ==
  ASSUME TypeOK, answer \in Decision, Decide
  PROVE  LET s == Scan(Answered) IN
         \/ Plan("cwo", s.mem, s.writes, "end")
         \/ /\ Registered(s, answer[1], Given.candidate)
            /\ Plan("cwo", PromotedRecord(s), PromotedWrites(s), "end")
            /\ PromotedWrites(s) \in Seq(Writing)
<1> DEFINE s == Scan(Answered)
<1>1. \/ Plan("cwo", s.mem, s.writes, "end")
      \/ /\ Registered(s, answer[1], Given.candidate)
         /\ Plan("cwo", PromotedRecord(s),
                 s.writes \o <<ToLedger(PromotedEntry(s)), ToChange(answer[1], Given),
                               ToNotes(PromotedNotes(s)), ToRecord(PromotedRecord(s))>>,
                 "end")
  BY DEF Decide, Answered, Given, PromotedRecord, PromotedEntry, PromotedNotes
<1>2. ScanTyped(s) /\ answer[1] \in Change /\ Given \in Revisions
  BY AnsweredTyped, ScanIsTyped
<1> HIDE DEF s
<1>3. ASSUME Registered(s, answer[1], Given.candidate)
      PROVE  /\ s.writes \o <<ToLedger(PromotedEntry(s)), ToChange(answer[1], Given),
                              ToNotes(PromotedNotes(s)), ToRecord(PromotedRecord(s))>>
                  = PromotedWrites(s)
             /\ PromotedWrites(s) \in Seq(Writing)
  <2> DEFINE a == ToLedger(PromotedEntry(s))
             b == ToChange(answer[1], Given)
             n == ToNotes(PromotedNotes(s))
             x == ToRecord(PromotedRecord(s))
             v == s.writes
  <2>1. Given.candidate \in Content
    BY <1>2, <1>3, RegisteredTyped
  <2>2. /\ PromotedRecord(s) \in Records /\ PromotedEntry(s) \in Entries
        /\ PromotedNotes(s) \in Decisions
    BY <1>2, <2>1, PromotedTyped
  <2>3. a \in Writing /\ b \in Writing /\ n \in Writing /\ x \in Writing
    BY <1>2, <2>2, WritingTyped
  <2>4. v \in Seq(Writing)
    BY <1>2 DEF ScanTyped
  <2>5. PromotedWrites(s) = Append(Append(Append(Append(v, a), b), n), x)
    BY DEF PromotedWrites
  <2> HIDE DEF a, b, n, x, v
  <2>6. v \o <<a, b, n, x>> = Append(Append(Append(Append(v, a), b), n), x)
    BY <2>3, <2>4, Appended
  <2>7. Append(Append(Append(Append(v, a), b), n), x) \in Seq(Writing)
    BY <2>3, <2>4
  <2>8. v \o <<a, b, n, x>> = PromotedWrites(s) /\ PromotedWrites(s) \in Seq(Writing)
    BY <2>5, <2>6, <2>7
  <2> QED BY <2>8 DEF a, b, n, x, v
<1>4. \/ Plan("cwo", s.mem, s.writes, "end")
      \/ /\ Registered(s, answer[1], Given.candidate)
         /\ Plan("cwo", PromotedRecord(s), PromotedWrites(s), "end")
         /\ PromotedWrites(s) \in Seq(Writing)
  BY <1>1, <1>3
<1> QED BY <1>4 DEF s

LEMMA DecideTyped ==
  ASSUME Typed, Decide
  PROVE  Typed'
<1> DEFINE s == Scan(Answered)
<1>1. "cwo" \in Process /\ "end" \in Point
  BY DEF Process, Point
<1>2. TypeOK /\ answer \in Decision
  BY DEF Decide, At, Typed
<1>3. ScanTyped(s)
  BY <1>2, AnsweredTyped, ScanIsTyped
<1>4. \/ Plan("cwo", s.mem, s.writes, "end")
      \/ /\ Registered(s, answer[1], Given.candidate)
         /\ Plan("cwo", PromotedRecord(s), PromotedWrites(s), "end")
         /\ PromotedWrites(s) \in Seq(Writing)
  BY <1>2, DecidePlan
<1> HIDE DEF s
<1>5. CASE Plan("cwo", s.mem, s.writes, "end")
  <2>1. s.mem \in Records /\ s.writes \in Seq(Writing)
    BY <1>3 DEF ScanTyped
  <2> QED BY <1>1, <1>5, <2>1, PlanTyped
<1>6. CASE /\ Registered(s, answer[1], Given.candidate)
           /\ Plan("cwo", PromotedRecord(s), PromotedWrites(s), "end")
           /\ PromotedWrites(s) \in Seq(Writing)
  <2>1. Given.candidate \in Content
    BY <1>3, <1>6, RegisteredTyped
  <2>2. PromotedRecord(s) \in Records
    BY <1>2, <1>3, <2>1, PromotedTyped
  <2> QED BY <1>1, <1>6, <2>2, PlanTyped
<1> QED BY <1>4, <1>5, <1>6

\* What an analysis does after its scan.
LEMMA AnalyseCases ==
  ASSUME Analyse
  PROVE  LET c    == mem["cwo"].current
             s    == Scan(mem["cwo"])
             told == mem["cwo"].changes[c].candidate
         IN \/ Plan("cwo", s.mem, Append(s.writes, ToRecord(s.mem)), "end")
            \/ /\ Registered(s, c, told)
               /\ \/ AcceptMinor(s, c, [s.mem.changes[c] EXCEPT !.meaning = "MINOR"])
                  \/ OfferMajor(s, c, [s.mem.changes[c] EXCEPT !.meaning = "MAJOR"])
BY DEF Analyse

\* A scan takes no candidate from the record.
LEMMA ScanKeepsCandidates ==
  ASSUME TypeOK, NEW m \in Records, NEW c \in Change, m.changes[c].candidate \in Content
  PROVE  Scan(m).mem.changes[c].candidate \in Content
<1>1. CASE Scan(m).mem = m
  BY <1>1
<1>2. CASE Pending /\ Scan(m) = Rollover(m)
  <2> DEFINE b    == ledger.change
             old  == files[b].candidate
             gone == Superseded(m, b, old)
             new  == [candidate |-> branch, rolled |-> TRUE, meaning |-> "OPEN"]
             kept == [m EXCEPT !.changes[b] = new, !.decisions = Withdrawn(@, gone, old)]
  <2>1. kept.changes = [m.changes EXCEPT ![b] = new]
    BY <1>2, RolloverParts
  <2>2. Rollover(m).mem = kept
    BY DEF Rollover
  <2>3. new.candidate \in Content
    BY DEF TypeOK
  <2>4. m.changes \in [Change -> Revisions]
    BY DEF Records
  <2> HIDE DEF kept, new, b
  <2> QED BY <1>2, <2>1, <2>2, <2>3, <2>4
<1>3. Scan(m).mem = m \/ (Pending /\ Scan(m) = Rollover(m))
  <2>1. Unscanned(m).mem = m
        /\ [Unscanned(m) EXCEPT !.found =
              {c1 \in {ledger.change} : files[c1].candidate # None}].mem = m
    BY DEF Unscanned
  <2>2. \A c1 \in Change : NewChange(m, c1).mem = m
    BY NewChangeParts
  <2>3. Pending => Newer(m).mem = m
    BY NewerParts
  <2> QED BY <2>1, <2>2, <2>3, ScanCases
<1> QED BY <1>1, <1>2, <1>3

LEMMA AnalyseTyped ==
  ASSUME Typed, Analyse
  PROVE  Typed'
<1> DEFINE m    == mem["cwo"]
           c    == m.current
           s    == Scan(m)
           told == m.changes[c].candidate
           minor == [s.mem.changes[c] EXCEPT !.meaning = "MINOR"]
           major == [s.mem.changes[c] EXCEPT !.meaning = "MAJOR"]
<1>1. "cwo" \in Process /\ "end" \in Point
  BY DEF Process, Point
<1>2. TypeOK /\ m \in Records
  BY <1>1 DEF Typed, TypeOK
<1>3. ScanTyped(s)
  BY <1>2, ScanIsTyped
<1>4. \/ Plan("cwo", s.mem, Append(s.writes, ToRecord(s.mem)), "end")
      \/ /\ Registered(s, c, told)
         /\ AcceptMinor(s, c, minor) \/ OfferMajor(s, c, major)
  BY AnalyseCases
<1>5. ASSUME Registered(s, c, told)
      PROVE  /\ c \in Change /\ minor \in Revisions /\ major \in Revisions
             /\ minor.candidate \in Content /\ major.candidate \in Content
  <2>1. c \in Change /\ told \in Content
    BY <1>3, <1>5, RegisteredTyped
  <2>2. s.mem.changes[c].candidate \in Content
    BY <1>2, <2>1, ScanKeepsCandidates
  <2>3. s.mem.changes[c] \in Revisions
    <3>1. s.mem.changes \in [Change -> Revisions]
      BY <1>3 DEF ScanTyped, Records
    <3> QED BY <2>1, <3>1
  <2> HIDE DEF s, m, c, told
  <2> QED BY <2>1, <2>2, <2>3, ReportedTyped
<1> HIDE DEF s, m, c, told, minor, major
<1>6. CASE Plan("cwo", s.mem, Append(s.writes, ToRecord(s.mem)), "end")
  <2>1. s.mem \in Records /\ s.writes \in Seq(Writing)
    BY <1>3 DEF ScanTyped
  <2>2. Append(s.writes, ToRecord(s.mem)) \in Seq(Writing)
    BY <2>1, AppendTyped
  <2> QED BY <1>1, <1>6, <2>1, <2>2, PlanTyped
<1>7. CASE Registered(s, c, told) /\ AcceptMinor(s, c, minor)
  <2> DEFINE r == MinorRecord(s, c, minor)
             w == MinorWrites(s.writes, c, minor, r)
  <2>1. r \in Records
    BY <1>3, <1>5, <1>7, MinorTyped
  <2>2. Plan("cwo", r, w, "end") /\ w \in Seq(Writing)
    BY <1>3, <1>5, <1>7, MinorPlan
  <2> HIDE DEF r, w
  <2> QED BY <1>1, <2>1, <2>2, PlanTyped
<1>8. CASE Registered(s, c, told) /\ OfferMajor(s, c, major)
  <2> DEFINE r == OfferRecord(s, c, major)
             w == OfferWrites(s, c, major)
  <2>1. r \in Records
    BY <1>2, <1>3, <1>5, <1>8, OfferRecordTyped
  <2>2. Plan("cwo", r, w, "end") /\ w \in Seq(Writing)
    BY <1>2, <1>3, <1>5, <1>8, OfferPlan
  <2> HIDE DEF r, w
  <2> QED BY <1>1, <2>1, <2>2, PlanTyped
<1> QED BY <1>4, <1>6, <1>7, <1>8

LEMMA WriteTyped ==
  ASSUME Typed, NEW p \in Process, Write(p)
  PROVE  Typed'
<1> DEFINE w == Head(writes[p])
<1>1. /\ UNCHANGED <<branch, submissions, pc, mem, answer, crashes>>
      /\ writes[p] # <<>> /\ writes' = [writes EXCEPT ![p] = Tail(@)]
      /\ ledger' = Wrote(Disk, w).ledger /\ files' = Wrote(Disk, w).files
      /\ notes' = Wrote(Disk, w).notes /\ record' = Wrote(Disk, w).record
  BY DEF Write, Wrote, Disk
<1>2. writes \in [Process -> Seq(Writing)] /\ TypeOK
  BY DEF Typed
<1>3. w \in Writing /\ Tail(writes[p]) \in Seq(Writing)
  BY <1>1, <1>2
<1>4. writes' \in [Process -> Seq(Writing)]
  BY <1>1, <1>2, <1>3
<1> HIDE DEF w
<1>5. /\ ledger' \in Entries /\ files' \in [Change -> Revisions]
      /\ notes' \in Decisions /\ record' \in Records
  BY <1>1, <1>2, <1>3, WroteTyped
<1>6. TypeOK'
  BY <1>1, <1>2, <1>5 DEF TypeOK
<1> QED BY <1>1, <1>4, <1>6 DEF Typed

LEMMA LoadTyped ==
  ASSUME Typed, StartCheck \/ StartStep \/ StartDecide
  PROVE  Typed'
<1>1. TypeOK /\ record \in Records /\ writes \in [Process -> Seq(Writing)]
      /\ pc \in [Process -> Point] /\ mem \in [Process -> Records]
  BY DEF Typed, TypeOK, Point
<1>2. PICK p \in Process, at \in Point :
        /\ Load(p, at) /\ (at = "decide" => answer' \in Decision)
        /\ answer' \in Decision \cup {<<>>}
        /\ (p = "check" => answer' = answer)
  <2>1. /\ "check" \in Process /\ "cwo" \in Process /\ "scan" \in Point
        /\ "gate" \in Point /\ "decide" \in Point
    BY DEF Process, Point
  <2>2. answer \in Decision \cup {<<>>}
    BY DEF Typed, TypeOK
  <2>3. CASE StartCheck
    BY <2>1, <2>2, <2>3 DEF StartCheck
  <2>4. CASE StartStep
    BY <2>1, <2>2, <2>4 DEF StartStep
  <2>5. CASE StartDecide
    <3>1. answer' \in Decision /\ Load("cwo", "decide")
      BY <2>5 DEF StartDecide
    <3> QED BY <2>1, <3>1
  <2> QED BY <2>3, <2>4, <2>5
<1>3. /\ UNCHANGED <<branch, submissions, ledger, files, notes, record, writes, crashes>>
      /\ pc' = [pc EXCEPT ![p] = at] /\ mem' = [mem EXCEPT ![p] = record]
  BY <1>2 DEF Load, disk
<1>4. pc' \in [Process -> Point] /\ mem' \in [Process -> Records]
  BY <1>1, <1>3
<1>5. TypeOK'
  BY <1>1, <1>2, <1>3, <1>4 DEF TypeOK, Point
<1>6. pc'["cwo"] = "decide" => answer' \in Decision
  <2>1. pc'["cwo"] = IF p = "cwo" THEN at ELSE pc["cwo"]
    <3>1. "cwo" \in Process
      BY DEF Process
    <3> QED BY <1>1, <1>3, <3>1
  <2>2. p # "cwo" => p = "check"
    BY DEF Process
  <2> QED BY <1>2, <2>1, <2>2 DEF Typed
<1> QED BY <1>1, <1>3, <1>5, <1>6 DEF Typed

LEMMA StopTyped ==
  ASSUME Typed, NEW p \in Process, Return(p) \/ Crash(p)
  PROVE  Typed'
<1>1. /\ UNCHANGED <<branch, submissions, ledger, files, notes, record>>
      /\ pc' = [pc EXCEPT ![p] = "idle"] /\ mem' = [mem EXCEPT ![p] = record]
      /\ answer' = IF p = "cwo" THEN <<>> ELSE answer
  BY DEF Return, Crash, disk
<1>2. TypeOK /\ record \in Records /\ writes \in [Process -> Seq(Writing)]
      /\ pc \in [Process -> Point] /\ mem \in [Process -> Records]
      /\ answer \in Decision \cup {<<>>}
  BY DEF Typed, TypeOK, Point
<1>3. "idle" \in Point
  BY DEF Point
<1>4. pc' \in [Process -> Point] /\ mem' \in [Process -> Records]
  BY <1>1, <1>2, <1>3
<1>5. crashes' \in 0 .. MaxCrashes
  <2>1. crashes \in 0 .. MaxCrashes
    BY <1>2 DEF TypeOK
  <2> QED BY <2>1, RemoteAssumption DEF Return, Crash
<1>6. writes' \in [Process -> Seq(Writing)]
  <2>1. writes' = writes \/ writes' = [writes EXCEPT ![p] = <<>>]
    BY DEF Return, Crash
  <2>2. <<>> \in Seq(Writing)
    OBVIOUS
  <2> QED BY <1>2, <2>1, <2>2
<1>7. answer' \in Decision \cup {<<>>}
  BY <1>1, <1>2
<1>8. TypeOK'
  BY <1>1, <1>2, <1>4, <1>5, <1>7 DEF TypeOK, Point
<1>9. pc'["cwo"] = "decide" => answer' \in Decision
  <2>1. "cwo" \in Process
    BY DEF Process
  <2>2. pc'["cwo"] = "decide" => p # "cwo" /\ pc["cwo"] = "decide"
    BY <1>1, <1>2, <2>1
  <2> QED BY <1>1, <2>2 DEF Typed
<1> QED BY <1>6, <1>8, <1>9 DEF Typed

LEMMA InitTyped ==
  ASSUME Init
  PROVE  Typed
<1>1. None \in Maybe(Content) /\ None \in Maybe(Change)
  BY DEF Maybe
<1>2. NoRevision \in Revisions
  BY <1>1 DEF NoRevision, Revisions
<1>3. files \in [Change -> Revisions]
  BY <1>2 DEF Init
<1>4. NoDecision \in [status : {"NONE", "PENDING", "RESOLVED", "SUPERSEDED"},
                      of : Maybe(Content)]
  BY <1>1 DEF NoDecision
<1>5. [d \in Decision |-> NoDecision] \in Decisions
  BY <1>4 DEF Decisions
<1>6. notes \in Decisions
  BY <1>5 DEF Init
<1>7. ledger \in Entries
  BY <1>1 DEF Init, Entries
<1>8. record \in Records
  <2>1. record = [stage |-> "READY", current |-> None,
                  changes |-> [c \in Change |-> NoRevision],
                  decisions |-> [d \in Decision |-> NoDecision], adrs |-> {}]
    BY DEF Init
  <2>2. [c \in Change |-> NoRevision] \in [Change -> Revisions]
    BY <1>2
  <2> QED BY <1>1, <1>5, <2>1, <2>2 DEF Records
<1>9. /\ branch \in Content /\ submissions = 0 /\ crashes = 0 /\ answer = <<>>
      /\ pc = [p \in Process |-> "idle"] /\ mem = [p \in Process |-> record]
      /\ writes = [p \in Process |-> <<>>]
  BY DEF Init, Idle
<1>10. submissions \in 0 .. MaxSubmissions /\ crashes \in 0 .. MaxCrashes
  BY <1>9, RemoteAssumption
<1>11. TypeOK
  BY <1>3, <1>6, <1>7, <1>8, <1>9, <1>10 DEF TypeOK
<1>12. writes \in [Process -> Seq(Writing)]
  BY <1>9
<1>13. pc["cwo"] # "decide"
  <2>1. "cwo" \in Process
    BY DEF Process
  <2> QED BY <1>9, <2>1
<1> QED BY <1>11, <1>12, <1>13 DEF Typed

LEMMA StepTyped ==
  ASSUME Typed, [Next]_vars
  PROVE  Typed'
<1>1. CASE UNCHANGED vars
  BY <1>1 DEF Typed, TypeOK, vars, disk
<1>2. CASE Submit
  <2>1. /\ UNCHANGED <<ledger, files, notes, record, pc, mem, writes, answer, crashes>>
        /\ branch' \in Content
    BY <1>2 DEF Submit, disk
  <2>2. submissions' \in 0 .. MaxSubmissions
    <3>1. submissions \in 0 .. MaxSubmissions
      BY DEF Typed, TypeOK
    <3> QED BY <1>2, <3>1, RemoteAssumption DEF Submit
  <2>3. TypeOK'
    BY <2>1, <2>2 DEF Typed, TypeOK
  <2> QED BY <2>1, <2>3 DEF Typed
<1>3. CASE StartCheck \/ StartStep \/ StartDecide
  BY <1>3, LoadTyped
<1>4. CASE CheckBranch
  BY <1>4, CheckTyped
<1>5. CASE Gate
  BY <1>5, GateTyped
<1>6. CASE Work
  BY <1>6, WorkTyped
<1>11. CASE Audit
  BY <1>11, AuditTyped
<1>7. CASE Analyse
  BY <1>7, AnalyseTyped
<1>8. CASE Decide
  BY <1>8, DecideTyped
<1>9. CASE \E p \in Process : Write(p)
  BY <1>9, WriteTyped
<1>10. CASE \E p \in Process : Return(p) \/ Crash(p)
  BY <1>10, StopTyped
<1> QED BY <1>1, <1>2, <1>3, <1>4, <1>5, <1>6, <1>7, <1>8, <1>9, <1>10, <1>11
   DEF Next, Start, Go

\* Whatever the processes of cwo interleave and wherever one dies, every file
\* and every record keeps to its type, and an entry that waits names its change.
THEOREM TypeCorrect == Spec => []TypeOK
<1>1. Init => Typed
  BY InitTyped
<1>2. Typed /\ [Next]_vars => Typed'
  BY StepTyped
<1>3. Typed => TypeOK
  BY DEF Typed
<1> QED BY <1>1, <1>2, <1>3, PTL DEF Spec

-----------------------------------------------------------------------------
(* What agrees once the writes are made, if no process has died *)

\* The pending change has one candidate, and a file without one is unused.
OneCandidate(d) ==
  /\ d.ledger.status # "ACCEPTED" =>
       d.files[d.ledger.change].candidate = d.ledger.candidate
  /\ \A c \in Change : d.files[c].candidate = None => d.files[c] = NoRevision

\* The record r knows a change as its file does; or the file holds a revision that
\* is not analysed yet, new or rolled over behind the record.
Knows(d, r) ==
  \A c \in Change : r.changes[c] # d.files[c] =>
    d.files[c].meaning = "OPEN" /\ (r.changes[c] = NoRevision \/ d.files[c].rolled)

\* A decision that waits in r and is not withdrawn in its file is on file and about
\* the candidate that the change has, in r and on file.
Offers(d, r) ==
  \A x \in Decision :
    r.decisions[x].status = "PENDING" /\ d.notes[x].status # "SUPERSEDED" =>
      /\ d.notes[x] = r.decisions[x] /\ r.decisions[x].of # None
      /\ r.changes[x[1]] = d.files[x[1]]
      /\ r.changes[x[1]].candidate = r.decisions[x].of
      /\ r.changes[x[1]].meaning = "MAJOR"

\* The change that is analysed has not been told to be minor or major.
Analysing(r) ==
  r.stage = "AUTHORITY_CHANGE_ANALYSIS" =>
    r.current \in Change /\ r.changes[r.current].meaning = "OPEN"

Agrees(d, r) == OneCandidate(d) /\ Knows(d, r) /\ Offers(d, r) /\ Analysing(r)

\* A write changes its file and nothing else.
LEMMA WroteLedger ==
  ASSUME NEW d, NEW x
  PROVE  LET e == Wrote(d, ToLedger(x)) IN
         e.ledger = x /\ e.files = d.files /\ e.notes = d.notes /\ e.record = d.record
BY DEF Wrote, ToLedger

LEMMA WroteChange ==
  ASSUME NEW d, NEW c, NEW x
  PROVE  LET e == Wrote(d, ToChange(c, x)) IN
         /\ e.ledger = d.ledger /\ e.files = [d.files EXCEPT ![c] = x]
         /\ e.notes = d.notes /\ e.record = d.record
BY DEF Wrote, ToChange

LEMMA WroteNotes ==
  ASSUME NEW d, NEW x
  PROVE  LET e == Wrote(d, ToNotes(x)) IN
         e.ledger = d.ledger /\ e.files = d.files /\ e.notes = x /\ e.record = d.record
BY DEF Wrote, ToNotes

LEMMA WroteRecord ==
  ASSUME NEW d, NEW x
  PROVE  LET e == Wrote(d, ToRecord(x)) IN
         e.ledger = d.ledger /\ e.files = d.files /\ e.notes = d.notes /\ e.record = x
BY DEF Wrote, ToRecord

LEMMA DiskParts ==
  /\ Disk.ledger = ledger /\ Disk.files = files /\ Disk.notes = notes
  /\ Disk.record = record
BY DEF Disk

\* A write that leaves a change pending.
LEMMA PendingLeads ==
  ASSUME NEW w \in Seq(Writing), NEW x \in Writing,
         NEW free, NEW asked, NEW d, NEW e, Leads(free, asked, d, w, e),
         Wrote(e, x).ledger.accepted = e.ledger.accepted,
         Wrote(e, x).ledger.status # "ACCEPTED"
  PROVE  Leads(free, asked, d, Append(w, x), Wrote(e, x))
<1>1. OnFile(Wrote(e, x))
  BY DEF OnFile
<1>2. Approved(asked, e, Wrote(e, x))
  BY DEF Approved
<1> QED BY <1>1, <1>2, AppendLeads

\* What is accepted is not disturbed by a write to another change.
LEMMA LedgerLeads ==
  ASSUME NEW w \in Seq(Writing), NEW x \in Writing,
         NEW free, NEW asked, NEW d, NEW e, Leads(free, asked, d, w, e),
         Wrote(e, x).ledger = e.ledger, OnFile(e),
         e.ledger.status = "ACCEPTED" /\ e.ledger.change # None =>
           Wrote(e, x).files[e.ledger.change].candidate
             = e.files[e.ledger.change].candidate
  PROVE  Leads(free, asked, d, Append(w, x), Wrote(e, x)) /\ OnFile(Wrote(e, x))
<1>1. OnFile(Wrote(e, x))
  BY DEF OnFile
<1>2. Approved(asked, e, Wrote(e, x))
  BY DEF Approved
<1> QED BY <1>1, <1>2, AppendLeads

RolledRevision == [candidate |-> branch, rolled |-> TRUE, meaning |-> "OPEN"]
Gone(m) == Superseded(m, ledger.change, files[ledger.change].candidate)
Kept(m) ==
  [m EXCEPT !.changes[ledger.change] = RolledRevision,
            !.decisions = Withdrawn(@, Gone(m), files[ledger.change].candidate)]
GoneNotes(m) == Withdrawn(notes, Gone(m), files[ledger.change].candidate)
RolledEntry == [ledger EXCEPT !.candidate = branch, !.status = "CHANGE_PENDING"]

\* The writes of a rollover lead to the new candidate in every file.
LEMMA RolloverLeads ==
  ASSUME TypeOK, NEW m \in Records, Pending, NEW asked, OnFile(Disk)
  PROVE  \E e : /\ Leads(crashes = 0, asked, Disk, Rollover(m).writes, e)
                /\ e.ledger = RolledEntry /\ e.record = Kept(m)
                /\ e.files = [files EXCEPT ![ledger.change] = RolledRevision]
                /\ e.notes = GoneNotes(m)
<1> DEFINE c == ledger.change
           noted == IF Gone(m) = {} THEN <<>> ELSE <<ToNotes(GoneNotes(m))>>
           a == ToChange(c, RolledRevision)
           b == ToLedger(RolledEntry)
           x == ToRecord(Kept(m))
           free == crashes = 0
<1>1. /\ c \in Change /\ RolledRevision \in Revisions /\ RolledEntry \in Entries
      /\ GoneNotes(m) \in Decisions /\ Kept(m) \in Records
      /\ RolledEntry.accepted = ledger.accepted
      /\ RolledEntry.status = "CHANGE_PENDING"
  BY RolloverParts DEF RolledRevision, RolledEntry, GoneNotes, Kept, Gone
<1>2. /\ a \in Writing /\ b \in Writing /\ x \in Writing
      /\ ToNotes(GoneNotes(m)) \in Writing
  BY <1>1, WritingTyped
<1>3. Rollover(m).writes = noted \o <<a, b, x>>
  BY DEF Rollover, RolledRevision, RolledEntry, GoneNotes, Kept, Gone
<1>4. ledger.status # "ACCEPTED"
  BY DEF Pending
<1> HIDE DEF c, free
<1>5. PICK e1 : /\ Leads(free, asked, Disk, noted, e1) /\ noted \in Seq(Writing)
                /\ e1.ledger = ledger /\ e1.files = files /\ e1.record = record
                /\ e1.notes = IF Gone(m) = {} THEN notes ELSE GoneNotes(m)
  <2>1. Leads(free, asked, Disk, <<>>, Disk)
    BY NothingLeads
  <2>2. <<>> \in Seq(Writing)
    OBVIOUS
  <2>3. CASE Gone(m) = {}
    BY <2>1, <2>2, <2>3, DiskParts
  <2>4. CASE Gone(m) # {}
    <3> DEFINE n == ToNotes(GoneNotes(m))
               e == Wrote(Disk, n)
    <3>1. /\ e.ledger = ledger /\ e.files = files /\ e.record = record
          /\ e.notes = GoneNotes(m)
      BY WroteNotes, DiskParts
    <3> HIDE DEF e, n
    <3>2. Append(<<>>, n) = <<n>> /\ noted = <<n>> /\ n \in Writing
      BY <1>2, <2>4 DEF n
    <3>3. Leads(free, asked, Disk, Append(<<>>, n), e)
      BY <1>4, <2>1, <2>2, <3>1, <3>2, DiskParts, PendingLeads DEF e
    <3>4. noted \in Seq(Writing)
      BY <3>2
    <3> HIDE DEF noted
    <3>5. Leads(free, asked, Disk, noted, e)
      BY <3>2, <3>3
    <3> QED BY <2>4, <3>1, <3>4, <3>5
  <2> QED BY <2>3, <2>4
<1> HIDE DEF noted, a, b, x
<1> DEFINE e2 == Wrote(e1, a)
           e3 == Wrote(e2, b)
           e4 == Wrote(e3, x)
<1>6. /\ e2.ledger = ledger /\ e2.files = [files EXCEPT ![c] = RolledRevision]
      /\ e2.notes = e1.notes
  BY <1>5, WroteChange DEF a
<1> HIDE DEF e2
<1>7. /\ e3.ledger = RolledEntry /\ e3.files = e2.files /\ e3.notes = e1.notes
  BY <1>6, WroteLedger DEF b
<1> HIDE DEF e3
<1>8. /\ e4.ledger = RolledEntry /\ e4.files = e2.files /\ e4.notes = e1.notes
      /\ e4.record = Kept(m)
  BY <1>7, WroteRecord DEF x
<1> HIDE DEF e4
<1>9. Leads(free, asked, Disk, Append(noted, a), e2) /\ Append(noted, a) \in Seq(Writing)
  BY <1>2, <1>4, <1>5, <1>6, PendingLeads DEF e2
<1>10. /\ Leads(free, asked, Disk, Append(Append(noted, a), b), e3)
       /\ Append(Append(noted, a), b) \in Seq(Writing)
  <2>1. e3.ledger.accepted = e2.ledger.accepted /\ e3.ledger.status # "ACCEPTED"
    BY <1>1, <1>6, <1>7
  <2> DEFINE w == Append(noted, a)
  <2>2. w \in Seq(Writing) /\ Leads(free, asked, Disk, w, e2)
    BY <1>9
  <2> HIDE DEF w
  <2>3. Append(w, b) \in Seq(Writing)
    BY <1>2, <2>2
  <2>4. Leads(free, asked, Disk, Append(w, b), e3)
    BY <1>2, <2>1, <2>2, PendingLeads DEF e3
  <2> QED BY <2>3, <2>4 DEF w
<1>11. Leads(free, asked, Disk, Append(Append(Append(noted, a), b), x), e4)
  BY <1>1, <1>2, <1>7, <1>8, <1>10, PendingLeads DEF e4
<1>12. Rollover(m).writes = Append(Append(Append(noted, a), b), x)
  BY <1>2, <1>3, <1>5, Appended
<1>13. Leads(free, asked, Disk, Rollover(m).writes, e4)
  BY <1>11, <1>12
<1>14. Gone(m) = {} => GoneNotes(m) = notes
  <2>1. notes \in Decisions
    BY DEF TypeOK
  <2> QED BY <2>1 DEF GoneNotes, Withdrawn, Decisions
<1>15. e4.notes = GoneNotes(m)
  BY <1>5, <1>8, <1>14
<1> QED BY <1>6, <1>8, <1>13, <1>15 DEF c, free

\* What is withdrawn no longer waits, and the rest is as it was.
LEMMA WithdrawnOffers ==
  ASSUME NEW all \in Decisions, NEW gone, NEW old, NEW x \in Decision
  PROVE  /\ x \in gone => Withdrawn(all, gone, old)[x].status # "PENDING"
         /\ x \notin gone => Withdrawn(all, gone, old)[x] = all[x]
BY DEF Withdrawn

\* After a rollover every file agrees with the record that the scan has made, and
\* with the one it was given: what was open there is withdrawn.
LEMMA RolloverAgrees ==
  ASSUME TypeOK, NEW m \in Records, Pending, Agrees(Disk, m),
         NEW e, e.ledger = RolledEntry,
         e.files = [files EXCEPT ![ledger.change] = RolledRevision],
         e.notes = GoneNotes(m)
  PROVE  Agrees(e, Kept(m)) /\ Agrees(e, m)
<1> DEFINE c == ledger.change
           old == files[c].candidate
           gone == Gone(m)
           kept == Kept(m)
<1>1. /\ c \in Change /\ RolledRevision \in Revisions
      /\ kept.stage = m.stage /\ kept.current = m.current
      /\ kept.changes = [m.changes EXCEPT ![c] = RolledRevision]
      /\ kept.decisions = Withdrawn(m.decisions, gone, old)
      /\ RolledEntry.change = c /\ RolledEntry.candidate = branch
  BY RolloverParts DEF RolledRevision, RolledEntry, Kept, Gone
<1>2. /\ RolledRevision.candidate = branch /\ RolledRevision.meaning = "OPEN"
      /\ RolledRevision.rolled /\ branch \in Content /\ branch # None
  BY RemoteAssumption DEF RolledRevision, TypeOK
<1>3. /\ files \in [Change -> Revisions] /\ m.changes \in [Change -> Revisions]
      /\ m.decisions \in Decisions /\ notes \in Decisions
  BY DEF TypeOK, Records
<1>4. /\ e.files[c] = RolledRevision /\ kept.changes[c] = RolledRevision
      /\ \A b \in Change \ {c} : e.files[b] = files[b] /\ kept.changes[b] = m.changes[b]
  BY <1>1, <1>3
<1>5. OneCandidate(Disk) /\ Knows(Disk, m) /\ Offers(Disk, m) /\ Analysing(m)
  BY DEF Agrees
<1> HIDE DEF kept
<1>6. OneCandidate(e)
  <2>1. e.files[e.ledger.change].candidate = e.ledger.candidate
    BY <1>1, <1>2, <1>4
  <2>2. \A b \in Change : e.files[b].candidate = None => e.files[b] = NoRevision
    BY <1>2, <1>4, <1>5, DiskParts DEF OneCandidate
  <2> QED BY <2>1, <2>2 DEF OneCandidate
<1>7. Knows(e, kept) /\ Knows(e, m)
  <2>1. \A b \in Change \ {c} : m.changes[b] # e.files[b] =>
          e.files[b].meaning = "OPEN" /\ (m.changes[b] = NoRevision \/ e.files[b].rolled)
    BY <1>4, <1>5, DiskParts DEF Knows
  <2> QED BY <1>2, <1>4, <2>1 DEF Knows
<1>8. Analysing(kept)
  BY <1>1, <1>2, <1>4, <1>5 DEF Analysing
<1>9. ASSUME NEW x \in Decision, m.decisions[x].status = "PENDING",
             e.notes[x].status # "SUPERSEDED"
      PROVE  /\ e.notes[x] = m.decisions[x] /\ m.decisions[x].of # None
             /\ m.changes[x[1]] = e.files[x[1]]
             /\ m.changes[x[1]].candidate = m.decisions[x].of
             /\ m.changes[x[1]].meaning = "MAJOR" /\ x[1] \in Change \ {c}
  <2>1. x \notin gone /\ e.notes[x] = notes[x]
    <3>1. x \in gone => e.notes[x].status = "SUPERSEDED"
      BY DEF GoneNotes, Withdrawn
    <3>2. x \notin gone => e.notes[x] = notes[x]
      BY <1>3, WithdrawnOffers DEF GoneNotes
    <3> QED BY <1>9, <3>1, <3>2
  <2>2. /\ notes[x] = m.decisions[x] /\ m.decisions[x].of # None
        /\ m.changes[x[1]] = files[x[1]]
        /\ m.changes[x[1]].candidate = m.decisions[x].of
        /\ m.changes[x[1]].meaning = "MAJOR"
    BY <1>5, <1>9, <2>1, DiskParts DEF Offers
  <2>3. x[1] \in Change
    BY DEF Decision
  <2>4. x[1] # c
    <3> SUFFICES ASSUME x[1] = c
                 PROVE  x \in gone
      BY <2>1
    <3>1. m.decisions[x].of = old
      BY <2>2
    <3>2. m.decisions[x] = [status |-> "PENDING", of |-> old]
      <4>1. m.decisions[x] \in [status : {"NONE", "PENDING", "RESOLVED", "SUPERSEDED"},
                                of : Maybe(Content)]
        BY <1>3 DEF Decisions
      <4> HIDE DEF old
      <4> QED BY <1>9, <3>1, <4>1
    <3>3. notes[x].status # "NONE"
      BY <1>9, <2>2
    <3> QED BY <2>2, <3>2, <3>3 DEF Gone, Superseded
  <2> QED BY <1>4, <2>1, <2>2, <2>3, <2>4
<1>10. Offers(e, m)
  BY <1>9 DEF Offers
<1>11. Offers(e, kept)
  <2> SUFFICES ASSUME NEW x \in Decision, kept.decisions[x].status = "PENDING",
                      e.notes[x].status # "SUPERSEDED"
               PROVE  /\ e.notes[x] = kept.decisions[x] /\ kept.decisions[x].of # None
                      /\ kept.changes[x[1]] = e.files[x[1]]
                      /\ kept.changes[x[1]].candidate = kept.decisions[x].of
                      /\ kept.changes[x[1]].meaning = "MAJOR"
    BY DEF Offers
  <2>1. kept.decisions[x] = m.decisions[x]
    BY <1>1, <1>3, WithdrawnOffers
  <2>2. x[1] \in Change \ {c} /\ e.notes[x] = m.decisions[x] /\ m.decisions[x].of # None
        /\ m.changes[x[1]] = e.files[x[1]]
        /\ m.changes[x[1]].candidate = m.decisions[x].of
        /\ m.changes[x[1]].meaning = "MAJOR"
    BY <1>9, <2>1
  <2> QED BY <1>4, <2>1, <2>2
<1> QED BY <1>5, <1>6, <1>7, <1>8, <1>10, <1>11 DEF Agrees, kept

\* A newer submission that is only noted.
LEMMA NewerLeads ==
  ASSUME TypeOK, NEW m \in Records, Pending, NEW asked, OnFile(Disk)
  PROVE  \E e : /\ Leads(crashes = 0, asked, Disk, Newer(m).writes, e)
                /\ e.ledger = Newer(m).ledger /\ e.files = files
                /\ e.notes = notes /\ e.record = record
<1> DEFINE next == Newer(m).ledger
           x == ToLedger(next)
           e == Wrote(Disk, x)
           free == crashes = 0
<1>1. /\ Newer(m).writes = <<x>> /\ next \in Entries /\ next.accepted = ledger.accepted
      /\ next.status = "NEWER_REMOTE_REVISION_AVAILABLE"
  BY NewerParts
<1>2. x \in Writing
  BY <1>1, WritingTyped
<1>3. e.ledger = next /\ e.files = files /\ e.notes = notes /\ e.record = record
  BY WroteLedger, DiskParts
<1> HIDE DEF next, x, e, free
<1>4. Leads(free, asked, Disk, <<>>, Disk)
  BY NothingLeads
<1>5. <<>> \in Seq(Writing) /\ Append(<<>>, x) = <<x>>
  OBVIOUS
<1>6. Wrote(Disk, x) = e
  BY DEF e
<1>7. Leads(free, asked, Disk, Append(<<>>, x), e)
  <2>1. Wrote(Disk, x).ledger.accepted = Disk.ledger.accepted
        /\ Wrote(Disk, x).ledger.status # "ACCEPTED"
    BY <1>1, <1>3, <1>6, DiskParts
  <2>2. Leads(free, asked, Disk, Append(<<>>, x), Wrote(Disk, x))
    BY <1>2, <1>4, <1>5, <2>1, PendingLeads
  <2> QED BY <1>6, <2>2
<1>8. Leads(free, asked, Disk, Newer(m).writes, e)
  BY <1>1, <1>5, <1>7
<1> QED BY <1>3, <1>8 DEF free, next

\* A new change goes to a file that is not the one of what is accepted.
LEMMA NewChangeLeads ==
  ASSUME TypeOK, NEW m \in Records, NEW c \in Change, files[c].candidate = None,
         NEW asked, OnFile(Disk)
  PROVE  \E e : /\ Leads(crashes = 0, asked, Disk, NewChange(m, c).writes, e)
                /\ e.ledger = FirstEntry(c)
                /\ e.files = [files EXCEPT ![c] = FirstRevision]
                /\ e.notes = notes /\ e.record = record
<1> DEFINE a == ToChange(c, FirstRevision)
           b == ToLedger(FirstEntry(c))
           e1 == Wrote(Disk, a)
           e2 == Wrote(e1, b)
           free == crashes = 0
<1>1. /\ NewChange(m, c).writes = <<a, b>> /\ FirstRevision \in Revisions
      /\ FirstEntry(c) \in Entries /\ FirstEntry(c).accepted = ledger.accepted
      /\ FirstEntry(c).status = "CHANGE_PENDING"
  BY NewChangeParts
<1>2. a \in Writing /\ b \in Writing
  BY <1>1, WritingTyped
<1>3. /\ e1.ledger = ledger /\ e1.files = [files EXCEPT ![c] = FirstRevision]
      /\ e1.notes = notes /\ e1.record = record
  BY WroteChange, DiskParts
<1> HIDE DEF e1
<1>4. /\ e2.ledger = FirstEntry(c) /\ e2.files = e1.files
      /\ e2.notes = notes /\ e2.record = record
  BY <1>3, WroteLedger
<1> HIDE DEF a, b, e2, free
<1>5. Leads(free, asked, Disk, <<>>, Disk) /\ <<>> \in Seq(Writing)
  BY NothingLeads
<1>6. ledger.status = "ACCEPTED" /\ ledger.change # None =>
        e1.files[ledger.change].candidate = files[ledger.change].candidate
  <2> SUFFICES ASSUME ledger.status = "ACCEPTED", ledger.change # None
               PROVE  e1.files[ledger.change] = files[ledger.change]
    OBVIOUS
  <2>1. files[ledger.change].candidate = ledger.accepted
    BY DiskParts DEF OnFile
  <2>2. ledger.accepted # None
    BY PendingEntry, RemoteAssumption DEF TypeOK
  <2>3. files \in [Change -> Revisions]
    BY DEF TypeOK
  <2> QED BY <1>3, <2>1, <2>2, <2>3
<1>7. Leads(free, asked, Disk, Append(<<>>, a), e1)
  <2>1. Wrote(Disk, a) = e1
    BY DEF e1
  <2>2. Leads(free, asked, Disk, Append(<<>>, a), Wrote(Disk, a))
    BY <1>2, <1>3, <1>5, <1>6, <2>1, DiskParts, LedgerLeads
  <2> QED BY <2>1, <2>2
<1>8. Append(<<>>, a) \in Seq(Writing)
  BY <1>2, <1>5
<1>9. Leads(free, asked, Disk, Append(Append(<<>>, a), b), e2)
  <2>1. Wrote(e1, b) = e2
    BY DEF e2
  <2> DEFINE w == Append(<<>>, a)
  <2>2. w \in Seq(Writing) /\ Leads(free, asked, Disk, w, e1)
    BY <1>7, <1>8
  <2> HIDE DEF w
  <2>3. Leads(free, asked, Disk, Append(w, b), Wrote(e1, b))
    BY <1>1, <1>2, <1>3, <1>4, <2>1, <2>2, PendingLeads
  <2> QED BY <2>1, <2>3 DEF w
<1>10. Append(Append(<<>>, a), b) = <<a, b>>
  <2>1. <<>> \o <<a, b>> = Append(Append(<<>>, a), b)
    BY <1>2, <1>5, Appended
  <2>2. <<a, b>> \in Seq(Writing)
    BY <1>2
  <2>3. <<>> \o <<a, b>> = <<a, b>>
    BY <2>2, ConcatEmptySeq
  <2> QED BY <2>1, <2>3
<1>11. Leads(free, asked, Disk, NewChange(m, c).writes, e2)
  BY <1>1, <1>9, <1>10
<1> QED BY <1>3, <1>4, <1>11 DEF free

\* After it, the record does not know the change yet.
LEMMA NewChangeAgrees ==
  ASSUME TypeOK, NEW m \in Records, NEW c \in Change, files[c].candidate = None,
         Agrees(Disk, m),
         NEW e, e.ledger = FirstEntry(c), e.files = [files EXCEPT ![c] = FirstRevision],
         e.notes = notes
  PROVE  Agrees(e, m)
<1>1. /\ FirstRevision.candidate = branch /\ FirstRevision.meaning = "OPEN"
      /\ FirstEntry(c).change = c /\ FirstEntry(c).candidate = branch
  BY NewChangeParts
<1>2. files \in [Change -> Revisions] /\ branch # None
  BY RemoteAssumption DEF TypeOK
<1>3. /\ e.files[c] = FirstRevision
      /\ \A b \in Change \ {c} : e.files[b] = files[b]
  BY <1>2
<1>4. OneCandidate(Disk) /\ Knows(Disk, m) /\ Offers(Disk, m) /\ Analysing(m)
  BY DEF Agrees
<1>5. OneCandidate(e)
  BY <1>1, <1>2, <1>3, <1>4, DiskParts DEF OneCandidate
<1>6. files[c] = NoRevision /\ m.changes[c] = NoRevision
  <2>1. files[c] = NoRevision
    BY <1>4, DiskParts DEF OneCandidate
  <2>2. m.changes[c] # files[c] => m.changes[c] = NoRevision \/ files[c].rolled
    BY <1>4, DiskParts DEF Knows
  <2>3. NoRevision.rolled = FALSE
    BY DEF NoRevision
  <2> QED BY <2>1, <2>2, <2>3
<1>7. Knows(e, m)
  BY <1>1, <1>3, <1>4, <1>6, DiskParts DEF Knows
<1>8. Offers(e, m)
  <2>1. \A x \in Decision : x[1] \in Change
    BY DEF Decision
  <2>2. NoRevision.meaning # "MAJOR"
    BY DEF NoRevision
  <2> QED BY <1>3, <1>4, <1>6, <2>1, <2>2, DiskParts DEF Offers
<1> QED BY <1>4, <1>5, <1>7, <1>8 DEF Agrees

\* What a scan of the record m leads to, before anything else is planned.
Scanned(m, s, e) ==
  /\ e.ledger = s.ledger /\ e.files = s.files /\ e.notes = s.notes
  /\ \/ s.notes = notes /\ s.mem = m /\ e.record = record
     \/ Pending /\ RollsOver /\ s = Rollover(m) /\ e.record = s.mem
  /\ crashes = 0 =>
       /\ Agrees(e, e.record) /\ Agrees(e, s.mem) /\ Agrees(e, m)
       /\ m = record => e.record = s.mem

LEMMA AgreesAlike ==
  ASSUME NEW m, Agrees(Disk, m), NEW e, e.files = files, e.notes = notes,
         e.ledger.status # "ACCEPTED" =>
           /\ ledger.status # "ACCEPTED" /\ e.ledger.change = ledger.change
           /\ e.ledger.candidate = ledger.candidate
  PROVE  Agrees(e, m)
<1>1. OneCandidate(e)
  BY DiskParts DEF Agrees, OneCandidate
<1>2. Knows(e, m) /\ Offers(e, m) /\ Analysing(m)
  BY DiskParts DEF Agrees, Knows, Offers
<1> QED BY <1>1, <1>2 DEF Agrees

LEMMA ScanLeads ==
  ASSUME TypeOK, NEW m \in Records, NEW asked, OnFile(Disk),
         crashes = 0 => Agrees(Disk, record) /\ Agrees(Disk, m)
  PROVE  \E e : /\ Leads(crashes = 0, asked, Disk, Scan(m).writes, e)
                /\ Scanned(m, Scan(m), e)
<1> DEFINE s == Scan(m)
<1>1. CASE /\ s.writes = <<>> /\ s.ledger = ledger /\ s.files = files /\ s.notes = notes /\ s.mem = m
  <2>1. Leads(crashes = 0, asked, Disk, s.writes, Disk)
    BY <1>1, NothingLeads
  <2>2. Scanned(m, s, Disk)
    BY <1>1, DiskParts DEF Scanned
  <2> QED BY <2>1, <2>2
<1>2. CASE Pending /\ RollsOver /\ s = Rollover(m)
  <2>1. PICK e : /\ Leads(crashes = 0, asked, Disk, s.writes, e)
                 /\ e.ledger = RolledEntry /\ e.record = Kept(m)
                 /\ e.files = [files EXCEPT ![ledger.change] = RolledRevision]
                 /\ e.notes = GoneNotes(m)
    BY <1>2, RolloverLeads
  <2>2. crashes = 0 => Agrees(e, Kept(m)) /\ Agrees(e, m)
    BY <1>2, <2>1, RolloverAgrees
  <2>3. /\ s.ledger = RolledEntry /\ s.mem = Kept(m)
        /\ s.files = [files EXCEPT ![ledger.change] = RolledRevision]
        /\ s.notes = GoneNotes(m)
    BY <1>2 DEF Rollover, RolledEntry, Kept, RolledRevision, Gone, GoneNotes
  <2> HIDE DEF s
  <2>4. Scanned(m, s, e)
    BY <1>2, <2>1, <2>2, <2>3 DEF Scanned
  <2> QED BY <2>1, <2>4 DEF s
<1>3. CASE Pending /\ s = Newer(m)
  <2>1. PICK e : /\ Leads(crashes = 0, asked, Disk, s.writes, e)
                 /\ e.ledger = s.ledger /\ e.files = files
                 /\ e.notes = notes /\ e.record = record
    BY <1>3, NewerLeads
  <2>2. /\ s.mem = m /\ s.files = files /\ s.notes = notes /\ s.ledger.change = ledger.change
        /\ s.ledger.candidate = ledger.candidate
    BY <1>3, NewerParts
  <2>3. ledger.status # "ACCEPTED"
    BY <1>3 DEF Pending
  <2> HIDE DEF s
  <2>4. crashes = 0 => Agrees(e, record) /\ Agrees(e, m)
    BY <2>1, <2>2, <2>3, AgreesAlike
  <2>5. Scanned(m, s, e)
    BY <2>1, <2>2, <2>4 DEF Scanned
  <2> QED BY <2>1, <2>5 DEF s
<1>4. CASE \E c \in Change : files[c].candidate = None /\ s = NewChange(m, c)
  <2>1. PICK c \in Change : files[c].candidate = None /\ s = NewChange(m, c)
    BY <1>4
  <2>2. PICK e : /\ Leads(crashes = 0, asked, Disk, s.writes, e)
                 /\ e.ledger = FirstEntry(c)
                 /\ e.files = [files EXCEPT ![c] = FirstRevision]
                 /\ e.notes = notes /\ e.record = record
    BY <2>1, NewChangeLeads
  <2>3. /\ s.mem = m /\ s.files = [files EXCEPT ![c] = FirstRevision]
        /\ s.ledger = FirstEntry(c) /\ s.notes = notes
    BY <2>1, NewChangeParts
  <2> HIDE DEF s
  <2>4. crashes = 0 => Agrees(e, m)
    BY <2>1, <2>2, NewChangeAgrees
  <2>5. crashes = 0 => Agrees(e, record)
    <3>1. record \in Records
      BY DEF TypeOK
    <3> QED BY <2>1, <2>2, <3>1, NewChangeAgrees
  <2>6. Scanned(m, s, e)
    BY <2>2, <2>3, <2>4, <2>5 DEF Scanned
  <2> QED BY <2>2, <2>6 DEF s
<1>5. \/ /\ s.writes = <<>> /\ s.ledger = ledger /\ s.files = files /\ s.notes = notes /\ s.mem = m
      \/ Pending /\ RollsOver /\ s = Rollover(m)
      \/ Pending /\ s = Newer(m)
      \/ \E c \in Change : files[c].candidate = None /\ s = NewChange(m, c)
  <2>1. \A f : LET u == [Unscanned(m) EXCEPT !.found = f] IN
          u.writes = <<>> /\ u.ledger = ledger /\ u.files = files /\ u.notes = notes /\ u.mem = m
    BY DEF Unscanned
  <2>2. LET u == Unscanned(m) IN
          u.writes = <<>> /\ u.ledger = ledger /\ u.files = files /\ u.notes = notes /\ u.mem = m
    BY DEF Unscanned
  <2>3. CASE s = Unscanned(m)
    BY <2>2, <2>3
  <2>4. CASE s = [Unscanned(m) EXCEPT !.found =
                    {c \in {ledger.change} : files[c].candidate # None}]
    BY <2>1, <2>4, Zenon
  <2>5. CASE \E c \in Change : files[c].candidate = None /\ s = NewChange(m, c)
    BY <2>5, Zenon
  <2>6. CASE Pending /\ ((RollsOver /\ s = Rollover(m)) \/ s = Newer(m))
    BY <2>6, Zenon
  <2> QED BY <2>3, <2>4, <2>5, <2>6, ScanCases, Zenon
<1> QED BY <1>1, <1>2, <1>3, <1>4, <1>5

-----------------------------------------------------------------------------
(* One process at a time *)

\* The record that a process at that point has in its memory: the one on the disk
\* e, or, behind an audit, one that agrees with the same files.
Remembers(at, m, e) ==
  IF at = "work" THEN Agrees(e, m) ELSE at \notin {"idle", "end"} => m = e.record

\* Where the writes of p lead to from here.
Planned(p, e) ==
  /\ Leads(crashes = 0, answer, Disk, writes[p], e)
  /\ crashes = 0 => Agrees(e, e.record) /\ Remembers(pc[p], mem[p], e)

Alone(p) == \A q \in Process \ {p} : pc[q] = "idle"

\* The inductive invariant: the writes of the process at work lead to files that
\* agree, unless one has died, and past no disk that lost what is accepted.
Sound ==
  /\ Typed
  /\ \E p \in Process : Alone(p)
  /\ \A p \in Process : pc[p] = "idle" => writes[p] = <<>>
  /\ \A p \in Process : Alone(p) => \E e : Planned(p, e)
  /\ answer # <<>> => pc["cwo"] \in {"decide", "end"}
  /\ pc["cwo"] = "decide" /\ crashes = 0 =>
       mem["cwo"].decisions[answer].status = "PENDING"
  /\ pc["cwo"] = "agent" => mem["cwo"].stage = "AUTHORITY_CHANGE_ANALYSIS"

\* A process that is not idle is the only one.
LEMMA BusyAlone ==
  ASSUME Sound, NEW p \in Process, pc[p] # "idle"
  PROVE  Alone(p)
BY DEF Sound, Alone

LEMMA LeadsNowhere ==
  ASSUME NEW free, NEW asked, NEW d, NEW e, Leads(free, asked, d, <<>>, e)
  PROVE  e = d /\ OnFile(d)
<1>1. <<>> \in Seq(Writing)
  OBVIOUS
<1> QED BY <1>1, LeadsFromOnFile

\* A process that has made its writes is where they have led to.
LEMMA Settled ==
  ASSUME Sound, NEW p \in Process, Alone(p), writes[p] = <<>>
  PROVE  /\ OnFile(Disk)
         /\ crashes = 0 => Agrees(Disk, record) /\ Remembers(pc[p], mem[p], Disk)
<1>1. PICK e : Planned(p, e)
  BY DEF Sound
<1>2. e = Disk /\ OnFile(Disk)
  BY <1>1, LeadsNowhere DEF Planned
<1> QED BY <1>1, <1>2, DiskParts DEF Planned

\* The disk is left alone.
LEMMA SameDisk ==
  ASSUME UNCHANGED disk
  PROVE  Disk' = Disk
BY DEF disk, Disk

\* A plan whose writes lead to files that agree.
LEMMA PlanSound ==
  ASSUME Sound, Typed', NEW p \in Process, pc[p] # "idle",
         NEW m, NEW todo, NEW at \in {"audit", "work", "agent", "end"}, Plan(p, m, todo, at),
         NEW e, Leads(crashes = 0, answer, Disk, todo, e),
         crashes = 0 => Agrees(e, e.record) /\ Remembers(at, m, e),
         at # "end" => p = "cwo" /\ answer = <<>>,
         at = "agent" => m.stage = "AUTHORITY_CHANGE_ANALYSIS"
  PROVE  Sound'
<1>1. /\ UNCHANGED disk /\ answer' = answer /\ crashes' = crashes
      /\ writes' = [writes EXCEPT ![p] = todo]
      /\ pc' = [pc EXCEPT ![p] = at] /\ mem' = [mem EXCEPT ![p] = m]
  BY DEF Plan
<1>2. pc \in [Process -> Point] /\ mem \in [Process -> Records]
      /\ writes \in [Process -> Seq(Writing)]
  BY DEF Sound, Typed, TypeOK, Point
<1>3. /\ pc'[p] = at /\ mem'[p] = m /\ writes'[p] = todo
      /\ \A q \in Process \ {p} :
           pc'[q] = pc[q] /\ mem'[q] = mem[q] /\ writes'[q] = writes[q]
  BY <1>1, <1>2
<1>4. Disk' = Disk
  BY <1>1, SameDisk
<1>5. Alone(p) /\ Alone(p)'
  BY <1>3, BusyAlone DEF Alone
<1>6. \A q \in Process : Alone(q)' => q = p
  BY <1>3 DEF Alone
<1>7. Planned(p, e)'
  <2>1. Leads(crashes' = 0, answer', Disk', writes'[p], e)
    BY <1>1, <1>3, <1>4
  <2>2. crashes' = 0 => Agrees(e, e.record) /\ Remembers(pc'[p], mem'[p], e)
    BY <1>1, <1>3
  <2> QED BY <2>1, <2>2 DEF Planned
<1>8. \A q \in Process : pc'[q] = "idle" => writes'[q] = <<>>
  BY <1>3 DEF Sound
<1>9. "cwo" \in Process
  BY DEF Process
<1>10. answer' # <<>> => pc'["cwo"] \in {"decide", "end"}
  BY <1>1, <1>3, <1>9 DEF Sound
<1>11. pc'["cwo"] = "decide" /\ crashes' = 0 =>
         mem'["cwo"].decisions[answer'].status = "PENDING"
  BY <1>1, <1>3, <1>9 DEF Sound
<1>12. pc'["cwo"] = "agent" => mem'["cwo"].stage = "AUTHORITY_CHANGE_ANALYSIS"
  BY <1>1, <1>3, <1>9 DEF Sound
<1> QED BY <1>5, <1>6, <1>7, <1>8, <1>10, <1>11, <1>12 DEF Sound

\* The record, and the decisions, are written without touching what is accepted.
LEMMA RecordLeads ==
  ASSUME NEW w \in Seq(Writing), NEW x \in Writing, x.file \in {"record", "decision"},
         NEW free, NEW asked, NEW d, NEW e, Leads(free, asked, d, w, e)
  PROVE  /\ Leads(free, asked, d, Append(w, x), Wrote(e, x))
         /\ Wrote(e, x).ledger = e.ledger /\ Wrote(e, x).files = e.files
<1>1. OnFile(e)
  <2>1. Len(w) \in Nat /\ Len(w) \in 0 .. Len(w)
    OBVIOUS
  <2> QED BY <2>1 DEF Leads
<1>2. Wrote(e, x).ledger = e.ledger /\ Wrote(e, x).files = e.files
  BY DEF Wrote
<1> QED BY <1>1, <1>2, LedgerLeads

LEMMA SavedLeads ==
  ASSUME NEW w \in Seq(Writing), NEW r \in Records,
         NEW free, NEW asked, NEW d, NEW e, Leads(free, asked, d, w, e)
  PROVE  LET f == Wrote(e, ToRecord(r)) IN
         /\ Leads(free, asked, d, Append(w, ToRecord(r)), f)
         /\ f.ledger = e.ledger /\ f.files = e.files /\ f.notes = e.notes
         /\ f.record = r
<1>1. ToRecord(r) \in Writing /\ ToRecord(r).file = "record"
  BY WritingTyped DEF ToRecord
<1> HIDE DEF ToRecord
<1>2. Leads(free, asked, d, Append(w, ToRecord(r)), Wrote(e, ToRecord(r)))
  BY <1>1, RecordLeads
<1> QED BY <1>2, WroteRecord

\* The record that a gate saves knows the change it has found.
LEMMA MergedAgrees ==
  ASSUME NEW s, ScanTyped(s), NEW e, e.files = s.files, Agrees(e, s.mem),
         NEW r, r.changes = Merged(s), r.decisions = s.mem.decisions
  PROVE  /\ OneCandidate(e) /\ Knows(e, r) /\ Offers(e, r)
         /\ \A c \in Change : s.mem.changes[c].meaning = "OPEN"
                                => r.changes[c].meaning = "OPEN"
<1>1. \A c \in Change : r.changes[c] = s.mem.changes[c] \/ r.changes[c] = s.files[c]
  BY DEF Merged
<1>2. OneCandidate(e) /\ Knows(e, s.mem) /\ Offers(e, s.mem)
  BY DEF Agrees
<1>3. Knows(e, r)
  BY <1>1, <1>2 DEF Knows
<1>4. Offers(e, r)
  <2> SUFFICES ASSUME NEW x \in Decision, r.decisions[x].status = "PENDING",
                      e.notes[x].status # "SUPERSEDED"
               PROVE  r.changes[x[1]] = s.mem.changes[x[1]]
    BY <1>2 DEF Offers
  <2>1. s.mem.changes[x[1]] = s.files[x[1]]
    BY <1>2 DEF Offers
  <2>2. x[1] \in Change
    BY DEF Decision
  <2> QED BY <1>1, <2>1, <2>2
<1>5. \A c \in Change : s.mem.changes[c].meaning = "OPEN" => r.changes[c].meaning = "OPEN"
  BY <1>1, <1>2 DEF Knows
<1> QED BY <1>2, <1>3, <1>4, <1>5

LEMMA CheckSound ==
  ASSUME Sound, CheckBranch
  PROVE  Sound'
<1> DEFINE m == mem["check"]
           s == Scan(m)
<1>1. "check" \in Process /\ pc["check"] = "scan" /\ writes["check"] = <<>>
      /\ Plan("check", s.mem, s.writes, "end")
  BY DEF CheckBranch, At, Process
<1>2. Typed' /\ TypeOK /\ m \in Records
  BY <1>1, CheckTyped DEF Sound, Typed, TypeOK
<1>3. OnFile(Disk) /\ (crashes = 0 => Agrees(Disk, record) /\ m = record)
  BY <1>1, BusyAlone, Settled, DiskParts DEF Remembers
<1>4. PICK e : Leads(crashes = 0, answer, Disk, s.writes, e) /\ Scanned(m, s, e)
  BY <1>2, <1>3, ScanLeads
<1>5. crashes = 0 => Agrees(e, e.record) /\ Remembers("end", s.mem, e)
  BY <1>4 DEF Scanned, Remembers
<1> HIDE DEF s, m
<1> QED BY <1>1, <1>2, <1>4, <1>5, PlanSound

LEMMA GateSound ==
  ASSUME Sound, Gate
  PROVE  Sound'
<1> DEFINE m == mem["cwo"]
           s == Scan(m)
<1>1. "cwo" \in Process /\ pc["cwo"] = "gate" /\ writes["cwo"] = <<>>
  BY DEF Gate, At, Process
<1>2. Typed' /\ TypeOK /\ m \in Records /\ answer = <<>>
  BY <1>1, GateTyped DEF Sound, Typed, TypeOK
<1>3. OnFile(Disk) /\ (crashes = 0 => Agrees(Disk, record) /\ m = record)
  BY <1>1, BusyAlone, Settled, DiskParts DEF Remembers
<1>4. PICK e : Leads(crashes = 0, answer, Disk, s.writes, e) /\ Scanned(m, s, e)
  BY <1>2, <1>3, ScanLeads
<1>5. ScanTyped(s) /\ s.mem \in Records /\ s.writes \in Seq(Writing)
  BY <1>2, ScanIsTyped DEF ScanTyped
<1>6. /\ e.files = s.files
      /\ crashes = 0 => /\ Agrees(e, e.record) /\ Agrees(e, s.mem)
                        /\ e.record = s.mem
  BY <1>3, <1>4 DEF Scanned
<1>7. Merging(s) \in Records /\ \A c \in s.found : Registering(s, c) \in Records
  BY <1>5, MergedTyped
<1>8. \/ \E c \in s.found :
           /\ s.mem.changes[c].meaning = "OPEN"
           /\ Plan("cwo", Registering(s, c),
                   Append(s.writes, ToRecord(Registering(s, c))), "end")
      \/ Plan("cwo", Merging(s), Append(s.writes, ToRecord(Merging(s))), "end")
      \/ \E at \in {"audit", "work", "end"} : Plan("cwo", s.mem, s.writes, at)
  BY GateCases
<1> HIDE DEF s, m
<1>9. CASE \E c \in s.found :
             /\ s.mem.changes[c].meaning = "OPEN"
             /\ Plan("cwo", Registering(s, c),
                     Append(s.writes, ToRecord(Registering(s, c))), "end")
  <2>1. PICK c \in s.found :
          /\ s.mem.changes[c].meaning = "OPEN"
          /\ Plan("cwo", Registering(s, c),
                  Append(s.writes, ToRecord(Registering(s, c))), "end")
    BY <1>9
  <2> DEFINE r == Registering(s, c)
             f == Wrote(e, ToRecord(r))
  <2>2. /\ r.changes = Merged(s) /\ r.decisions = s.mem.decisions /\ r.current = c
        /\ c \in Change
    BY <1>5 DEF Registering, Records, ScanTyped
  <2>3. r \in Records
    BY <1>7
  <2> HIDE DEF r
  <2>4. /\ Leads(crashes = 0, answer, Disk, Append(s.writes, ToRecord(r)), f)
        /\ f.ledger = e.ledger /\ f.files = e.files /\ f.notes = e.notes /\ f.record = r
    BY <1>4, <1>5, <2>3, SavedLeads
  <2>5. ASSUME crashes = 0
        PROVE  Agrees(f, r)
    <3>1. /\ OneCandidate(e) /\ Knows(e, r) /\ Offers(e, r)
          /\ r.changes[c].meaning = "OPEN"
      BY <1>5, <1>6, <2>1, <2>2, <2>5, MergedAgrees
    <3>2. Analysing(r)
      BY <2>2, <3>1 DEF Analysing
    <3>3. OneCandidate(f) /\ Knows(f, r) /\ Offers(f, r)
      BY <2>4, <3>1 DEF OneCandidate, Knows, Offers
    <3> QED BY <3>2, <3>3 DEF Agrees
  <2>6. Plan("cwo", r, Append(s.writes, ToRecord(r)), "end")
    BY <2>1 DEF r
  <2>7. crashes = 0 => Agrees(f, f.record) /\ Remembers("end", r, f)
    BY <2>4, <2>5 DEF Remembers
  <2> HIDE DEF f
  <2> QED BY <1>1, <1>2, <2>4, <2>6, <2>7, PlanSound
<1>10. CASE Plan("cwo", Merging(s), Append(s.writes, ToRecord(Merging(s))), "end")
  <2> DEFINE r == Merging(s)
             f == Wrote(e, ToRecord(r))
  <2>1. /\ r.changes = Merged(s) /\ r.decisions = s.mem.decisions
        /\ r.current = s.mem.current /\ r.stage = s.mem.stage
    BY <1>5 DEF Merging, Records
  <2>2. r \in Records
    BY <1>7
  <2> HIDE DEF r
  <2>3. /\ Leads(crashes = 0, answer, Disk, Append(s.writes, ToRecord(r)), f)
        /\ f.ledger = e.ledger /\ f.files = e.files /\ f.notes = e.notes /\ f.record = r
    BY <1>4, <1>5, <2>2, SavedLeads
  <2>4. ASSUME crashes = 0
        PROVE  Agrees(f, r)
    <3>1. /\ OneCandidate(e) /\ Knows(e, r) /\ Offers(e, r)
          /\ \A c \in Change : s.mem.changes[c].meaning = "OPEN"
                                 => r.changes[c].meaning = "OPEN"
      BY <1>5, <1>6, <2>1, <2>4, MergedAgrees
    <3>2. Analysing(r)
      BY <1>6, <2>1, <2>4, <3>1 DEF Agrees, Analysing
    <3>3. OneCandidate(f) /\ Knows(f, r) /\ Offers(f, r)
      BY <2>3, <3>1 DEF OneCandidate, Knows, Offers
    <3> QED BY <3>2, <3>3 DEF Agrees
  <2>5. Plan("cwo", r, Append(s.writes, ToRecord(r)), "end")
    BY <1>10 DEF r
  <2>6. crashes = 0 => Agrees(f, f.record) /\ Remembers("end", r, f)
    BY <2>3, <2>4 DEF Remembers
  <2> HIDE DEF f
  <2> QED BY <1>1, <1>2, <2>3, <2>5, <2>6, PlanSound
<1>11. ASSUME NEW at \in {"audit", "work", "end"}, Plan("cwo", s.mem, s.writes, at)
       PROVE  Sound'
  <2>1. crashes = 0 => Agrees(e, e.record) /\ Remembers(at, s.mem, e)
    BY <1>6 DEF Remembers
  <2> QED BY <1>1, <1>2, <1>4, <1>11, <2>1, PlanSound
<1> QED BY <1>8, <1>9, <1>10, <1>11

\* The audit scans with the record on the disk.  What is in the memory agrees with
\* the files all the same.
LEMMA AuditSound ==
  ASSUME Sound, Audit
  PROVE  Sound'
<1> DEFINE s == Scan(record)
           m == mem["cwo"]
<1>1. /\ "cwo" \in Process /\ pc["cwo"] = "audit" /\ writes["cwo"] = <<>>
      /\ Plan("cwo", m, s.writes, "work")
  BY DEF Audit, At, Process
<1>2. Typed' /\ TypeOK /\ record \in Records /\ answer = <<>>
  BY <1>1, AuditTyped DEF Sound, Typed, TypeOK
<1>3. OnFile(Disk) /\ (crashes = 0 => Agrees(Disk, record) /\ m = record)
  BY <1>1, BusyAlone, Settled, DiskParts DEF Remembers
<1>4. PICK e : Leads(crashes = 0, answer, Disk, s.writes, e) /\ Scanned(record, s, e)
  BY <1>2, <1>3, ScanLeads
<1>5. crashes = 0 => Agrees(e, e.record) /\ Remembers("work", m, e)
  BY <1>3, <1>4 DEF Scanned, Remembers
<1> HIDE DEF s, m
<1> QED BY <1>1, <1>2, <1>4, <1>5, PlanSound

LEMMA SameFilesAgree ==
  ASSUME NEW r, NEW e, Agrees(e, r),
         NEW f, f.ledger = e.ledger, f.files = e.files, f.notes = e.notes
  PROVE  Agrees(f, r)
BY DEF Agrees, OneCandidate, Knows, Offers

LEMMA WorkSound ==
  ASSUME Sound, Work
  PROVE  Sound'
<1> DEFINE m == mem["cwo"]
           at == IF m.stage = "AUTHORITY_CHANGE_ANALYSIS" THEN "agent" ELSE "end"
           f == Wrote(Disk, ToRecord(m))
<1>1. /\ "cwo" \in Process /\ pc["cwo"] = "work" /\ writes["cwo"] = <<>>
      /\ Plan("cwo", m, <<ToRecord(m)>>, at)
  BY DEF Work, At, Process
<1>2. Typed' /\ TypeOK /\ m \in Records /\ answer = <<>>
  BY <1>1, WorkTyped DEF Sound, Typed, TypeOK
<1>3. OnFile(Disk) /\ (crashes = 0 => Agrees(Disk, m))
  BY <1>1, BusyAlone, Settled DEF Remembers
<1>4. /\ at \in {"agent", "end"}
      /\ at = "agent" => m.stage = "AUTHORITY_CHANGE_ANALYSIS"
  OBVIOUS
<1> HIDE DEF m, at
<1>5. f.ledger = ledger /\ f.files = files /\ f.notes = notes /\ f.record = m
  BY WroteRecord, DiskParts
<1>6. Leads(crashes = 0, answer, Disk, <<ToRecord(m)>>, f)
  <2> DEFINE free == crashes = 0
             v == <<>>
  <2>1. Leads(free, answer, Disk, v, Disk) /\ v \in Seq(Writing)
    BY <1>3, NothingLeads
  <2>2. Append(v, ToRecord(m)) = <<ToRecord(m)>>
    OBVIOUS
  <2> HIDE DEF free, v
  <2>3. Leads(free, answer, Disk, Append(v, ToRecord(m)), f)
    BY <1>2, <2>1, SavedLeads
  <2> QED BY <2>2, <2>3 DEF free
<1> HIDE DEF f
<1>7. crashes = 0 => Agrees(f, f.record) /\ Remembers(at, m, f)
  BY <1>3, <1>4, <1>5, DiskParts, SameFilesAgree DEF Remembers
<1> QED BY <1>1, <1>2, <1>4, <1>6, <1>7, PlanSound

\* A scan leaves the record and the decisions alone, or it is a rollover.
LEMMA ScanRecord ==
  ASSUME TypeOK, NEW m \in Records
  PROVE  LET s == Scan(m) IN
         \/ s.mem = m /\ s.notes = notes
         \/ Pending /\ RollsOver /\ s = Rollover(m)
<1> DEFINE s == Scan(m)
<1>1. \A f : LET u == [Unscanned(m) EXCEPT !.found = f] IN u.mem = m /\ u.notes = notes
  BY DEF Unscanned
<1>2. Unscanned(m).mem = m /\ Unscanned(m).notes = notes
  BY DEF Unscanned
<1>3. Pending => Newer(m).mem = m /\ Newer(m).notes = notes
  BY NewerParts
<1>4. \A c \in Change : NewChange(m, c).mem = m /\ NewChange(m, c).notes = notes
  BY NewChangeParts
<1> HIDE DEF s
<1>5. CASE s = Unscanned(m)
  BY <1>2, <1>5 DEF s
<1>6. CASE s = [Unscanned(m) EXCEPT !.found =
                  {c \in {ledger.change} : files[c].candidate # None}]
  BY <1>1, <1>6 DEF s
<1>7. CASE Pending /\ (s = Newer(m) \/ (RollsOver /\ s = Rollover(m)))
  BY <1>3, <1>7 DEF s
<1>8. CASE \E c \in Change : s = NewChange(m, c)
  BY <1>4, <1>8 DEF s
<1> QED BY <1>5, <1>6, <1>7, <1>8, ScanCases, Zenon DEF s

LEMMA RolledScan ==
  ASSUME TypeOK, NEW m \in Records, Pending, NEW s, s = Rollover(m)
  PROVE  /\ ledger.change \in Change /\ s.found = {ledger.change}
         /\ s.files = [files EXCEPT ![ledger.change] = RolledRevision]
         /\ s.notes = GoneNotes(m)
         /\ s.mem.stage = m.stage /\ s.mem.current = m.current
         /\ s.mem.changes = [m.changes EXCEPT ![ledger.change] = RolledRevision]
         /\ s.mem.decisions = Withdrawn(m.decisions, Gone(m),
                                        files[ledger.change].candidate)
<1>1. /\ s.found = {ledger.change} /\ s.mem = Kept(m) /\ s.notes = GoneNotes(m)
      /\ s.files = [files EXCEPT ![ledger.change] = RolledRevision]
  BY DEF Rollover, Kept, GoneNotes, Gone, RolledRevision
<1>2. /\ ledger.change \in Change
      /\ Kept(m).stage = m.stage /\ Kept(m).current = m.current
      /\ Kept(m).changes = [m.changes EXCEPT ![ledger.change] = RolledRevision]
      /\ Kept(m).decisions = Withdrawn(m.decisions, Gone(m),
                                        files[ledger.change].candidate)
  BY RolloverParts DEF Kept, Gone, RolledRevision
<1> QED BY <1>1, <1>2

\* A scan that confirms what the record m says about the change c has left it alone
\* or rolled it over, back to that candidate.
LEMMA ScanConfirms ==
  ASSUME TypeOK, NEW m \in Records, NEW c,
         Registered(Scan(m), c, m.changes[c].candidate)
  PROVE  LET s == Scan(m) IN
         /\ s.mem.stage = m.stage /\ s.mem.current = m.current
         /\ s.mem.changes[c].candidate = s.files[c].candidate
         /\ s.mem # m => /\ Pending /\ RollsOver /\ s = Rollover(m) /\ c = ledger.change
                         /\ s.mem.changes[c].meaning = "OPEN"
                         /\ m.changes[c].candidate = branch
<1> DEFINE s == Scan(m)
<1>1. c \in s.found /\ s.files[c].candidate = m.changes[c].candidate
  BY DEF Registered
<1>2. s.mem = m \/ (Pending /\ RollsOver /\ s = Rollover(m))
  BY ScanRecord
<1> HIDE DEF s
<1>3. CASE s.mem = m
  BY <1>1, <1>3 DEF s
<1>4. CASE Pending /\ RollsOver /\ s = Rollover(m)
  <2>1. /\ c = ledger.change /\ c \in Change
        /\ s.files = [files EXCEPT ![c] = RolledRevision]
        /\ s.mem.stage = m.stage /\ s.mem.current = m.current
        /\ s.mem.changes = [m.changes EXCEPT ![c] = RolledRevision]
    <3>1. /\ ledger.change \in Change /\ s.found = {ledger.change}
          /\ s.files = [files EXCEPT ![ledger.change] = RolledRevision]
          /\ s.mem.stage = m.stage /\ s.mem.current = m.current
          /\ s.mem.changes = [m.changes EXCEPT ![ledger.change] = RolledRevision]
      BY <1>4, RolledScan
    <3>2. c = ledger.change
      BY <1>1, <3>1
    <3> QED BY <3>1, <3>2
  <2>2. files \in [Change -> Revisions] /\ m.changes \in [Change -> Revisions]
    BY DEF TypeOK, Records
  <2>3. s.files[c] = RolledRevision /\ s.mem.changes[c] = RolledRevision
    BY <2>1, <2>2
  <2>4. RolledRevision.candidate = branch /\ RolledRevision.meaning = "OPEN"
    BY DEF RolledRevision
  <2> QED BY <1>1, <1>4, <2>1, <2>3, <2>4 DEF s
<1> QED BY <1>2, <1>3, <1>4

MinorDone(e, c, revision, r, f) ==
  /\ f.ledger = MinorEntry(c, revision) /\ f.files = [e.files EXCEPT ![c] = revision]
  /\ f.notes = e.notes /\ f.record = r

\* What is written to the file of the pending change and then accepted.
LEMMA MinorLeads ==
  ASSUME NEW asked, asked = <<>>, NEW free, NEW w \in Seq(Writing),
         NEW d, NEW e, Leads(free, asked, d, w, e),
         e.files \in [Change -> Revisions], e.ledger.status # "ACCEPTED",
         NEW c \in Change, NEW revision \in Revisions, revision.candidate \in Content,
         revision.meaning = "MINOR", NEW r \in Records
  PROVE  \E f : /\ Leads(free, asked, d, MinorWrites(w, c, revision, r), f)
                /\ MinorDone(e, c, revision, r, f)
<1> DEFINE a == ToChange(c, revision)
           b == ToLedger(MinorEntry(c, revision))
           x == ToRecord(r)
           e1 == Wrote(e, a)
           e2 == Wrote(e1, b)
           e3 == Wrote(e2, x)
           v == Append(w, a)
           u == Append(v, b)
<1>1. MinorEntry(c, revision) \in Entries
  <2>1. c \in Maybe(Change)
    BY DEF Maybe
  <2> QED BY <2>1 DEF MinorEntry, Entries
<1>2. a \in Writing /\ b \in Writing
  BY <1>1, WritingTyped
<1>3. v \in Seq(Writing) /\ u \in Seq(Writing)
  BY <1>2
<1>4. /\ e1.ledger = e.ledger /\ e1.files = [e.files EXCEPT ![c] = revision]
      /\ e1.notes = e.notes
  BY WroteChange
<1>5. /\ e2.ledger = MinorEntry(c, revision) /\ e2.files = e1.files
      /\ e2.notes = e.notes
  BY <1>4, WroteLedger
<1>6. /\ MinorEntry(c, revision).change = c
      /\ MinorEntry(c, revision).accepted = revision.candidate
  BY DEF MinorEntry
<1> HIDE DEF a, b, e1, e2, u, v
<1>7. Leads(free, asked, d, v, e1)
  <2>1. Wrote(e, a) = e1 /\ v = Append(w, a)
    BY DEF e1, v
  <2> QED BY <1>2, <1>4, <2>1, PendingLeads
<1>8. Leads(free, asked, d, u, e2)
  <2>1. e1.files[c] = revision
    BY <1>4
  <2>2. OnFile(e2)
    BY <1>4, <1>5, <1>6, <2>1 DEF OnFile
  <2>3. Approved(asked, e1, e2)
    BY <1>5, <1>6, <2>1 DEF Approved
  <2>4. Wrote(e1, b) = e2 /\ u = Append(v, b)
    BY DEF e2, u
  <2> QED BY <1>2, <1>3, <1>7, <2>2, <2>3, <2>4, AppendLeads
<1>9. /\ Leads(free, asked, d, Append(u, x), e3)
      /\ e3.ledger = e2.ledger /\ e3.files = e2.files /\ e3.notes = e2.notes
      /\ e3.record = r
  BY <1>3, <1>8, SavedLeads
<1> HIDE DEF e3
<1>10. e3.files = [e.files EXCEPT ![c] = revision]
  BY <1>4, <1>5, <1>9
<1>11. MinorDone(e, c, revision, r, e3)
  BY <1>5, <1>9, <1>10 DEF MinorDone
<1> QED BY <1>9, <1>11 DEF u, v, a, b, x, MinorWrites

OfferDone(e, s, c, revision, f) ==
  /\ f.ledger = OfferEntry(s, c) /\ f.files = [e.files EXCEPT ![c] = revision]
  /\ f.notes = IF Asked(s, c, revision) THEN e.notes ELSE OfferNotes(s, c, revision)
  /\ f.record = OfferRecord(s, c, revision)

\* The writes of an offer leave the change pending.
LEMMA OfferLeads ==
  ASSUME TypeOK, NEW s, ScanTyped(s), NEW c \in Change, NEW revision \in Revisions,
         revision.candidate \in Content, NEW free, NEW asked, NEW d, NEW e,
         Leads(free, asked, d, s.writes, e), e.ledger = s.ledger,
         s.ledger.status # "ACCEPTED"
  PROVE  \E f : /\ Leads(free, asked, d, OfferWrites(s, c, revision), f)
                /\ OfferDone(e, s, c, revision, f)
<1> DEFINE r == OfferRecord(s, c, revision)
           a == ToChange(c, revision)
           b == ToLedger(OfferEntry(s, c))
           n == ToNotes(OfferNotes(s, c, revision))
           e1 == Wrote(e, a)
           e2 == Wrote(e1, b)
           e3 == IF Asked(s, c, revision) THEN e2 ELSE Wrote(e2, n)
           e4 == Wrote(e3, ToRecord(r))
           v == Append(s.writes, a)
           begun == OfferBegun(s, c, revision)
           noted == IF Asked(s, c, revision) THEN begun ELSE Append(begun, n)
<1>1. /\ r \in Records /\ OfferEntry(s, c) \in Entries
      /\ OfferNotes(s, c, revision) \in Decisions
      /\ OfferEntry(s, c).accepted = s.ledger.accepted
      /\ OfferEntry(s, c).status = "CHANGE_PENDING"
  <2>1. OfferRecord(s, c, revision) \in Records
    BY OfferRecordTyped
  <2>2. /\ OfferEntry(s, c) \in Entries /\ OfferEntry(s, c).accepted = s.ledger.accepted
        /\ OfferEntry(s, c).status = "CHANGE_PENDING"
    BY OfferEntryTyped
  <2>3. OfferNotes(s, c, revision) \in Decisions
    BY OfferNotesTyped
  <2> QED BY <2>1, <2>2, <2>3
<1>2. a \in Writing /\ b \in Writing /\ n \in Writing /\ n.file = "decision"
  BY <1>1, WritingTyped DEF ToNotes
<1>3. s.writes \in Seq(Writing) /\ v \in Seq(Writing) /\ begun = Append(v, b)
  <2>1. s.writes \in Seq(Writing)
    BY DEF ScanTyped
  <2>2. v \in Seq(Writing)
    BY <1>2, <2>1
  <2> QED BY <2>1, <2>2 DEF OfferBegun
<1>4. begun \in Seq(Writing)
  BY <1>2, <1>3
<1>5. noted \in Seq(Writing)
  BY <1>2, <1>4
<1>6. OfferWrites(s, c, revision) = Append(noted, ToRecord(r))
  BY DEF OfferWrites
<1>7. /\ e1.ledger = s.ledger /\ e1.files = [e.files EXCEPT ![c] = revision]
      /\ e1.notes = e.notes
  BY WroteChange
<1> HIDE DEF e1
<1>8. e2.ledger = OfferEntry(s, c) /\ e2.files = e1.files /\ e2.notes = e.notes
  BY <1>7, WroteLedger
<1> HIDE DEF e2
<1>9. /\ e3.ledger = OfferEntry(s, c) /\ e3.files = e1.files
      /\ e3.notes = IF Asked(s, c, revision) THEN e.notes ELSE OfferNotes(s, c, revision)
  <2>1. /\ Wrote(e2, n).ledger = e2.ledger /\ Wrote(e2, n).files = e2.files
        /\ Wrote(e2, n).notes = OfferNotes(s, c, revision)
    BY WroteNotes
  <2> HIDE DEF n
  <2>2. CASE Asked(s, c, revision)
    BY <1>8, <2>2
  <2>3. CASE ~Asked(s, c, revision)
    BY <1>8, <2>1, <2>3
  <2> QED BY <2>2, <2>3
<1> HIDE DEF a, b, n, r, v, begun
<1>10. Leads(free, asked, d, v, e1)
  <2>1. Wrote(e, a) = e1 /\ v = Append(s.writes, a)
    BY DEF e1, v
  <2> QED BY <1>2, <1>3, <1>7, <2>1, PendingLeads
<1>11. Leads(free, asked, d, begun, e2)
  <2>1. Wrote(e1, b) = e2
    BY DEF e2
  <2> QED BY <1>1, <1>2, <1>3, <1>7, <1>8, <1>10, <2>1, PendingLeads
<1>12. Leads(free, asked, d, noted, e3)
  <2>1. CASE Asked(s, c, revision)
    BY <1>11, <2>1
  <2>2. CASE ~Asked(s, c, revision)
    <3>1. noted = Append(begun, n) /\ e3 = Wrote(e2, n)
      BY <2>2
    <3> HIDE DEF noted, e3
    <3>2. Leads(free, asked, d, Append(begun, n), Wrote(e2, n))
      BY <1>2, <1>4, <1>11, RecordLeads
    <3> QED BY <3>1, <3>2
  <2> QED BY <2>1, <2>2
<1> HIDE DEF noted, e3, e4
<1>13. /\ Leads(free, asked, d, Append(noted, ToRecord(r)), e4)
       /\ e4.ledger = e3.ledger /\ e4.files = e3.files /\ e4.notes = e3.notes
       /\ e4.record = r
  BY <1>1, <1>5, <1>12, SavedLeads DEF e4
<1>14. /\ Leads(free, asked, d, OfferWrites(s, c, revision), e4)
       /\ e4.ledger = OfferEntry(s, c) /\ e4.files = [e.files EXCEPT ![c] = revision]
       /\ e4.notes = IF Asked(s, c, revision) THEN e.notes ELSE OfferNotes(s, c, revision)
       /\ e4.record = r
  BY <1>6, <1>7, <1>9, <1>13
<1>15. OfferDone(e, s, c, revision, e4)
  BY <1>14 DEF OfferDone, r
<1> QED BY <1>14, <1>15

\* What is accepted as minor agrees with every file.
LEMMA MinorAgrees ==
  ASSUME NEW m \in Records, m.stage = "AUTHORITY_CHANGE_ANALYSIS",
         NEW d, Agrees(d, m), d.files \in [Change -> Revisions],
         NEW c \in Change, c = m.current,
         NEW revision \in Revisions, revision.candidate \in Content,
         NEW e, e.ledger = MinorEntry(c, revision),
         e.files = [d.files EXCEPT ![c] = revision], e.notes = d.notes,
         NEW r, r.stage = "READY", r.decisions = m.decisions,
         r.changes = [m.changes EXCEPT ![c] = revision]
  PROVE  Agrees(e, r)
<1>1. m.changes \in [Change -> Revisions]
  BY DEF Records
<1>2. /\ e.files[c] = revision /\ r.changes[c] = revision
      /\ \A b \in Change \ {c} : e.files[b] = d.files[b] /\ r.changes[b] = m.changes[b]
  BY <1>1
<1>3. OneCandidate(d) /\ Knows(d, m) /\ Offers(d, m) /\ Analysing(m)
  BY DEF Agrees
<1>4. OneCandidate(e)
  <2>1. e.ledger.status = "ACCEPTED"
    BY DEF MinorEntry
  <2>2. \A b \in Change : e.files[b].candidate = None => e.files[b] = NoRevision
    BY <1>2, <1>3, RemoteAssumption DEF OneCandidate
  <2> QED BY <2>1, <2>2 DEF OneCandidate
<1>5. Knows(e, r)
  BY <1>2, <1>3 DEF Knows
<1>6. Offers(e, r)
  <2> SUFFICES ASSUME NEW x \in Decision, m.decisions[x].status = "PENDING",
                      d.notes[x].status # "SUPERSEDED"
               PROVE  x[1] \in Change \ {c}
    BY <1>2, <1>3 DEF Offers
  <2>1. m.changes[x[1]].meaning = "MAJOR"
    BY <1>3 DEF Offers
  <2>2. m.changes[c].meaning = "OPEN"
    BY <1>3 DEF Analysing
  <2>3. x[1] \in Change
    BY DEF Decision
  <2> QED BY <2>1, <2>2, <2>3
<1>7. Analysing(r)
  BY DEF Analysing
<1> QED BY <1>4, <1>5, <1>6, <1>7 DEF Agrees

\* The disk e and the record r after an offer o about the change c of the record m,
\* on the disk d.
Offered(d, m, c, revision, o, e, r) ==
  /\ m.stage = "AUTHORITY_CHANGE_ANALYSIS" /\ c = m.current
  /\ d.ledger.status # "ACCEPTED" /\ d.ledger.change = c
  /\ revision.candidate = d.files[c].candidate /\ revision.meaning = "MAJOR"
  /\ o[1] = c
  /\ e.ledger.change = c /\ e.ledger.candidate = d.ledger.candidate
  /\ e.files = [d.files EXCEPT ![c] = revision]
  /\ r.stage = "READY" /\ r.changes = [m.changes EXCEPT ![c] = revision]
  /\ IF m.decisions[o].status = "PENDING"
       THEN r.decisions = m.decisions /\ e.notes = d.notes
       ELSE /\ r.decisions = [m.decisions EXCEPT ![o] = Offer(revision)]
            /\ e.notes = [d.notes EXCEPT ![o] = Offer(revision)]

\* What is offered agrees with every file, and only the offer is about the change.
\* A decision that was open already is withdrawn in its file.
LEMMA OfferAgrees ==
  ASSUME NEW m \in Records, NEW d, Agrees(d, m), d.files \in [Change -> Revisions],
         d.notes \in Decisions, NEW c \in Change, NEW revision \in Revisions,
         revision.candidate \in Content, NEW o \in Decision, NEW e, NEW r,
         Offered(d, m, c, revision, o, e, r)
  PROVE  Agrees(e, r)
<1> DEFINE offer == Offer(revision)
<1>1. /\ m.stage = "AUTHORITY_CHANGE_ANALYSIS" /\ c = m.current
      /\ d.ledger.status # "ACCEPTED" /\ d.ledger.change = c
      /\ revision.candidate = d.files[c].candidate /\ revision.meaning = "MAJOR"
      /\ o[1] = c
      /\ e.ledger.change = c /\ e.ledger.candidate = d.ledger.candidate
      /\ e.files = [d.files EXCEPT ![c] = revision]
      /\ r.stage = "READY" /\ r.changes = [m.changes EXCEPT ![c] = revision]
      /\ IF m.decisions[o].status = "PENDING"
           THEN r.decisions = m.decisions /\ e.notes = d.notes
           ELSE /\ r.decisions = [m.decisions EXCEPT ![o] = offer]
                /\ e.notes = [d.notes EXCEPT ![o] = offer]
  BY DEF Offered
<1>2. m.changes \in [Change -> Revisions] /\ m.decisions \in Decisions
  BY DEF Records
<1>3. /\ e.files[c] = revision /\ r.changes[c] = revision
      /\ \A b \in Change \ {c} : e.files[b] = d.files[b] /\ r.changes[b] = m.changes[b]
  BY <1>1, <1>2
<1>4. OneCandidate(d) /\ Knows(d, m) /\ Offers(d, m) /\ Analysing(m)
  BY DEF Agrees
<1> HIDE DEF offer
<1>5. \A x \in Decision : m.decisions[x].status = "PENDING" /\ d.notes[x].status # "SUPERSEDED"
                            => x[1] \in Change \ {c}
  <2> SUFFICES ASSUME NEW x \in Decision, m.decisions[x].status = "PENDING",
                      d.notes[x].status # "SUPERSEDED"
               PROVE  x[1] \in Change \ {c}
    OBVIOUS
  <2>1. m.changes[x[1]].meaning = "MAJOR"
    BY <1>4 DEF Offers
  <2>2. m.changes[c].meaning = "OPEN"
    BY <1>1, <1>4 DEF Analysing
  <2>3. x[1] \in Change
    BY DEF Decision
  <2> QED BY <2>1, <2>2, <2>3
<1>6. \A x \in Decision :
        \/ r.decisions[x] = m.decisions[x] /\ e.notes[x] = d.notes[x]
        \/ x = o /\ r.decisions[x] = offer /\ e.notes[x] = offer
  <2>1. CASE m.decisions[o].status = "PENDING"
    BY <1>1, <2>1
  <2>2. CASE m.decisions[o].status # "PENDING"
    BY <1>1, <1>2, <2>2 DEF Decisions
  <2> QED BY <2>1, <2>2
<1>7. /\ offer.status = "PENDING" /\ offer.of = revision.candidate
      /\ offer.of # None
  BY RemoteAssumption DEF offer, Offer
<1>8. OneCandidate(e)
  <2>1. e.files[e.ledger.change].candidate = e.ledger.candidate
    BY <1>1, <1>3, <1>4 DEF OneCandidate
  <2>2. \A b \in Change : e.files[b].candidate = None => e.files[b] = NoRevision
    BY <1>3, <1>4, RemoteAssumption DEF OneCandidate
  <2> QED BY <2>1, <2>2 DEF OneCandidate
<1>9. Knows(e, r)
  BY <1>3, <1>4 DEF Knows
<1>10. Offers(e, r)
  <2> SUFFICES ASSUME NEW x \in Decision, r.decisions[x].status = "PENDING",
                      e.notes[x].status # "SUPERSEDED"
               PROVE  /\ e.notes[x] = r.decisions[x] /\ r.decisions[x].of # None
                      /\ r.changes[x[1]] = e.files[x[1]]
                      /\ r.changes[x[1]].candidate = r.decisions[x].of
                      /\ r.changes[x[1]].meaning = "MAJOR"
    BY DEF Offers
  <2>1. CASE x = o /\ r.decisions[x] = offer /\ e.notes[x] = offer
    BY <1>1, <1>3, <1>7, <2>1
  <2>2. CASE r.decisions[x] = m.decisions[x] /\ e.notes[x] = d.notes[x]
    <3>1. x[1] \in Change \ {c}
      BY <1>5, <2>2
    <3> QED BY <1>3, <1>4, <2>2, <3>1 DEF Offers
  <2> QED BY <1>6, <2>1, <2>2
<1>11. Analysing(r)
  BY <1>1 DEF Analysing
<1> QED BY <1>8, <1>9, <1>10, <1>11 DEF Agrees

\* What an analysis finds when it begins to write.
LEMMA AnalyseBegins ==
  ASSUME Sound, Analyse
  PROVE  LET m == mem["cwo"]
             s == Scan(m)
         IN /\ "cwo" \in Process /\ pc["cwo"] = "agent" /\ Typed' /\ TypeOK
            /\ m \in Records /\ answer = <<>> /\ m.stage = "AUTHORITY_CHANGE_ANALYSIS"
            /\ ScanTyped(s)
            /\ \E e : Leads(crashes = 0, answer, Disk, s.writes, e) /\ Scanned(m, s, e)
<1> DEFINE m == mem["cwo"]
           s == Scan(m)
<1>1. "cwo" \in Process /\ pc["cwo"] = "agent" /\ writes["cwo"] = <<>>
  BY DEF Analyse, At, Process
<1>2. Typed' /\ TypeOK /\ m \in Records /\ answer = <<>>
      /\ m.stage = "AUTHORITY_CHANGE_ANALYSIS"
  BY <1>1, AnalyseTyped DEF Sound, Typed, TypeOK
<1>3. OnFile(Disk) /\ (crashes = 0 => Agrees(Disk, record) /\ m = record)
  BY <1>1, BusyAlone, Settled, DiskParts DEF Remembers
<1>4. ScanTyped(s)
  BY <1>2, ScanIsTyped
<1>5. \E e : Leads(crashes = 0, answer, Disk, s.writes, e) /\ Scanned(m, s, e)
  BY <1>2, <1>3, ScanLeads
<1> HIDE DEF m, s
<1>6. /\ "cwo" \in Process /\ pc["cwo"] = "agent" /\ Typed' /\ TypeOK
      /\ m \in Records /\ answer = <<>> /\ m.stage = "AUTHORITY_CHANGE_ANALYSIS"
      /\ ScanTyped(s)
      /\ \E e : Leads(crashes = 0, answer, Disk, s.writes, e) /\ Scanned(m, s, e)
  BY <1>1, <1>2, <1>4, <1>5
<1> QED BY <1>6 DEF m, s

LEMMA RefusedSound ==
  ASSUME Sound, Analyse,
         LET s == Scan(mem["cwo"]) IN
         Plan("cwo", s.mem, Append(s.writes, ToRecord(s.mem)), "end")
  PROVE  Sound'
<1> DEFINE m == mem["cwo"]
           s == Scan(m)
           r == s.mem
<1>1. /\ "cwo" \in Process /\ pc["cwo"] = "agent" /\ Typed' /\ ScanTyped(s)
      /\ \E e : Leads(crashes = 0, answer, Disk, s.writes, e) /\ Scanned(m, s, e)
  BY AnalyseBegins
<1>2. PICK e : Leads(crashes = 0, answer, Disk, s.writes, e) /\ Scanned(m, s, e)
  BY <1>1
<1>3. s.mem \in Records /\ s.writes \in Seq(Writing)
  BY <1>1 DEF ScanTyped
<1> DEFINE f == Wrote(e, ToRecord(r))
<1>4. /\ Leads(crashes = 0, answer, Disk, Append(s.writes, ToRecord(r)), f)
      /\ f.ledger = e.ledger /\ f.files = e.files /\ f.notes = e.notes /\ f.record = r
  BY <1>2, <1>3, SavedLeads
<1>5. Plan("cwo", r, Append(s.writes, ToRecord(r)), "end")
  OBVIOUS
<1> HIDE DEF f, s, m
<1>6. crashes = 0 => Agrees(f, f.record) /\ Remembers("end", r, f)
  BY <1>2, <1>4, SameFilesAgree DEF Scanned, Remembers
<1> HIDE DEF r
<1> QED BY <1>1, <1>4, <1>5, <1>6, PlanSound

\* The change that an analysis may tell the meaning of.
LEMMA AnalysedTyped ==
  ASSUME TypeOK, NEW m \in Records, NEW c,
         Registered(Scan(m), c, m.changes[c].candidate)
  PROVE  LET s == Scan(m) IN
         /\ c \in Change /\ s.mem.changes[c] \in Revisions
         /\ s.mem.changes[c].candidate \in Content
<1> DEFINE s == Scan(m)
<1>1. ScanTyped(s)
  BY ScanIsTyped
<1>2. c \in Change /\ m.changes[c].candidate \in Content
  BY <1>1, RegisteredTyped
<1>3. s.mem.changes[c].candidate \in Content
  BY <1>2, ScanKeepsCandidates
<1>4. s.mem.changes \in [Change -> Revisions]
  BY <1>1 DEF ScanTyped, Records
<1> HIDE DEF s
<1>5. s.mem.changes[c] \in Revisions
  BY <1>2, <1>4
<1> QED BY <1>2, <1>3, <1>5 DEF s

LEMMA MinorSound ==
  ASSUME Sound, Analyse,
         LET m == mem["cwo"]
             c == m.current
             s == Scan(m)
         IN /\ Registered(s, c, m.changes[c].candidate)
            /\ AcceptMinor(s, c, [s.mem.changes[c] EXCEPT !.meaning = "MINOR"])
  PROVE  Sound'
<1> DEFINE m == mem["cwo"]
           c == m.current
           s == Scan(m)
           minor == [s.mem.changes[c] EXCEPT !.meaning = "MINOR"]
           r == MinorRecord(s, c, minor)
           w == MinorWrites(s.writes, c, minor, r)
<1>1. /\ "cwo" \in Process /\ pc["cwo"] = "agent" /\ Typed' /\ TypeOK
      /\ m \in Records /\ answer = <<>> /\ m.stage = "AUTHORITY_CHANGE_ANALYSIS"
      /\ ScanTyped(s)
      /\ \E e : Leads(crashes = 0, answer, Disk, s.writes, e) /\ Scanned(m, s, e)
  BY AnalyseBegins
<1>2. PICK e : Leads(crashes = 0, answer, Disk, s.writes, e) /\ Scanned(m, s, e)
  BY <1>1
<1>3. Registered(s, c, m.changes[c].candidate) /\ AcceptMinor(s, c, minor)
  OBVIOUS
<1>4. /\ c \in Change /\ s.mem.changes[c] \in Revisions
      /\ s.mem.changes[c].candidate \in Content
  BY <1>1, <1>3, AnalysedTyped
<1>5. /\ minor \in Revisions /\ minor.candidate \in Content /\ minor.meaning = "MINOR"
      /\ minor.candidate = s.mem.changes[c].candidate
  <2> HIDE DEF s, c, m
  <2> QED BY <1>4, ReportedTyped
<1>6. s.mem.stage = m.stage /\ s.mem.current = m.current /\ s.mem \in Records
  BY <1>1, <1>3, ScanConfirms DEF ScanTyped
<1>7. s.ledger.status # "ACCEPTED"
  BY <1>1, <1>3, RegisteredTyped
<1> HIDE DEF m, c, s, minor
<1>8. Plan("cwo", r, w, "end")
  BY <1>1, <1>3, <1>4, <1>5, MinorPlan
<1>9. /\ r \in Records /\ r.stage = "READY" /\ r.decisions = s.mem.decisions
      /\ r.changes = [s.mem.changes EXCEPT ![c] = minor]
  BY <1>1, <1>4, <1>5, MinorTyped
<1> HIDE DEF r
<1>10. /\ s.writes \in Seq(Writing) /\ e.files \in [Change -> Revisions]
       /\ e.ledger.status # "ACCEPTED"
  BY <1>1, <1>2, <1>7 DEF ScanTyped, Scanned
<1>11. PICK f : Leads(crashes = 0, answer, Disk, w, f) /\ MinorDone(e, c, minor, r, f)
  <2> DEFINE free == crashes = 0
             v == s.writes
  <2>1. Leads(free, answer, Disk, v, e) /\ v \in Seq(Writing)
    BY <1>2, <1>10
  <2>2. w = MinorWrites(v, c, minor, r)
    OBVIOUS
  <2> HIDE DEF free, v, w
  <2>3. \E f : Leads(free, answer, Disk, MinorWrites(v, c, minor, r), f)
                 /\ MinorDone(e, c, minor, r, f)
    BY <1>1, <1>4, <1>5, <1>9, <1>10, <2>1, MinorLeads
  <2> QED BY <2>2, <2>3 DEF free
<1> HIDE DEF w
<1>12. ASSUME crashes = 0
       PROVE  Agrees(f, r)
  <2>1. Agrees(e, s.mem)
    BY <1>2, <1>12 DEF Scanned
  <2>2. c = s.mem.current /\ s.mem.stage = "AUTHORITY_CHANGE_ANALYSIS"
    BY <1>1, <1>6 DEF c
  <2>3. r.decisions = s.mem.decisions /\ r.changes = [s.mem.changes EXCEPT ![c] = minor]
    BY <1>9
  <2>4. /\ f.ledger = MinorEntry(c, minor) /\ f.files = [e.files EXCEPT ![c] = minor]
        /\ f.notes = e.notes
    BY <1>11 DEF MinorDone
  <2>5. /\ s.mem \in Records /\ c \in Change
        /\ minor \in Revisions /\ minor.candidate \in Content
        /\ r.stage = "READY" /\ e.files \in [Change -> Revisions]
    BY <1>4, <1>5, <1>6, <1>9, <1>10
  <2> QED BY <2>1, <2>2, <2>3, <2>4, <2>5, MinorAgrees
<1>13. crashes = 0 => Agrees(f, f.record) /\ Remembers("end", r, f)
  BY <1>11, <1>12 DEF MinorDone, Remembers
<1> QED BY <1>1, <1>8, <1>11, <1>13, PlanSound

\* An analysis that offers the change that it was told is major.
Offering ==
  LET m == mem["cwo"]
      s == Scan(m)
  IN /\ Registered(s, m.current, m.changes[m.current].candidate)
     /\ OfferMajor(s, m.current, [s.mem.changes[m.current] EXCEPT !.meaning = "MAJOR"])

LEMMA OfferSound ==
  ASSUME Sound, Analyse, Offering
  PROVE  Sound'
<1> DEFINE m == mem["cwo"]
           c == m.current
           s == Scan(m)
           major == [s.mem.changes[c] EXCEPT !.meaning = "MAJOR"]
           r == OfferRecord(s, c, major)
           w == OfferWrites(s, c, major)
           o == IdOf(c, major)
<1>1. /\ "cwo" \in Process /\ pc["cwo"] = "agent" /\ Typed' /\ TypeOK
      /\ m \in Records /\ answer = <<>> /\ m.stage = "AUTHORITY_CHANGE_ANALYSIS"
      /\ ScanTyped(s)
      /\ \E e : Leads(crashes = 0, answer, Disk, s.writes, e) /\ Scanned(m, s, e)
  BY AnalyseBegins
<1>2. PICK e : Leads(crashes = 0, answer, Disk, s.writes, e) /\ Scanned(m, s, e)
  BY <1>1
<1>3. Registered(s, c, m.changes[c].candidate) /\ OfferMajor(s, c, major)
  BY DEF Offering
<1>4. /\ c \in Change /\ s.mem.changes[c] \in Revisions
      /\ s.mem.changes[c].candidate \in Content
  BY <1>1, <1>3, AnalysedTyped
<1>5. /\ major \in Revisions /\ major.candidate \in Content /\ major.meaning = "MAJOR"
      /\ major.candidate = s.mem.changes[c].candidate
  <2> HIDE DEF s, c, m
  <2> QED BY <1>4, ReportedTyped
<1>6. /\ s.mem.stage = m.stage /\ s.mem.current = m.current /\ s.mem \in Records
      /\ s.mem.changes[c].candidate = s.files[c].candidate
  BY <1>1, <1>3, ScanConfirms DEF ScanTyped
<1>7. /\ s.ledger.status # "ACCEPTED" /\ s.ledger.change = c
  <2>1. Registered(s, c, m.changes[c].candidate)
    BY <1>3
  <2> HIDE DEF s, c, m
  <2> QED BY <1>1, <2>1, RegisteredTyped
<1>8. c = m.current
  OBVIOUS
<1> HIDE DEF m, c, s, major
<1>9. /\ TypeOK /\ ScanTyped(s) /\ c \in Change /\ major \in Revisions
      /\ major.candidate \in Content
  BY <1>1, <1>4, <1>5
<1>10. Plan("cwo", r, w, "end")
  BY <1>3, <1>9, OfferPlan
<1>11. /\ r.stage = "READY" /\ r.changes = [s.mem.changes EXCEPT ![c] = major]
       /\ r.decisions = IF Asked(s, c, major) THEN s.mem.decisions
                        ELSE [s.mem.decisions EXCEPT ![o] = Offer(major)]
  BY <1>9, OfferRecordTyped
<1>12. o \in Decision /\ o[1] = c
  BY <1>9, OfferIdTyped
<1>13. OfferEntry(s, c).change = c /\ OfferEntry(s, c).candidate = s.ledger.candidate
  BY <1>9, OfferEntryTyped
<1>14. /\ e.files = s.files /\ e.ledger = s.ledger /\ e.notes = s.notes
       /\ s.files \in [Change -> Revisions] /\ s.notes \in Decisions
  BY <1>9, <1>2 DEF ScanTyped, Scanned
<1>15. PICK f : Leads(crashes = 0, answer, Disk, w, f) /\ OfferDone(e, s, c, major, f)
  <2> DEFINE free == crashes = 0
  <2>1. Leads(free, answer, Disk, s.writes, e) /\ e.ledger = s.ledger
    BY <1>2, <1>14
  <2> HIDE DEF free
  <2>2. \E f : Leads(free, answer, Disk, OfferWrites(s, c, major), f)
                 /\ OfferDone(e, s, c, major, f)
    BY <1>7, <1>9, <2>1, OfferLeads
  <2> QED BY <2>2 DEF free
<1> HIDE DEF w, r, o
<1>16. /\ f.ledger = OfferEntry(s, c) /\ f.files = [e.files EXCEPT ![c] = major]
       /\ f.record = r
       /\ f.notes = IF Asked(s, c, major) THEN e.notes ELSE OfferNotes(s, c, major)
  BY <1>15 DEF OfferDone, r
<1>17. ASSUME crashes = 0
       PROVE  Agrees(f, r)
  <2>1. Agrees(e, s.mem)
    BY <1>2, <1>17 DEF Scanned
  <2>2. IF s.mem.decisions[o].status = "PENDING"
          THEN r.decisions = s.mem.decisions /\ f.notes = e.notes
          ELSE /\ r.decisions = [s.mem.decisions EXCEPT ![o] = Offer(major)]
               /\ f.notes = [e.notes EXCEPT ![o] = Offer(major)]
    BY <1>11, <1>14, <1>16 DEF Asked, OfferNotes, o
  <2>3. /\ e.ledger.status # "ACCEPTED" /\ e.ledger.change = c
        /\ f.ledger.change = c /\ f.ledger.candidate = e.ledger.candidate
        /\ e.notes \in Decisions /\ e.files \in [Change -> Revisions]
    BY <1>7, <1>13, <1>14, <1>16
  <2>4. major.candidate = e.files[c].candidate
    BY <1>5, <1>6, <1>14
  <2>5. /\ s.mem \in Records /\ s.mem.stage = "AUTHORITY_CHANGE_ANALYSIS"
        /\ c = s.mem.current /\ r.stage = "READY"
        /\ r.changes = [s.mem.changes EXCEPT ![c] = major]
        /\ f.files = [e.files EXCEPT ![c] = major]
        /\ c \in Change /\ major \in Revisions /\ major.candidate \in Content
        /\ major.meaning = "MAJOR"
    BY <1>1, <1>5, <1>6, <1>8, <1>9, <1>11, <1>16
  <2>6. Offered(e, s.mem, c, major, o, f, r)
    BY <1>12, <2>2, <2>3, <2>4, <2>5 DEF Offered
  <2> QED BY <1>12, <2>1, <2>3, <2>5, <2>6, OfferAgrees
<1>18. crashes = 0 => Agrees(f, f.record) /\ Remembers("end", r, f)
  BY <1>16, <1>17 DEF Remembers
<1> QED BY <1>1, <1>10, <1>15, <1>18, PlanSound

LEMMA AnalyseSound ==
  ASSUME Sound, Analyse
  PROVE  Sound'
BY AnalyseCases, RefusedSound, MinorSound, OfferSound DEF Offering

\* An answer is no longer waited for, and changes nothing else that must agree.
LEMMA AnsweredAgrees ==
  ASSUME TypeOK, answer \in Decision, NEW d, Agrees(d, mem["cwo"])
  PROVE  Agrees(d, Answered) /\ Answered.decisions[answer].status # "PENDING"
<1> DEFINE m == mem["cwo"]
<1>1. /\ m \in Records /\ Answered.stage = "READY" /\ Answered.changes = m.changes
      /\ Answered.decisions = [m.decisions EXCEPT ![answer].status = "RESOLVED"]
  BY AnsweredTyped
<1>2. OneCandidate(d) /\ Knows(d, m) /\ Offers(d, m)
  BY DEF Agrees
<1> HIDE DEF m
<1>3. m.decisions \in Decisions
  BY <1>1 DEF Records
<1>4. /\ Answered.decisions[answer].status = "RESOLVED"
      /\ \A x \in Decision \ {answer} : Answered.decisions[x] = m.decisions[x]
  BY <1>1, <1>3 DEF Decisions
<1>5. Knows(d, Answered)
  BY <1>1, <1>2 DEF Knows
<1>6. Offers(d, Answered)
  BY <1>1, <1>2, <1>4 DEF Offers
<1>7. Analysing(Answered)
  BY <1>1 DEF Analysing
<1> QED BY <1>2, <1>4, <1>5, <1>6, <1>7 DEF Agrees

PromotedDone(e, s, f) ==
  /\ f.ledger = PromotedEntry(s) /\ f.files = [e.files EXCEPT ![answer[1]] = Given]
  /\ f.notes = PromotedNotes(s) /\ f.record = PromotedRecord(s)

\* The answer accepts the candidate that it is about.
LEMMA PromotedLeads ==
  ASSUME TypeOK, answer \in Decision, answer # <<>>, NEW s, ScanTyped(s),
         Given.candidate \in Content, NEW free, NEW d, NEW e,
         Leads(free, answer, d, s.writes, e), e.files \in [Change -> Revisions],
         e.files[answer[1]].candidate = Given.candidate,
         free => \/ /\ e.notes[answer].status = "SUPERSEDED"
                    /\ e.record.decisions[answer].status # "SUPERSEDED"
                 \/ e.notes[answer] = [status |-> "PENDING", of |-> Given.candidate]
  PROVE  \E f : Leads(free, answer, d, PromotedWrites(s), f) /\ PromotedDone(e, s, f)
<1> DEFINE c == answer[1]
           a == ToLedger(PromotedEntry(s))
           b == ToChange(c, Given)
           n == ToNotes(PromotedNotes(s))
           r == PromotedRecord(s)
           e1 == Wrote(e, a)
           e2 == Wrote(e1, b)
           e3 == Wrote(e2, n)
           e4 == Wrote(e3, ToRecord(r))
           w1 == Append(s.writes, a)
           w2 == Append(w1, b)
           w3 == Append(w2, n)
<1>1. /\ r \in Records /\ PromotedEntry(s) \in Entries
      /\ PromotedNotes(s) \in Decisions
      /\ PromotedEntry(s).accepted = Given.candidate /\ PromotedEntry(s).change = c
  <2>1. /\ PromotedRecord(s) \in Records /\ PromotedEntry(s) \in Entries
        /\ PromotedNotes(s) \in Decisions
    BY PromotedTyped
  <2>2. /\ PromotedEntry(s).accepted = Given.candidate
        /\ PromotedEntry(s).change = answer[1]
    BY PromotedTyped
  <2> QED BY <2>1, <2>2
<1>2. c \in Change /\ Given \in Revisions
  BY AnsweredTyped
<1>3. a \in Writing /\ b \in Writing /\ n \in Writing /\ n.file = "decision"
  BY <1>1, <1>2, WritingTyped DEF ToNotes
<1>4. s.writes \in Seq(Writing)
  BY DEF ScanTyped
<1>5. e1.ledger = PromotedEntry(s) /\ e1.files = e.files /\ e1.notes = e.notes
  BY WroteLedger
<1> HIDE DEF e1
<1>6. /\ e2.ledger = PromotedEntry(s) /\ e2.files = [e.files EXCEPT ![c] = Given]
      /\ e2.notes = e.notes
  <2> HIDE DEF c
  <2>1. e2.ledger = e1.ledger /\ e2.notes = e1.notes
    BY DEF Wrote, ToChange
  <2>2. e2.files = [e1.files EXCEPT ![c] = Given]
    BY DEF Wrote, ToChange
  <2> QED BY <1>5, <2>1, <2>2
<1> HIDE DEF e2
<1>7. e3.ledger = PromotedEntry(s) /\ e3.files = e2.files /\ e3.notes = PromotedNotes(s)
  <2>1. /\ e3.ledger = e2.ledger /\ e3.files = e2.files
        /\ e3.notes = PromotedNotes(s)
    BY WroteNotes
  <2> QED BY <1>6, <2>1
<1> HIDE DEF e3, a, b, n
<1>8. w1 \in Seq(Writing)
  BY <1>3, <1>4
<1>9. w2 \in Seq(Writing)
  BY <1>3, <1>8
<1>10. w3 \in Seq(Writing)
  BY <1>3, <1>9
<1> HIDE DEF c, r, w1, w2, w3
<1>11. Leads(free, answer, d, w1, e1) /\ OnFile(e1)
  <2>1. OnFile(e1)
    BY <1>1, <1>5 DEF OnFile, c
  <2>2. free => Approved(answer, e, e1)
    BY <1>1, <1>5 DEF Approved
  <2>3. Wrote(e, a) = e1 /\ w1 = Append(s.writes, a)
    BY DEF e1, w1
  <2> QED BY <1>3, <1>4, <2>1, <2>2, <2>3, AppendLeads
<1>12. Leads(free, answer, d, w2, e2)
  <2>1. e1.ledger.change # None => e2.files[e1.ledger.change].candidate
                                     = e1.files[e1.ledger.change].candidate
    BY <1>1, <1>2, <1>5, <1>6 DEF c
  <2>2. Wrote(e1, b) = e2 /\ w2 = Append(w1, b) /\ e2.ledger = e1.ledger
    BY <1>5, <1>6 DEF e2, w2
  <2> QED BY <1>3, <1>8, <1>11, <2>1, <2>2, LedgerLeads
<1>13. Leads(free, answer, d, w3, e3)
  <2>1. Wrote(e2, n) = e3 /\ w3 = Append(w2, n)
    BY DEF e3, w3
  <2> QED BY <1>3, <1>9, <1>12, <2>1, RecordLeads
<1>14. /\ Leads(free, answer, d, Append(w3, ToRecord(r)), e4)
       /\ e4.ledger = e3.ledger /\ e4.files = e3.files /\ e4.notes = e3.notes
       /\ e4.record = r
  BY <1>1, <1>10, <1>13, SavedLeads
<1> HIDE DEF e4
<1>15. PromotedDone(e, s, e4)
  BY <1>6, <1>7, <1>14 DEF PromotedDone, c, r
<1>16. PromotedWrites(s) = Append(w3, ToRecord(r))
  BY DEF PromotedWrites, w1, w2, w3, a, b, n, c, r
<1> QED BY <1>14, <1>15, <1>16

\* What the scan has made of the answered record: the decision is not open again,
\* and a change that is not open was not rolled over.
LEMMA AnsweredScan ==
  ASSUME TypeOK, answer \in Decision, NEW s, s = Scan(Answered),
         Registered(s, answer[1], Given.candidate)
  PROVE  /\ s.mem.stage = "READY" /\ s.mem.decisions[answer].status # "PENDING"
         /\ \/ s.mem.changes[answer[1]] = Given
            \/ s.mem.changes[answer[1]].meaning = "OPEN"
<1>1. /\ Answered \in Records /\ Answered.stage = "READY"
      /\ Answered.decisions = [mem["cwo"].decisions EXCEPT ![answer].status = "RESOLVED"]
      /\ Answered.changes = mem["cwo"].changes /\ mem["cwo"] \in Records
  BY AnsweredTyped
<1>2. Answered.changes[answer[1]] = Given
  BY <1>1 DEF Given
<1>3. mem["cwo"].decisions \in Decisions
  BY <1>1 DEF Records
<1>4. Answered.decisions[answer].status = "RESOLVED"
  BY <1>1, <1>3 DEF Decisions
<1>5. \/ s.mem = Answered
      \/ /\ Pending /\ RollsOver /\ s = Rollover(Answered)
         /\ s.mem.changes[answer[1]].meaning = "OPEN"
  BY <1>1, <1>2, ScanConfirms
<1>6. CASE s.mem = Answered
  BY <1>1, <1>2, <1>4, <1>6
<1>7. CASE /\ Pending /\ RollsOver /\ s = Rollover(Answered)
           /\ s.mem.changes[answer[1]].meaning = "OPEN"
  <2>1. /\ s.mem.stage = Answered.stage
        /\ s.mem.decisions = Withdrawn(Answered.decisions, Gone(Answered),
                                       files[ledger.change].candidate)
    BY <1>1, <1>7, RolledScan
  <2>2. s.mem.decisions[answer].status \in {"SUPERSEDED", "RESOLVED"}
    BY <1>4, <2>1 DEF Withdrawn
  <2> QED BY <1>1, <1>7, <2>1, <2>2
<1> QED BY <1>5, <1>6, <1>7

\* The decision that is answered is about the candidate that the answer accepts,
\* unless it was withdrawn in its file behind the record.
LEMMA AnsweredNote ==
  ASSUME TypeOK, answer \in Decision, Agrees(Disk, mem["cwo"]), mem["cwo"] = record,
         record.decisions[answer].status = "PENDING",
         NEW s, s = Scan(Answered), Registered(s, answer[1], Given.candidate),
         NEW e, Scanned(Answered, s, e)
  PROVE  \/ /\ e.notes[answer].status = "SUPERSEDED"
            /\ e.record.decisions[answer].status # "SUPERSEDED"
         \/ e.notes[answer] = [status |-> "PENDING", of |-> Given.candidate]
<1> DEFINE c == answer[1]
<1>1. /\ Answered \in Records /\ Answered.changes[c] = Given /\ c \in Change
      /\ Answered.decisions[answer].status = "RESOLVED"
  <2>1. /\ Answered \in Records /\ c \in Change /\ Answered.changes = record.changes
        /\ Answered.decisions = [record.decisions EXCEPT ![answer].status = "RESOLVED"]
    BY AnsweredTyped
  <2>2. record.decisions \in Decisions
    BY DEF TypeOK, Records
  <2> QED BY <2>1, <2>2 DEF Given, Decisions
<1>2. notes \in Decisions
  BY DEF TypeOK
<1>3. notes[answer].status # "SUPERSEDED" =>
        /\ notes[answer] = [status |-> "PENDING", of |-> Given.candidate]
        /\ Given = files[c]
  <2>1. SUFFICES ASSUME notes[answer].status # "SUPERSEDED"
                 PROVE  /\ notes[answer] = [status |-> "PENDING", of |-> Given.candidate]
                        /\ Given = files[c]
    OBVIOUS
  <2>2. /\ notes[answer] = record.decisions[answer] /\ record.changes[c] = files[c]
        /\ record.changes[c].candidate = record.decisions[answer].of
    BY <2>1, DiskParts DEF Agrees, Offers
  <2>3. notes[answer] \in [status : {"NONE", "PENDING", "RESOLVED", "SUPERSEDED"},
                           of : Maybe(Content)]
    BY <1>2 DEF Decisions
  <2>4. Given = record.changes[c]
    BY DEF Given
  <2> QED BY <2>2, <2>3, <2>4
<1>4. e.notes = s.notes
  BY DEF Scanned
<1>5. CASE Pending /\ RollsOver /\ s = Rollover(Answered) /\ e.record = s.mem
  <2>1. /\ s.notes = GoneNotes(Answered) /\ s.found = {ledger.change}
        /\ s.files = [files EXCEPT ![ledger.change] = RolledRevision]
        /\ s.mem.decisions = Withdrawn(Answered.decisions, Gone(Answered),
                                       files[ledger.change].candidate)
    BY <1>1, <1>5, RolledScan
  <2>2. c = ledger.change /\ Given.candidate = branch
    <3>1. files \in [Change -> Revisions] /\ RolledRevision.candidate = branch
      BY DEF TypeOK, RolledRevision
    <3>2. c = ledger.change /\ s.files[c].candidate = Given.candidate
      BY <2>1 DEF Registered
    <3> QED BY <1>1, <2>1, <3>1, <3>2
  <2>3. notes[answer].status = "SUPERSEDED"
    BY <1>3, <1>5, <2>2 DEF RollsOver
  <2>4. s.notes[answer].status = "SUPERSEDED"
    BY <2>1, <2>3 DEF GoneNotes, Withdrawn
  <2>5. answer \notin Gone(Answered)
    BY <2>3 DEF Gone, Superseded
  <2>6. s.mem.decisions[answer] = Answered.decisions[answer]
    BY <2>1, <2>5 DEF Withdrawn
  <2> QED BY <1>1, <1>4, <1>5, <2>4, <2>6
<1>6. CASE s.notes = notes /\ e.record = record
  BY <1>3, <1>4, <1>6
<1> QED BY <1>5, <1>6 DEF Scanned

\* After it every file agrees with the record.
LEMMA PromotedAgrees ==
  ASSUME TypeOK, answer \in Decision, NEW s, ScanTyped(s), s.mem.stage = "READY",
         s.mem.decisions[answer].status # "PENDING",
         s.mem.changes[answer[1]] = Given \/ s.mem.changes[answer[1]].meaning = "OPEN",
         Given.candidate \in Content,
         NEW e, Agrees(e, s.mem), e.files \in [Change -> Revisions], e.notes = s.notes,
         NEW f, PromotedDone(e, s, f)
  PROVE  Agrees(f, f.record)
<1> DEFINE c == answer[1]
           r == PromotedRecord(s)
<1>1. /\ r.stage = s.mem.stage /\ r.decisions = s.mem.decisions
      /\ r.changes = [s.mem.changes EXCEPT ![c] = Given]
      /\ PromotedEntry(s).status = "ACCEPTED"
  BY PromotedTyped
<1>2. /\ c \in Change /\ s.mem.changes \in [Change -> Revisions]
      /\ s.notes \in Decisions
  BY AnsweredTyped DEF ScanTyped, Records
<1> HIDE DEF c, r
<1>3. /\ f.ledger = PromotedEntry(s) /\ f.files = [e.files EXCEPT ![c] = Given]
      /\ f.notes = [s.notes EXCEPT ![answer] = r.decisions[answer]] /\ f.record = r
  BY DEF PromotedDone, PromotedNotes, c, r
<1>4. /\ f.files[c] = Given /\ r.changes[c] = Given
      /\ \A b \in Change \ {c} : f.files[b] = e.files[b] /\ r.changes[b] = s.mem.changes[b]
  BY <1>1, <1>2, <1>3
<1>5. OneCandidate(e) /\ Knows(e, s.mem) /\ Offers(e, s.mem)
  BY DEF Agrees
<1>6. OneCandidate(f)
  <2>1. \A b \in Change : f.files[b].candidate = None => f.files[b] = NoRevision
    BY <1>4, <1>5, RemoteAssumption DEF OneCandidate
  <2> QED BY <1>1, <1>3, <2>1 DEF OneCandidate
<1>7. Knows(f, r)
  BY <1>4, <1>5 DEF Knows
<1>8. Offers(f, r)
  <2> SUFFICES ASSUME NEW x \in Decision, r.decisions[x].status = "PENDING",
                      f.notes[x].status # "SUPERSEDED"
               PROVE  /\ f.notes[x] = r.decisions[x] /\ r.decisions[x].of # None
                      /\ r.changes[x[1]] = f.files[x[1]]
                      /\ r.changes[x[1]].candidate = r.decisions[x].of
                      /\ r.changes[x[1]].meaning = "MAJOR"
    BY DEF Offers
  <2>1. x # answer
    BY <1>1
  <2>2. f.notes[x] = e.notes[x]
    BY <1>2, <1>3, <2>1 DEF Decisions
  <2>3. /\ e.notes[x] = r.decisions[x] /\ r.decisions[x].of # None
        /\ s.mem.changes[x[1]] = e.files[x[1]]
        /\ s.mem.changes[x[1]].candidate = r.decisions[x].of
        /\ s.mem.changes[x[1]].meaning = "MAJOR"
    BY <1>1, <1>5, <2>2 DEF Offers
  <2>4. x[1] \in Change
    BY DEF Decision
  <2>5. x[1] = c => s.mem.changes[x[1]] = Given
    BY <2>3 DEF c
  <2> QED BY <1>4, <2>2, <2>3, <2>4, <2>5
<1>9. Analysing(r)
  BY <1>1 DEF Analysing
<1> QED BY <1>3, <1>6, <1>7, <1>8, <1>9 DEF Agrees

LEMMA DecideSound ==
  ASSUME Sound, Decide
  PROVE  Sound'
<1> DEFINE m == mem["cwo"]
           s == Scan(Answered)
           c == answer[1]
<1>1. "cwo" \in Process /\ pc["cwo"] = "decide" /\ writes["cwo"] = <<>>
  BY DEF Decide, At, Process
<1>2. /\ Typed' /\ TypeOK /\ answer \in Decision
      /\ crashes = 0 => m.decisions[answer].status = "PENDING"
  BY <1>1, DecideTyped DEF Sound, Typed
<1>3. answer # <<>>
  <2>1. answer = <<answer[1], answer[2]>>
    BY <1>2 DEF Decision
  <2> QED BY <2>1
<1>4. OnFile(Disk) /\ (crashes = 0 => Agrees(Disk, record) /\ m = record)
  BY <1>1, BusyAlone, Settled, DiskParts DEF Remembers
<1>5. /\ Answered \in Records /\ c \in Change /\ Given \in Revisions
      /\ Answered.changes[c] = Given
  BY <1>2, AnsweredTyped DEF Given
<1>6. crashes = 0 => /\ Agrees(Disk, Answered)
                     /\ Answered.decisions[answer].status # "PENDING"
  BY <1>2, <1>4, AnsweredAgrees
<1>7. ScanTyped(s)
  BY <1>2, <1>5, ScanIsTyped
<1>8. PICK e : Leads(crashes = 0, answer, Disk, s.writes, e) /\ Scanned(Answered, s, e)
  BY <1>2, <1>4, <1>5, <1>6, ScanLeads
<1>9. \/ Plan("cwo", s.mem, s.writes, "end")
      \/ /\ Registered(s, c, Given.candidate)
         /\ Plan("cwo", PromotedRecord(s), PromotedWrites(s), "end")
  BY <1>2, DecidePlan
<1>10. CASE Plan("cwo", s.mem, s.writes, "end")
  <2>1. crashes = 0 => Agrees(e, e.record) /\ Remembers("end", s.mem, e)
    BY <1>8 DEF Scanned, Remembers
  <2> HIDE DEF s
  <2> QED BY <1>1, <1>2, <1>8, <1>10, <2>1, PlanSound
<1>11. CASE /\ Registered(s, c, Given.candidate)
            /\ Plan("cwo", PromotedRecord(s), PromotedWrites(s), "end")
  <2>1. Given.candidate \in Content /\ s.files[c].candidate = Given.candidate
    BY <1>7, <1>11, RegisteredTyped
  <2>2. s = Scan(Answered) /\ c = answer[1]
    OBVIOUS
  <2> HIDE DEF s, c
  <2>3. /\ e.files = s.files /\ e.files \in [Change -> Revisions] /\ e.notes = s.notes
        /\ crashes = 0 => Agrees(e, s.mem)
    BY <1>7, <1>8 DEF ScanTyped, Scanned
  <2>4. crashes = 0 => \/ /\ e.notes[answer].status = "SUPERSEDED"
                          /\ e.record.decisions[answer].status # "SUPERSEDED"
                       \/ e.notes[answer] = [status |-> "PENDING", of |-> Given.candidate]
    BY <1>2, <1>4, <1>8, <1>11, <2>2, AnsweredNote
  <2>5. /\ s.mem.stage = "READY" /\ s.mem.decisions[answer].status # "PENDING"
        /\ \/ s.mem.changes[answer[1]] = Given
           \/ s.mem.changes[answer[1]].meaning = "OPEN"
    BY <1>2, <1>11, <2>2, AnsweredScan
  <2>6. PICK f : /\ Leads(crashes = 0, answer, Disk, PromotedWrites(s), f)
                 /\ PromotedDone(e, s, f)
    <3> DEFINE free == crashes = 0
    <3>1. /\ Leads(free, answer, Disk, s.writes, e)
          /\ free => \/ /\ e.notes[answer].status = "SUPERSEDED"
                        /\ e.record.decisions[answer].status # "SUPERSEDED"
                     \/ e.notes[answer] = [status |-> "PENDING", of |-> Given.candidate]
          /\ e.files[answer[1]].candidate = Given.candidate
      BY <1>8, <2>1, <2>2, <2>3, <2>4
    <3> HIDE DEF free
    <3>2. \E f : Leads(free, answer, Disk, PromotedWrites(s), f) /\ PromotedDone(e, s, f)
      BY <1>2, <1>3, <1>7, <2>1, <2>3, <3>1, PromotedLeads
    <3> QED BY <3>2 DEF free
  <2>7. crashes = 0 => Agrees(f, f.record) /\ Remembers("end", PromotedRecord(s), f)
    BY <1>2, <1>7, <2>1, <2>3, <2>5, <2>6, PromotedAgrees DEF Remembers
  <2> QED BY <1>1, <1>2, <1>11, <2>6, <2>7, PlanSound
<1> QED BY <1>9, <1>10, <1>11

-----------------------------------------------------------------------------
(* The other steps *)

LEMMA WriteIsHead ==
  ASSUME Sound, NEW p \in Process, Write(p)
  PROVE  /\ Alone(p) /\ pc[p] # "idle" /\ writes[p] # <<>> /\ writes[p] \in Seq(Writing)
         /\ Disk' = Wrote(Disk, Head(writes[p]))
         /\ writes' = [writes EXCEPT ![p] = Tail(writes[p])]
         /\ UNCHANGED <<branch, submissions, pc, mem, answer, crashes>>
<1>1. /\ writes[p] # <<>> /\ writes' = [writes EXCEPT ![p] = Tail(writes[p])]
      /\ UNCHANGED <<branch, submissions, pc, mem, answer, crashes>>
  BY DEF Write
<1>2. pc[p] # "idle" /\ writes[p] \in Seq(Writing)
  BY <1>1 DEF Sound, Typed
<1>3. Alone(p)
  BY <1>2, BusyAlone
<1>4. Disk' = Wrote(Disk, Head(writes[p]))
  BY DEF Write, Wrote, Disk
<1> QED BY <1>1, <1>2, <1>3, <1>4

LEMMA WriteSound ==
  ASSUME Sound, NEW p \in Process, Write(p)
  PROVE  Sound'
<1>1. /\ Alone(p) /\ pc[p] # "idle" /\ writes[p] # <<>> /\ writes[p] \in Seq(Writing)
      /\ Disk' = Wrote(Disk, Head(writes[p]))
      /\ writes' = [writes EXCEPT ![p] = Tail(writes[p])]
      /\ UNCHANGED <<branch, submissions, pc, mem, answer, crashes>>
  BY WriteIsHead
<1>2. Typed'
  BY WriteTyped DEF Sound
<1>3. writes \in [Process -> Seq(Writing)]
  BY DEF Sound, Typed
<1>4. PICK e : Planned(p, e)
  BY <1>1 DEF Sound
<1>5. Leads(crashes = 0, answer, Wrote(Disk, Head(writes[p])), Tail(writes[p]), e)
  <2> DEFINE free == crashes = 0
             w == writes[p]
  <2>1. Leads(free, answer, Disk, w, e) /\ w \in Seq(Writing) /\ w # <<>>
    BY <1>1, <1>4 DEF Planned
  <2> HIDE DEF free, w
  <2>2. Leads(free, answer, Wrote(Disk, Head(w)), Tail(w), e)
    BY <2>1, HeadLeads
  <2> QED BY <2>2 DEF free, w
<1>6. Planned(p, e)'
  <2>1. writes'[p] = Tail(writes[p])
    BY <1>1, <1>3
  <2>2. Leads(crashes' = 0, answer', Disk', writes'[p], e)
    BY <1>1, <1>5, <2>1
  <2>3. crashes' = 0 => Agrees(e, e.record) /\ Remembers(pc'[p], mem'[p], e)
    BY <1>1, <1>4 DEF Planned
  <2> QED BY <2>2, <2>3 DEF Planned
<1>7. Alone(p)' /\ \A q \in Process : Alone(q)' => q = p
  BY <1>1 DEF Alone
<1>8. \A q \in Process : pc'[q] = "idle" => writes'[q] = <<>>
  BY <1>1, <1>3 DEF Sound
<1>9. /\ answer' # <<>> => pc'["cwo"] \in {"decide", "end"}
      /\ pc'["cwo"] = "decide" /\ crashes' = 0 =>
           mem'["cwo"].decisions[answer'].status = "PENDING"
      /\ pc'["cwo"] = "agent" => mem'["cwo"].stage = "AUTHORITY_CHANGE_ANALYSIS"
  BY <1>1 DEF Sound
<1> QED BY <1>2, <1>6, <1>7, <1>8, <1>9 DEF Sound

\* No process is at work.
Quiet ==
  /\ Typed
  /\ \A p \in Process : pc[p] = "idle" /\ writes[p] = <<>>
  /\ answer = <<>> /\ OnFile(Disk)
  /\ crashes = 0 => Agrees(Disk, record)

LEMMA QuietSound == Quiet => Sound
<1> SUFFICES ASSUME Quiet
             PROVE  Sound
  OBVIOUS
<1>1. /\ Typed
      /\ \A p \in Process : pc[p] = "idle" /\ writes[p] = <<>> /\ Alone(p)
      /\ answer = <<>> /\ OnFile(Disk) /\ (crashes = 0 => Agrees(Disk, record))
  BY DEF Quiet, Alone
<1>2. \A p \in Process : Planned(p, Disk)
  <2> TAKE p \in Process
  <2>1. Leads(crashes = 0, answer, Disk, <<>>, Disk)
    BY <1>1, NothingLeads
  <2>2. writes[p] = <<>> /\ pc[p] = "idle"
    BY <1>1
  <2> QED BY <1>1, <2>1, <2>2, DiskParts DEF Planned, Remembers
<1>3. "cwo" \in Process
  BY DEF Process
<1>4. pc["cwo"] = "idle"
  BY <1>1, <1>3
<1>5. \E p \in Process : Alone(p)
  BY <1>1, <1>3
<1> QED BY <1>1, <1>2, <1>4, <1>5 DEF Sound

LEMMA QuietNext == Quiet' => Sound'
BY QuietSound, PTL

\* A process stops: at its end, or wherever it dies.
LEMMA StopSound ==
  ASSUME Sound, NEW p \in Process, Return(p) \/ Crash(p)
  PROVE  Sound'
<1>1. /\ pc[p] # "idle" /\ UNCHANGED disk
      /\ pc' = [pc EXCEPT ![p] = "idle"]
      /\ answer' = IF p = "cwo" THEN <<>> ELSE answer
  BY DEF Return, Crash
<1>2. Alone(p)
  BY <1>1, BusyAlone
<1>3. Typed'
  BY StopTyped DEF Sound
<1>4. pc \in [Process -> Point] /\ writes \in [Process -> Seq(Writing)]
  BY DEF Sound, Typed, TypeOK, Point
<1>5. \A q \in Process : pc'[q] = "idle"
  BY <1>1, <1>2, <1>4 DEF Alone
<1>6. \A q \in Process : writes'[q] = <<>>
  <2>1. \A q \in Process \ {p} : writes[q] = <<>>
    BY <1>2 DEF Alone, Sound
  <2>2. CASE Return(p)
    <3>1. writes' = writes /\ writes[p] = <<>>
      BY <2>2 DEF Return
    <3> QED BY <2>1, <3>1
  <2>3. CASE Crash(p)
    <3>1. writes' = [writes EXCEPT ![p] = <<>>]
      BY <2>3 DEF Crash
    <3> QED BY <1>4, <2>1, <3>1
  <2> QED BY <2>2, <2>3
<1>7. answer' = <<>>
  <2>1. CASE p = "cwo"
    BY <1>1, <2>1
  <2>2. CASE p # "cwo"
    <3>1. "cwo" \in Process \ {p}
      BY <2>2 DEF Process
    <3>2. pc["cwo"] = "idle"
      BY <1>2, <3>1 DEF Alone
    <3>3. answer = <<>>
      BY <3>2 DEF Sound
    <3> QED BY <1>1, <2>2, <3>3
  <2> QED BY <2>1, <2>2
<1>8. OnFile(Disk)
  <2>1. PICK e : Planned(p, e)
    BY <1>2 DEF Sound
  <2>2. writes[p] \in Seq(Writing)
    BY <1>4
  <2> QED BY <2>1, <2>2, LeadsFromOnFile DEF Planned
<1>9. crashes' = 0 => crashes = 0 /\ writes[p] = <<>>
  <2>1. crashes \in Nat
    BY RemoteAssumption DEF Sound, Typed, TypeOK
  <2> QED BY <2>1 DEF Return, Crash
<1>10. crashes' = 0 => Agrees(Disk, record)
  BY <1>2, <1>9, Settled
<1>11. Disk' = Disk /\ record' = record
  BY <1>1, SameDisk DEF disk
<1>12. OnFile(Disk') /\ (crashes' = 0 => Agrees(Disk', record'))
  BY <1>8, <1>10, <1>11
<1>13. Quiet'
  BY <1>3, <1>5, <1>6, <1>7, <1>12 DEF Quiet
<1> QED BY <1>13, QuietNext

\* A process starts: no other is at work, and it loads the record of the disk.
LEMMA LoadSound ==
  ASSUME Sound, Exclusive = TRUE, StartCheck \/ StartStep \/ StartDecide
  PROVE  Sound'
<1>1. PICK p \in Process, at \in {"scan", "gate", "decide"} : Load(p, at)
  BY DEF StartCheck, StartStep, StartDecide, Process
<1>2. /\ pc = Idle /\ UNCHANGED <<disk, writes, crashes>>
      /\ pc' = [pc EXCEPT ![p] = at] /\ mem' = [mem EXCEPT ![p] = record]
  BY <1>1 DEF Load, MayStart
<1>3. \A q \in Process : pc[q] = "idle" /\ writes[q] = <<>>
  BY <1>2 DEF Sound, Idle
<1>4. "cwo" \in Process
  BY DEF Process
<1>5. answer = <<>>
  <2>1. pc["cwo"] = "idle"
    BY <1>3, <1>4
  <2> QED BY <2>1 DEF Sound
<1>6. OnFile(Disk) /\ (crashes = 0 => Agrees(Disk, record))
  <2>1. Alone(p) /\ writes[p] = <<>>
    BY <1>3 DEF Alone
  <2> QED BY <2>1, Settled
<1>7. Typed'
  BY LoadTyped DEF Sound
<1>8. pc \in [Process -> Point] /\ mem \in [Process -> Records]
  BY DEF Sound, Typed, TypeOK, Point
<1>9. /\ pc'[p] = at /\ mem'[p] = record
      /\ \A q \in Process \ {p} : pc'[q] = "idle"
  BY <1>2, <1>3, <1>8
<1>10. Disk' = Disk /\ record' = record /\ crashes' = crashes /\ writes' = writes
  BY <1>2, SameDisk DEF disk
<1>11. Alone(p)' /\ \A q \in Process : Alone(q)' => q = p
  BY <1>9 DEF Alone
<1>12. PICK e : Planned(p, e)'
  <2>1. PICK e : e = Disk
    OBVIOUS
  <2>2. Leads(crashes' = 0, answer', Disk', <<>>, e)
    BY <1>6, <1>10, <2>1, NothingLeads
  <2>3. writes'[p] = <<>> /\ e.record = record
    BY <1>3, <1>10, <2>1, DiskParts
  <2>4. crashes' = 0 => Agrees(e, e.record) /\ Remembers(pc'[p], mem'[p], e)
    BY <1>6, <1>9, <1>10, <2>1, <2>3 DEF Remembers
  <2>5. Planned(p, e)'
    BY <2>2, <2>3, <2>4 DEF Planned
  <2> QED BY <2>5
<1>13. \A q \in Process : pc'[q] = "idle" => writes'[q] = <<>>
  BY <1>3, <1>10
<1>14. /\ answer' # <<>> => pc'["cwo"] = "decide"
       /\ pc'["cwo"] = "decide" => mem'["cwo"].decisions[answer'].status = "PENDING"
  <2>1. CASE StartDecide
    <3>1. /\ pc' = [pc EXCEPT !["cwo"] = "decide"]
          /\ mem' = [mem EXCEPT !["cwo"] = record]
          /\ record.decisions[answer'].status = "PENDING"
      BY <2>1 DEF StartDecide, Load
    <3> QED BY <1>4, <1>8, <3>1
  <2>2. CASE StartStep
    <3>1. pc' = [pc EXCEPT !["cwo"] = "gate"] /\ answer' = answer
      BY <2>2 DEF StartStep, Load
    <3> QED BY <1>4, <1>5, <1>8, <3>1
  <2>3. CASE StartCheck
    <3>1. pc' = [pc EXCEPT !["check"] = "scan"] /\ answer' = answer
      BY <2>3 DEF StartCheck, Load
    <3>2. pc'["cwo"] = "idle"
      BY <1>3, <1>4, <1>8, <3>1
    <3> QED BY <1>5, <3>1, <3>2
  <2> QED BY <2>1, <2>2, <2>3
<1>15. pc'["cwo"] # "agent"
  BY <1>4, <1>9
<1> QED BY <1>4, <1>7, <1>11, <1>12, <1>13, <1>14, <1>15 DEF Sound

\* Submissions move the branch only, and a step may change nothing.
LEMMA IdleSound ==
  ASSUME Sound, Submit \/ UNCHANGED vars
  PROVE  Sound'
<1>1. /\ UNCHANGED <<ledger, files, notes, record, pc, mem, writes, answer, crashes>>
      /\ Disk' = Disk
  BY SameDisk DEF Submit, vars, disk
<1>2. Typed'
  BY StepTyped DEF Sound, Next
<1>3. \A p \in Process : Alone(p)' = Alone(p)
  BY <1>1 DEF Alone
<1>4. \A p \in Process : \A e : Planned(p, e)' = Planned(p, e)
  BY <1>1 DEF Planned
<1> QED BY <1>1, <1>2, <1>3, <1>4 DEF Sound

LEMMA InitSound ==
  ASSUME Init
  PROVE  Sound
<1>1. Typed
  BY InitTyped
<1>2. /\ \A p \in Process : pc[p] = "idle" /\ writes[p] = <<>>
      /\ answer = <<>>
  BY DEF Init, Idle
<1>3. ledger.status = "ACCEPTED" /\ ledger.change = None
  BY DEF Init
<1>4. /\ \A c \in Change : files[c] = NoRevision /\ record.changes[c] = NoRevision
      /\ \A d \in Decision : record.decisions[d].status = "NONE"
      /\ record.stage = "READY"
  BY DEF Init, NoDecision
<1>5. OnFile(Disk) /\ Agrees(Disk, record)
  <2>1. OnFile(Disk) /\ OneCandidate(Disk)
    BY <1>3, <1>4, DiskParts DEF OnFile, OneCandidate
  <2>2. Knows(Disk, record)
    BY <1>4, DiskParts DEF Knows
  <2>3. Offers(Disk, record) /\ Analysing(record)
    BY <1>4 DEF Offers, Analysing
  <2> QED BY <2>1, <2>2, <2>3 DEF Agrees
<1>6. Quiet
  BY <1>1, <1>2, <1>5 DEF Quiet
<1> QED BY <1>6, QuietSound

LEMMA StepSound ==
  ASSUME Sound, Exclusive = TRUE, [Next]_vars
  PROVE  Sound'
<1>1. CASE StartCheck \/ StartStep \/ StartDecide
  BY <1>1, LoadSound
<1>2. CASE CheckBranch
  BY <1>2, CheckSound
<1>3. CASE Gate
  BY <1>3, GateSound
<1>4. CASE Work
  BY <1>4, WorkSound
<1>5. CASE Analyse
  BY <1>5, AnalyseSound
<1>6. CASE Decide
  BY <1>6, DecideSound
<1>7. ASSUME NEW p \in Process, Write(p)
      PROVE  Sound'
  BY <1>7, WriteSound
<1>8. ASSUME NEW p \in Process, Return(p) \/ Crash(p)
      PROVE  Sound'
  BY <1>8, StopSound
<1>9. CASE Submit \/ UNCHANGED vars
  BY <1>9, IdleSound
<1>10. CASE Audit
  BY <1>10, AuditSound
<1> QED BY <1>1, <1>2, <1>3, <1>4, <1>5, <1>6, <1>7, <1>8, <1>9, <1>10 DEF Next, Start, Go

-----------------------------------------------------------------------------
(* What the invariant promises *)

\* While nothing keeps two processes apart a scan of one can come between the
\* writes of another; the four theorems are about processes that take turns, as
\* they do where cwo runs from one place at a time.
LEMMA AlwaysSound ==
  ASSUME Exclusive = TRUE
  PROVE  Spec => []Sound
<1>1. Init => Sound
  BY InitSound
<1>2. Sound /\ [Next]_vars => Sound'
  BY StepSound
<1> QED BY <1>1, <1>2, PTL DEF Spec

\* No process is at work: the accepted revision is on file and, if none has died,
\* the files agree.
LEMMA RestingAgrees ==
  ASSUME Sound
  PROVE  /\ OnFile(Disk)
         /\ crashes = 0 /\ pc = Idle => Agrees(Disk, record)
<1>1. PICK p \in Process : Alone(p)
  BY DEF Sound
<1>2. PICK e : Planned(p, e)
  BY <1>1 DEF Sound
<1>3. writes[p] \in Seq(Writing)
  BY DEF Sound, Typed
<1>4. OnFile(Disk)
  BY <1>2, <1>3, LeadsFromOnFile DEF Planned
<1>5. pc = Idle => writes[p] = <<>>
  BY DEF Sound, Idle
<1> QED BY <1>1, <1>4, <1>5, Settled

\* What the ledger accepts is the candidate in the file of its change, whatever
\* crashes: every write of a plan keeps it so, not only the last.
THEOREM AcceptedStaysOnFile ==
  ASSUME Exclusive = TRUE
  PROVE  Spec => []AcceptedIsOnFile
<1>1. Sound => AcceptedIsOnFile
  BY RestingAgrees, DiskParts DEF OnFile, AcceptedIsOnFile
<1> QED BY <1>1, AlwaysSound, PTL

\* Without a crash the ledger and the files of the changes hold one candidate
\* whenever no process is at work, and the record is behind them only where that
\* candidate is not analysed, as after an audit that has rolled it over.
THEOREM FilesStayInAgreement ==
  ASSUME Exclusive = TRUE
  PROVE  Spec => []FilesAgree
<1>1. ASSUME Sound
      PROVE  FilesAgree
  <2> SUFFICES ASSUME crashes = 0, pc = Idle, Pending
               PROVE  LET c == ledger.change IN
                      /\ files[c].candidate = ledger.candidate
                      /\ record.changes[c] = files[c] \/ files[c].meaning = "OPEN"
    BY DEF FilesAgree
  <2>1. Agrees(Disk, record)
    BY <1>1, RestingAgrees
  <2>2. ledger.change \in Change /\ ledger.status # "ACCEPTED"
    BY <1>1, PendingEntry DEF Sound, Typed, TypeOK, Pending
  <2>3. files[ledger.change].candidate = ledger.candidate
    BY <2>1, <2>2, DiskParts DEF Agrees, OneCandidate
  <2>4. record.changes[ledger.change] # files[ledger.change] =>
          files[ledger.change].meaning = "OPEN"
    BY <2>1, <2>2, DiskParts DEF Agrees, Knows
  <2> QED BY <2>3, <2>4
<1> QED BY <1>1, AlwaysSound, PTL

\* Without a crash a decision that waits for an answer is withdrawn in its file, or
\* it is on file and about the candidate its change has, in the record and on file.
THEOREM OffersStayCurrent ==
  ASSUME Exclusive = TRUE
  PROVE  Spec => []OfferIsCurrent
<1>1. ASSUME Sound
      PROVE  OfferIsCurrent
  <2> SUFFICES ASSUME crashes = 0, pc = Idle, NEW d \in Decision,
                      record.decisions[d].status = "PENDING", ~WithdrawnOnFile(d)
               PROVE  /\ notes[d] = record.decisions[d]
                      /\ record.changes[d[1]] = files[d[1]]
                      /\ files[d[1]].candidate = notes[d].of
                      /\ files[d[1]].meaning = "MAJOR"
    BY DEF OfferIsCurrent
  <2>1. Offers(Disk, record)
    BY <1>1, RestingAgrees DEF Agrees
  <2>2. notes[d].status # "SUPERSEDED"
    BY DEF WithdrawnOnFile
  <2>3. /\ notes[d] = record.decisions[d] /\ record.changes[d[1]] = files[d[1]]
        /\ record.changes[d[1]].candidate = record.decisions[d].of
        /\ record.changes[d[1]].meaning = "MAJOR"
    BY <2>1, <2>2, DiskParts DEF Offers
  <2> QED BY <2>3
<1> QED BY <1>1, AlwaysSound, PTL

\* Without a crash the ledger comes to accept a revision only in a write that the
\* answered decision is about, or the analysis found to be minor: the submissions
\* and rollovers since the question was asked have not slipped in another one.  The
\* answer to a decision that is withdrawn in its file is the exception.
THEOREM OnlyApprovedIsAccepted ==
  ASSUME Exclusive = TRUE
  PROVE  Spec => AcceptsOnlyApproved
<1> DEFINE Approval == IF answer # <<>>
                         THEN \/ WithdrawnOnFile(answer)
                              \/ notes[answer] = [status |-> "PENDING", of |-> ledger'.accepted]
                         ELSE LET revision == files[ledger'.change] IN
                              revision.candidate = ledger'.accepted /\ revision.meaning = "MINOR"
<1>1. ASSUME Sound, [Next]_vars, crashes = 0, ledger'.accepted # ledger.accepted
      PROVE  Approval
  <2>1. PICK p \in Process : Write(p)
    <3>1. ledger' # ledger
      BY <1>1
    <3> QED BY <1>1, <3>1 DEF Next, vars, disk, Submit, Start, StartCheck, StartStep,
                 StartDecide, Load, Go, CheckBranch, Gate, Audit, Work, Analyse,
                 AcceptMinor, OfferMajor, Decide, Plan, Return, Crash
  <2>2. /\ Alone(p) /\ writes[p] # <<>> /\ writes[p] \in Seq(Writing)
        /\ Disk' = Wrote(Disk, Head(writes[p]))
    BY <1>1, <2>1, WriteIsHead
  <2>3. PICK e : Planned(p, e)
    BY <1>1, <2>2 DEF Sound
  <2>4. Approved(answer, Disk, Disk')
    BY <1>1, <2>2, <2>3, HeadLeads DEF Planned
  <2>5. Disk.ledger = ledger /\ Disk.files = files /\ Disk.notes = notes /\ Disk.record = record
        /\ Disk'.ledger = ledger'
    BY DEF Disk
  <2> QED BY <1>1, <2>4, <2>5 DEF Approved, WithdrawnOnFile
<1>2. Sound /\ [Next]_vars =>
        (crashes = 0 /\ ledger'.accepted # ledger.accepted => Approval)
  BY <1>1
<1> QED BY <1>2, AlwaysSound, PTL DEF Spec, AcceptsOnlyApproved

=============================================================================
