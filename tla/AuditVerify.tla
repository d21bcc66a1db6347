---------------------------- MODULE AuditVerify ----------------------------
(***************************************************************************)
(* GET /audit/verify beside the appenders of AuditChain.  The handler      *)
(* reads the record before the run, then the run, then the anchor: three   *)
(* reads with appends in between.                                          *)
(***************************************************************************)
EXTENDS AuditChain, Sequences

CONSTANTS
    Limits,             \* page sizes a caller may ask for
    DefaultAuditLimit,  \* what ScanAuditRecords reads when asked for less than 1
    MaxAuditLimit       \* the most it reads

ASSUME VerifyAssumption ==
    /\ Limits \subseteq Int
    /\ DefaultAuditLimit \in Nat \ {0} /\ MaxAuditLimit \in Nat \ {0}

VARIABLES
    walk,       \* the verification request
    harmed      \* history: a reply was lost, or the head deleted

allVars == <<vars, walk, harmed>>

\* owed, end: history, the numbers that had no row and were still worked on or lost,
\* and the last number claimed, both as the run was read.
NoWalk == [at |-> "none", limit |-> 0, previous |-> NoRow, records |-> << >>,
           anchor |-> NoConfig, findings |-> {}, owed |-> {}, end |-> 0]

Owed == spent \cup {sealed[p].seq : p \in InFlight}

\* ScanAuditRecords' clamp.
Clamped(limit) ==
    CASE limit < 1 -> DefaultAuditLimit
      [] limit > MaxAuditLimit -> MaxAuditLimit
      [] OTHER -> limit

\* ScanAuditRecords: the rows from a sequence on, in sequence order, cut at
\* the clamped limit.  Rows with one number come in any order.
Pages(from, limit) ==
    LET later == {r \in rows : r.seq >= from}
        size  == IF Cardinality(later) < Clamped(limit)
                 THEN Cardinality(later) ELSE Clamped(limit)
    IN {page \in [1..size -> later] :
            /\ \A i, j \in 1..size : i < j => /\ page[i] # page[j]
                                              /\ page[i].seq <= page[j].seq
            /\ \A r \in later : \/ \E i \in 1..size : page[i] = r
                                \/ \A i \in 1..size : page[i].seq <= r.seq}

Finding(seq, break) == [seq |-> seq, break |-> break]

\* Mutant: the run's first record is taken at its word.
TrustFirst(records, prior, i) ==
    IF i = 1 THEN [prior EXCEPT !.seq = records[1].seq - 1, !.hash = records[1].prev]
    ELSE records[i - 1]

\* Verify compares each record with the one before it in the run.
Before(records, prior, i) == IF i = 1 THEN prior ELSE records[i - 1]

Verify(records, prior) ==
    {Finding(Before(records, prior, i).seq + 1, "missing") :
        i \in {k \in DOMAIN records :
                  records[k].seq # Before(records, prior, k).seq + 1}}
    \cup
    {Finding(records[i].seq, "unlinked") :
        i \in {k \in DOMAIN records :
                  records[k].prev # Before(records, prior, k).hash}}

\* Verification.To: zero for an empty run.
To(records) == IF records = << >> THEN 0 ELSE records[Len(records)].seq

\* Mutant: an absent anchor reads as nothing to report.
IgnoreAbsence(records, anchor, partial) ==
    CASE anchor.present /\ ~partial /\ anchor.seq > To(records) ->
            {Finding(To(records) + 1, "truncated")}
      [] anchor.present /\ ~partial /\ anchor.seq < To(records) ->
            {Finding(anchor.seq + 1, "unclaimed")}
      [] OTHER -> {}

AgainstAnchor(records, anchor, partial) ==
    CASE ~anchor.present -> {Finding(To(records), "unanchored")}
      [] anchor.present /\ ~partial /\ anchor.seq > To(records) ->
            {Finding(To(records) + 1, "truncated")}
      [] anchor.present /\ ~partial /\ anchor.seq < To(records) ->
            {Finding(anchor.seq + 1, "unclaimed")}
      [] OTHER -> {}

\* verifyAuditChain's test for "one page of a longer log".
Partial(w) == Len(w.records) >= w.limit

VerifyInit == Init /\ walk = NoWalk /\ harmed = FALSE

\* The request (one of them: requests share nothing) and, for a run that starts
\* later, the read of the record it must follow; without one it is refused.
VerifyBegin(limit) ==
    /\ walk.at = "none"
    /\ \E r \in rows \cup {NoRow} :
          walk' = [NoWalk EXCEPT !.at = "scan", !.limit = limit, !.previous = r]
    /\ UNCHANGED <<vars, harmed>>

VerifyScan ==
    /\ walk.at = "scan"
    /\ \E page \in Pages(walk.previous.seq + 1, walk.limit) :
          walk' = [walk EXCEPT !.at = "anchor", !.records = page,
                               !.owed = Owed, !.end = head.seq]
    /\ UNCHANGED <<vars, harmed>>

Verdict(w, anchor) ==
    Verify(w.records, w.previous) \cup AgainstAnchor(w.records, anchor, Partial(w))

\* Mutant: the anchor is read before the run it is compared with.
AnchorFirst ==
    /\ \/ /\ walk.at = "scan" /\ walk' = [walk EXCEPT !.at = "late", !.anchor = head]
       \/ /\ walk.at = "late"
          /\ \E page \in Pages(walk.previous.seq + 1, walk.limit) :
                LET w == [walk EXCEPT !.at = "done", !.records = page,
                                      !.owed = Owed, !.end = head.seq]
                IN  walk' = [w EXCEPT !.findings = Verdict(w, walk.anchor)]
    /\ UNCHANGED <<vars, harmed>>

\* Head, then the verdict.
VerifyAnchor ==
    /\ walk.at = "anchor"
    /\ walk' = [walk EXCEPT !.at = "done", !.anchor = head, !.findings = Verdict(walk, head)]
    /\ UNCHANGED <<vars, harmed>>

Harmed == harmed' = TRUE /\ UNCHANGED walk

VerifyNext ==
    \/ Next /\ UNCHANGED <<walk, harmed>>
    \/ \E p \in Replica : CreateReplyLost(p) /\ Harmed
    \/ \E p \in Replica : ClaimReplyLost(p) /\ Harmed
    \/ \E p \in Replica : InsertReplyLost(p) /\ Harmed
    \/ \E p \in Replica : UnwindReplyLost(p) /\ Harmed
    \/ \E p \in Replica : MarkReplyLost(p) /\ Harmed
    \/ DeleteHead /\ Harmed
    \/ \E limit \in Limits : VerifyBegin(limit)
    \/ VerifyScan \/ VerifyAnchor

VerifySpec == VerifyInit /\ [][VerifyNext]_allVars

-----------------------------------------------------------------------------

Intact == walk.at = "done" /\ walk.findings = {}

\* The verdict against a reference definition: a run read to the end of the
\* store is intact exactly when its records are, each number once, the numbers
\* after the prior record up to the anchor, each linked to its predecessor.
\* Holds for every log the appenders can leave behind, damaged ones included.
IntactIffChain ==
    (walk.at = "done" /\ walk.records # << >> /\ ~Partial(walk)) =>
        LET run  == {walk.records[i] : i \in DOMAIN walk.records}
            base == walk.previous
        IN Intact <=>
            /\ walk.anchor.present
            /\ {r.seq : r \in run} = (base.seq + 1)..walk.anchor.seq
            /\ Len(walk.records) = Cardinality({r.seq : r \in run})
            /\ \A r \in run : \E s \in run \cup {base} :
                   s.seq = r.seq - 1 /\ r.prev = s.hash

\* A number that was owed when the run was read, or was claimed since; before the
\* first append there may be no anchor, only records older than anchors.
Explained(f) ==
    \/ f.break = "missing" /\ f.seq \in walk.owed
    \/ f.break = "unlinked" /\ f.seq - 1 \in walk.owed
    \/ f.break = "truncated" /\ (f.seq \in walk.owed \/ f.seq > walk.end)
    \/ /\ f.break = "unanchored"
       /\ \A i \in DOMAIN walk.records : walk.records[i].kind = "legacy"

\* No verdict accuses a sound log of more than is so: with appends, rollbacks and
\* crashes between the reads of the record before, of the run and of the anchor, a gap
\* or a broken link is where a number was owed when the run was read, a log said to
\* stop short does so at such a number or at one claimed since, and no record is said
\* to have claimed none.  A run that starts after the last record has no end to
\* compare with the anchor, and a limit above what the store reads makes a page pass
\* for the end of the log: both are left out.
FindingsExplained ==
    (/\ ~harmed /\ walk.at = "done" /\ walk.limit <= MaxAuditLimit
     /\ walk.records # << >> \/ walk.previous = NoRow)
        => \A f \in walk.findings : Explained(f)
=============================================================================
