----------------------------- MODULE AuditChain -----------------------------
(***************************************************************************)
(* The hash-chained audit log of internal/audit.  Every replica of the     *)
(* manager owns a Recorder; a record is appended by claiming the next      *)
(* sequence number through the head ConfigMap (read, seal, write back at   *)
(* the resourceVersion that was read) and then inserting the row into      *)
(* ClickHouse.  A failed insert gives the number back.                     *)
(*                                                                         *)
(* One step is one call to the API server or to the store, because that is *)
(* where two replicas interleave; a Recorder's own mutex keeps one process *)
(* from contending with itself, so a replica runs one call at a time.      *)
(*                                                                         *)
(* A hash is a number minted when a record is sealed: SHA-256 over a       *)
(* length-prefixed encoding is injective for every purpose here.           *)
(***************************************************************************)
EXTENDS Integers, FiniteSets

CONSTANTS
    Replica,            \* manager processes, each with its own Recorder
    MaxLegacy,          \* most records in the table from before the head existed
    HeadClaimAttempts,  \* headClaimAttempts, the bound on optimistic retries
    MaxCalls,           \* bound on Record and EnsureAnchor calls
    MaxFaults,          \* bound on failed calls and process crashes
    MaxDeletes          \* bound on deletions of the head object

ASSUME ChainAssumption ==
    /\ MaxLegacy \in Nat
    /\ HeadClaimAttempts \in Nat \ {0}
    /\ MaxCalls \in Nat /\ MaxFaults \in Nat /\ MaxDeletes \in Nat

GenesisHash == 0

VARIABLES
    head,      \* the ConfigMap kitchen-audit-head
    rv,        \* the API server's resourceVersion counter
    rows,      \* the audit_log table
    minted,    \* hashes handed out so far
    pc,        \* the call a replica makes next
    call,      \* the Recorder method it is in
    phase,     \* anchor, adopt or append: which part of that method
    tries,     \* attempts used up in the current optimistic loop
    cfg,       \* the ConfigMap as the replica last read it
    sealed,    \* the record whose number it claimed
    previous,  \* the head that claim displaced
    floor,     \* Recorder.floor
    anchored,  \* Recorder.anchored
    calls, faults, deletes,  \* the bounds' counters
    spent      \* history: numbers given up without a row and never returned

kube    == <<head, rv>>
local   == <<pc, call, phase, tries, cfg, sealed, previous, floor, anchored>>
bounds  == <<calls, faults, deletes>>
vars    == <<kube, rows, minted, local, bounds, spent>>

-----------------------------------------------------------------------------
(* Types                                                                   *)

Config == [present : BOOLEAN, seq : Nat, hash : Nat, rv : Nat,
           origin : {"genesis", "adopted"}, adoptedFrom : Nat, said : BOOLEAN]

Row == [seq : Nat, prev : Nat, hash : Nat,
        kind : {"legacy", "transition", "adoption"}]

NoConfig == [present |-> FALSE, seq |-> 0, hash |-> GenesisHash, rv |-> 0,
             origin |-> "genesis", adoptedFrom |-> 0, said |-> FALSE]

NoRow == [seq |-> 0, prev |-> GenesisHash, hash |-> GenesisHash,
          kind |-> "legacy"]

\* AuditHead: the row with the highest sequence, the zero record when empty.
TableHeads ==
    IF rows = {} THEN {NoRow}
    ELSE {r \in rows : \A s \in rows : s.seq <= r.seq}

\* Mutant: the numbering starts over on top of an existing log.
SeedFromZero(seed, version) ==
    [present |-> TRUE, seq |-> 0, hash |-> GenesisHash, rv |-> version,
     origin |-> "genesis", adoptedFrom |-> 0, said |-> FALSE]

\* readHead's new object: genesis over an empty table, adopted otherwise.
SeededConfig(seed, version) ==
    [present |-> TRUE, seq |-> seed.seq, hash |-> seed.hash, rv |-> version,
     origin |-> IF seed.seq > 0 THEN "adopted" ELSE "genesis",
     adoptedFrom |-> seed.seq, said |-> FALSE]

\* Seal: the record that follows a head.
Seal(c, hash, kind) ==
    [seq |-> c.seq + 1, prev |-> c.hash, hash |-> hash, kind |-> kind]

\* The object as it was read, written back with other values.
Rewritten(c, seq, hash, said, version) ==
    [present |-> TRUE, seq |-> seq, hash |-> hash, rv |-> version,
     origin |-> c.origin, adoptedFrom |-> c.adoptedFrom, said |-> said]

\* Mutant: a rollback leaves the claimed record's hash in the head.
KeepHashOnRollback(c, seq, hash, version) ==
    Rewritten(c, seq, IF seq > c.seq THEN hash ELSE c.hash, c.said, version)

\* writeHead: the object with another end of the chain.
WithEnd(c, seq, hash, version) == Rewritten(c, seq, hash, c.said, version)

TypeOK ==
    /\ head \in Config /\ rv \in Nat /\ rows \subseteq Row /\ minted \in Nat
    /\ pc \in [Replica -> {"idle", "head", "reread", "seed", "create", "claim",
                           "insert", "release", "unwind", "mark", "markput"}]
    /\ call \in [Replica -> {"Record", "EnsureAnchor"}]
    /\ phase \in [Replica -> {"anchor", "adopt", "append"}]
    /\ tries \in [Replica -> Nat]
    /\ cfg \in [Replica -> Config]
    /\ sealed \in [Replica -> Row]
    /\ previous \in [Replica -> [seq : Nat, hash : Nat]]
    /\ floor \in [Replica -> Nat] /\ anchored \in [Replica -> BOOLEAN]
    /\ calls \in Nat /\ faults \in Nat /\ deletes \in Nat
    /\ spent \subseteq Nat

-----------------------------------------------------------------------------

\* The log an installation upgrading to the head object brings along.
Legacy(length) ==
    {[seq |-> n, prev |-> n - 1, hash |-> n, kind |-> "legacy"]
        : n \in 1..length}

Init ==
    /\ head = NoConfig /\ rv = 0
    /\ minted \in 0..MaxLegacy /\ rows = Legacy(minted)
    /\ pc = [p \in Replica |-> "idle"]
    /\ call = [p \in Replica |-> "Record"]
    /\ phase = [p \in Replica |-> "anchor"]
    /\ tries = [p \in Replica |-> 0]
    /\ cfg = [p \in Replica |-> NoConfig]
    /\ sealed = [p \in Replica |-> NoRow]
    /\ previous = [p \in Replica |-> [seq |-> 0, hash |-> GenesisHash]]
    /\ floor = [p \in Replica |-> 0]
    /\ anchored = [p \in Replica |-> FALSE]
    /\ calls = 0 /\ faults = 0 /\ deletes = 0
    /\ spent = {}

Goto(p, at) == pc' = [pc EXCEPT ![p] = at]

\* Mutant: the head is written without optimistic concurrency.
AnyVersion(p) == head.present

\* Update succeeds only at the resourceVersion the object still has.
Current(p) == head.present /\ head.rv = cfg[p].rv

\* Record and EnsureAnchor enter: establishAnchor first, unless this process
\* remembers having done it.
Begin(p, method) ==
    /\ pc[p] = "idle" /\ calls < MaxCalls
    /\ method = "EnsureAnchor" => ~anchored[p]
    /\ call' = [call EXCEPT ![p] = method]
    /\ phase' = [phase EXCEPT ![p] = IF anchored[p] THEN "append" ELSE "anchor"]
    /\ tries' = [tries EXCEPT ![p] = 0]
    /\ calls' = calls + 1
    /\ Goto(p, "head")
    /\ UNCHANGED <<kube, rows, minted, cfg, sealed, previous, floor, anchored,
                   faults, deletes, spent>>

\* The anchor is established and speaks for itself: go on to the append.
Anchored(p) ==
    /\ anchored' = [anchored EXCEPT ![p] = TRUE]
    /\ phase' = [phase EXCEPT ![p] = "append"]
    /\ Goto(p, IF call[p] = "Record" THEN "head" ELSE "idle")

\* Mutant: an adopted anchor is not admitted in the chain.
ProceedSilently(p, c) ==
    IF phase[p] # "anchor"
    THEN Goto(p, "claim") /\ UNCHANGED <<phase, anchored>>
    ELSE Anchored(p)

\* What the caller of readHead does with the object it was given.
Proceed(p, c) ==
    \/ /\ phase[p] # "anchor"
       /\ Goto(p, "claim") /\ UNCHANGED <<phase, anchored>>
    \/ /\ phase[p] = "anchor" /\ c.origin = "adopted" /\ ~c.said
       /\ phase' = [phase EXCEPT ![p] = "adopt"]
       /\ Goto(p, "head") /\ UNCHANGED anchored
    \/ /\ phase[p] = "anchor" /\ (c.origin = "genesis" \/ c.said)
       /\ Anchored(p)

ReadHead(p) ==
    /\ pc[p] \in {"head", "reread"} /\ head.present
    /\ cfg' = [cfg EXCEPT ![p] = head]
    /\ Proceed(p, head)
    /\ UNCHANGED <<kube, rows, minted, call, tries, sealed, previous, floor,
                   bounds, spent>>

\* No head object: the table is asked, except on the read after a lost Create.
HeadMissing(p) ==
    /\ pc[p] \in {"head", "reread"} /\ ~head.present
    /\ Goto(p, IF pc[p] = "head" THEN "seed" ELSE "idle")
    /\ UNCHANGED <<kube, rows, minted, call, phase, tries, cfg, sealed,
                   previous, floor, anchored, bounds, spent>>

ReadTableHead(p) ==
    /\ pc[p] = "seed"
    /\ \E seed \in TableHeads :
          cfg' = [cfg EXCEPT ![p] = SeededConfig(seed, 0)]
    /\ Goto(p, "create")
    /\ UNCHANGED <<kube, rows, minted, call, phase, tries, sealed, previous,
                   floor, anchored, bounds, spent>>

WriteNewHead(p) ==
    /\ pc[p] = "create" /\ ~head.present
    /\ rv' = rv + 1
    /\ head' = WithEnd(cfg[p], cfg[p].seq, cfg[p].hash, rv + 1)
    /\ cfg' = [cfg EXCEPT ![p] = head']
    /\ UNCHANGED <<rows, minted, call, tries, sealed, previous, floor, calls,
                   deletes, spent>>

CreateHead(p) ==
    /\ WriteNewHead(p)
    /\ Proceed(p, head')
    /\ UNCHANGED faults

CreateReplyLost(p) ==
    /\ faults < MaxFaults
    /\ WriteNewHead(p)
    /\ faults' = faults + 1
    /\ Goto(p, "idle")
    /\ UNCHANGED <<phase, anchored>>

\* Another replica seeded it first.
CreateExists(p) ==
    /\ pc[p] = "create" /\ head.present
    /\ Goto(p, "reread")
    /\ UNCHANGED <<kube, rows, minted, call, phase, tries, cfg, sealed,
                   previous, floor, anchored, bounds, spent>>

Kind(p) == IF phase[p] = "adopt" THEN "adoption" ELSE "transition"

\* claim's write of the head: it is the claim.
WriteClaim(p) ==
    LET record == Seal(cfg[p], minted + 1, Kind(p)) IN
    /\ pc[p] = "claim" /\ cfg[p].seq >= floor[p] /\ Current(p)
    /\ rv' = rv + 1 /\ minted' = minted + 1
    /\ head' = WithEnd(cfg[p], record.seq, record.hash, rv + 1)
    /\ sealed' = [sealed EXCEPT ![p] = record]
    /\ previous' = [previous EXCEPT ![p] = [seq |-> cfg[p].seq, hash |-> cfg[p].hash]]
    /\ UNCHANGED <<rows, call, phase, tries, cfg, anchored, calls, deletes>>

Claim(p) ==
    /\ WriteClaim(p)
    /\ floor' = [floor EXCEPT ![p] = cfg[p].seq + 1]
    /\ Goto(p, "insert")
    /\ UNCHANGED <<faults, spent>>

\* The write landed and its answer did not: claim returns the error.
ClaimReplyLost(p) ==
    /\ faults < MaxFaults
    /\ WriteClaim(p)
    /\ faults' = faults + 1
    /\ spent' = spent \cup {cfg[p].seq + 1}
    /\ Goto(p, "idle")
    /\ UNCHANGED floor

\* A conflict is retried a bounded number of times; a head that is gone is an
\* error.
ClaimConflict(p) ==
    /\ pc[p] = "claim" /\ cfg[p].seq >= floor[p] /\ ~Current(p)
    /\ tries' = [tries EXCEPT ![p] = tries[p] + 1]
    /\ Goto(p, IF head.present /\ tries[p] + 1 < HeadClaimAttempts
               THEN "head" ELSE "idle")
    /\ UNCHANGED <<kube, rows, minted, call, phase, cfg, sealed, previous,
                   floor, anchored, bounds, spent>>

\* claim's refusal of a head below the floor.
Refuse(p) ==
    /\ pc[p] = "claim" /\ cfg[p].seq < floor[p]
    /\ Goto(p, "idle")
    /\ UNCHANGED <<kube, rows, minted, call, phase, tries, cfg, sealed,
                   previous, floor, anchored, bounds, spent>>

InsertAuditRecord(p) ==
    /\ pc[p] = "insert"
    /\ rows' = rows \cup {sealed[p]}
    /\ tries' = [tries EXCEPT ![p] = 0]
    /\ Goto(p, IF phase[p] = "adopt" THEN "mark" ELSE "idle")
    /\ UNCHANGED <<kube, minted, call, phase, cfg, sealed, previous, floor,
                   anchored, bounds, spent>>

InsertFails(p) ==
    /\ pc[p] = "insert" /\ faults < MaxFaults
    /\ faults' = faults + 1
    /\ Goto(p, "release")
    /\ UNCHANGED <<kube, rows, minted, call, phase, tries, cfg, sealed, previous,
                   floor, anchored, calls, deletes, spent>>

\* The row is in the table and its answer is not back: release follows all the same.
InsertReplyLost(p) ==
    /\ pc[p] = "insert" /\ faults < MaxFaults
    /\ faults' = faults + 1
    /\ rows' = rows \cup {sealed[p]}
    /\ Goto(p, "release")
    /\ UNCHANGED <<kube, minted, call, phase, tries, cfg, sealed, previous,
                   floor, anchored, calls, deletes, spent>>

\* Mutant: release rolls back whatever the head holds.
ReleaseAnyHead(p) ==
    /\ pc[p] = "release" /\ head.present
    /\ cfg' = [cfg EXCEPT ![p] = head]
    /\ Goto(p, "unwind")
    /\ UNCHANGED <<kube, rows, minted, call, phase, tries, sealed, previous,
                   floor, anchored, bounds, spent>>

\* release's read: only a head that is still this claim's is rolled back.
ReleaseRead(p) ==
    /\ pc[p] = "release"
    /\ IF head.present /\ head.seq = sealed[p].seq /\ head.hash = sealed[p].hash
       THEN /\ cfg' = [cfg EXCEPT ![p] = head]
            /\ Goto(p, "unwind") /\ UNCHANGED spent
       ELSE /\ spent' = spent \cup {sealed[p].seq}
            /\ Goto(p, "idle") /\ UNCHANGED cfg
    /\ UNCHANGED <<kube, rows, minted, call, phase, tries, sealed, previous,
                   floor, anchored, bounds>>

WriteUnwind(p) ==
    /\ pc[p] = "unwind" /\ Current(p)
    /\ rv' = rv + 1
    /\ head' = WithEnd(cfg[p], previous[p].seq, previous[p].hash, rv + 1)
    /\ Goto(p, "idle")
    /\ UNCHANGED <<rows, minted, call, phase, tries, cfg, sealed, previous,
                   anchored, calls, deletes, spent>>

Unwind(p) ==
    /\ WriteUnwind(p)
    /\ floor' = [floor EXCEPT ![p] = previous[p].seq]
    /\ UNCHANGED faults

\* The rollback landed and its answer did not: the floor stays where it was.
UnwindReplyLost(p) ==
    /\ faults < MaxFaults
    /\ WriteUnwind(p)
    /\ faults' = faults + 1
    /\ UNCHANGED floor

UnwindConflict(p) ==
    /\ pc[p] = "unwind" /\ ~Current(p)
    /\ spent' = spent \cup {sealed[p].seq}
    /\ Goto(p, "idle")
    /\ UNCHANGED <<kube, rows, minted, call, phase, tries, cfg, sealed,
                   previous, floor, anchored, bounds>>

\* markAdoptionRecorded: read, set the flag, write back, retried on conflict.
MarkRead(p) ==
    /\ pc[p] = "mark"
    /\ IF head.present
       THEN cfg' = [cfg EXCEPT ![p] = head] /\ Goto(p, "markput")
       ELSE Goto(p, "idle") /\ UNCHANGED cfg
    /\ UNCHANGED <<kube, rows, minted, call, phase, tries, sealed, previous,
                   floor, anchored, bounds, spent>>

WriteMark(p) ==
    /\ pc[p] = "markput" /\ Current(p)
    /\ rv' = rv + 1
    /\ head' = Rewritten(cfg[p], cfg[p].seq, cfg[p].hash, TRUE, rv + 1)
    /\ tries' = [tries EXCEPT ![p] = 0]
    /\ UNCHANGED <<rows, minted, call, cfg, sealed, previous, floor, calls,
                   deletes, spent>>

MarkWrite(p) ==
    /\ WriteMark(p)
    /\ Anchored(p)
    /\ UNCHANGED faults

MarkReplyLost(p) ==
    /\ faults < MaxFaults
    /\ WriteMark(p)
    /\ faults' = faults + 1
    /\ Goto(p, "idle")
    /\ UNCHANGED <<phase, anchored>>

MarkConflict(p) ==
    /\ pc[p] = "markput" /\ ~Current(p)
    /\ tries' = [tries EXCEPT ![p] = tries[p] + 1]
    /\ Goto(p, IF head.present /\ tries[p] + 1 < HeadClaimAttempts
               THEN "mark" ELSE "idle")
    /\ UNCHANGED <<kube, rows, minted, call, phase, cfg, sealed, previous,
                   floor, anchored, bounds, spent>>

Holding(p) == pc[p] \in {"insert", "release", "unwind"}

GiveUp(p) == spent' = IF Holding(p) THEN spent \cup {sealed[p].seq} ELSE spent

\* A read or a write of the API server or the store fails without effect and
\* the method returns the error; a release that fails says nothing.
CallFails(p) ==
    /\ pc[p] \notin {"idle", "insert"} /\ faults < MaxFaults
    /\ faults' = faults + 1
    /\ GiveUp(p)
    /\ Goto(p, "idle")
    /\ UNCHANGED <<kube, rows, minted, call, phase, tries, cfg, sealed,
                   previous, floor, anchored, calls, deletes>>

\* The process dies and starts again with nothing remembered.
Crash(p) ==
    /\ faults < MaxFaults
    /\ faults' = faults + 1
    /\ GiveUp(p)
    /\ Goto(p, "idle")
    /\ floor' = [floor EXCEPT ![p] = 0]
    /\ anchored' = [anchored EXCEPT ![p] = FALSE]
    /\ UNCHANGED <<kube, rows, minted, call, phase, tries, cfg, sealed,
                   previous, calls, deletes>>

\* Somebody deletes the ConfigMap under the running platform.
DeleteHead ==
    /\ head.present /\ deletes < MaxDeletes
    /\ deletes' = deletes + 1
    /\ head' = NoConfig
    /\ UNCHANGED <<rv, rows, minted, local, calls, faults, spent>>

Step(p) ==
    \/ \E method \in {"Record", "EnsureAnchor"} : Begin(p, method)
    \/ ReadHead(p) \/ HeadMissing(p) \/ ReadTableHead(p)
    \/ CreateHead(p) \/ CreateExists(p)
    \/ Claim(p) \/ ClaimConflict(p) \/ Refuse(p)
    \/ InsertAuditRecord(p) \/ InsertFails(p)
    \/ ReleaseRead(p) \/ Unwind(p) \/ UnwindConflict(p)
    \/ MarkRead(p) \/ MarkWrite(p) \/ MarkConflict(p)
    \/ CallFails(p) \/ Crash(p)

Next == \E p \in Replica : Step(p)

Spec == Init /\ [][Next]_vars

\* What the protocol does not promise to survive: an answer that is lost after
\* the call took effect, and a head that is deleted.
ReplyLost(p) ==
    CreateReplyLost(p) \/ ClaimReplyLost(p) \/ InsertReplyLost(p)
        \/ UnwindReplyLost(p) \/ MarkReplyLost(p)

Harm == (\E p \in Replica : ReplyLost(p)) \/ DeleteHead

HarmedSpec == Init /\ [][Next \/ Harm]_vars

-----------------------------------------------------------------------------
(* What the protocol promises (Spec): a call that reports an error had no  *)
(* effect, and nobody deletes the head.                                    *)

InFlight == {p \in Replica : Holding(p)}

\* Optimistic concurrency on the head serializes the appenders: no two rows
\* carry the same number, whatever replicas interleave, fail or crash.
UniqueSequence == \A r, s \in rows : r.seq = s.seq => r = s

\* Neighbouring rows are linked: a number handed back by release and claimed
\* again is always sealed onto the row that really precedes it.
RowsLinked == \A r, s \in rows : s.seq = r.seq + 1 => s.prev = r.hash

\* BreakUnclaimed's reasoning: every append moves the anchor before it writes
\* the row and release only takes back a number that has no row, so the log
\* never runs ahead of the anchor.
AnchorCoversLog ==
    \/ ~head.present /\ \A r \in rows : r.kind = "legacy"
    \/ head.present /\ \A r \in rows : r.seq <= head.seq

\* A number below the head without a row is one a replica is still working on
\* or one whose insert failed for good: nothing else leaves a gap.
NoUnexplainedGap ==
    \A n \in 1..head.seq :
        \/ \E r \in rows : r.seq = n
        \/ n \in spent
        \/ \E p \in InFlight : sealed[p].seq = n

\* With nothing under way and no number lost, the table is exactly the chain
\* from genesis to the anchor, and its last hash is the anchor's: failed
\* inserts that were released, conflicts and crashes elsewhere leave no trace.
QuietLogIsTheChain ==
    (head.present /\ spent = {} /\ \A p \in Replica : pc[p] = "idle") =>
        /\ {r.seq : r \in rows} = 1..head.seq
        /\ Cardinality(rows) = head.seq
        /\ \A r \in rows : r.seq = 1 => r.prev = GenesisHash
        /\ \A r \in rows : r.seq = head.seq => r.hash = head.hash

\* establishAnchor before claim: under an adopted anchor, no transition is
\* appended past the adopted sequence before the record admitting the adoption.
AdoptionSaidFirst ==
    head.origin = "adopted" =>
        \A r \in rows : (r.kind = "transition" /\ r.seq > head.adoptedFrom) =>
            \E s \in rows : /\ s.kind = "adoption"
                            /\ s.seq > head.adoptedFrom /\ s.seq < r.seq

\* Number and hash travel as a pair through claims, rollbacks and re-seeding:
\* whatever replies are lost and whenever the head is deleted, a row that links
\* to another one is numbered right after it, so damage shows as duplicates and
\* gaps and never as a chain that skips.
LinksNeverSkip == \A r, s \in rows : s.prev = r.hash => s.seq = r.seq + 1

-----------------------------------------------------------------------------
(* The inductive strengthening of the safety properties above.             *)

\* Records that are in the table or may still get there.
Live == rows \cup {sealed[p] : p \in InFlight}

\* A replica that holds the current resourceVersion has read the current head.
Versions ==
    /\ head.rv <= rv /\ (head.present => head.rv >= 1)
    /\ \A p \in Replica :
          /\ cfg[p].rv <= rv
          /\ (head.present /\ cfg[p].rv = head.rv) => cfg[p] = head

\* Until the head exists nothing is claimed, and a seed is the table's end.
Unseeded ==
    ~head.present =>
        /\ \A r \in rows : r.kind = "legacy"
        /\ \A p \in Replica :
              /\ ~Holding(p)
              /\ pc[p] = "create" =>
                    \A r \in rows : /\ r.seq <= cfg[p].seq
                                    /\ r.seq = cfg[p].seq => r.hash = cfg[p].hash

\* The head is at or past every live record and names the one it is at.
Placed ==
    head.present =>
        \A x \in Live : x.seq <= head.seq /\ (x.seq = head.seq => x.hash = head.hash)

\* A claimed number is in nobody else's hands.
Distinct ==
    \A p \in InFlight :
        /\ \A r \in rows : r.seq # sealed[p].seq
        /\ \A q \in InFlight : q # p => sealed[q].seq # sealed[p].seq

LiveLinked == \A x, y \in Live : y.seq = x.seq + 1 => y.prev = x.hash

\* What a replica would write back is what its record was sealed onto.
Undo ==
    \A p \in InFlight :
        /\ sealed[p].seq = previous[p].seq + 1 /\ sealed[p].prev = previous[p].hash
        /\ pc[p] = "unwind" => cfg[p].seq = sealed[p].seq

\* Until the head exists the table is what the installation brought along.
Upgraded ==
    ~head.present =>
        /\ head = NoConfig /\ rows = Legacy(minted)
        /\ \A p \in Replica : pc[p] = "create" => cfg[p].seq = minted

ChainInv ==
    /\ TypeOK /\ UniqueSequence
    /\ Versions /\ Unseeded /\ Placed /\ Distinct /\ LiveLinked /\ Undo

-----------------------------------------------------------------------------
(* The numbers of the log, seen without the head object and the replicas:  *)
(* until there is a head, the log ends where the table does.               *)

End == IF head.present THEN head.seq ELSE minted

Numbers == INSTANCE NumberedLog
    WITH end <- End, written <- {r.seq : r \in rows},
         held <- {sealed[p].seq : p \in InFlight}, lost <- spent

\* The append protocol implements the abstract log: under any interleaving of claims,
\* conflicts, failed inserts, rollbacks and crashes, a number is handed out when it is
\* the next one and is then written, given back while it is the last one, or lost.
NumbersHandedOut == Numbers!Spec
=============================================================================
