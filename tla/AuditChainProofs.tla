-------------------------- MODULE AuditChainProofs --------------------------
(***************************************************************************)
(* Theorems about AuditChain and AuditVerify, for any set of replicas, any *)
(* page sizes and any bounds.                                              *)
(***************************************************************************)
EXTENDS AuditVerify, TLAPS, FiniteSetTheorems, SequenceTheorems, WellFoundedInduction

\* Legacy rows are rows.
LEMMA LegacyRows ==
    ASSUME NEW n \in Nat
    PROVE  Legacy(n) \subseteq Row
BY DEF Legacy, Row

\* A record sealed onto a head is a row.
LEMMA SealType ==
    ASSUME NEW c \in Config, NEW h \in Nat, NEW k \in {"transition", "adoption"}
    PROVE  /\ Seal(c, h, k) \in Row
           /\ Seal(c, h, k).seq = c.seq + 1
           /\ Seal(c, h, k).prev = c.hash
           /\ Seal(c, h, k).hash = h
BY DEF Seal, Config, Row

\* writeHead keeps the object an object and sets its end.
LEMMA WithEndType ==
    ASSUME NEW c \in Config, NEW s \in Nat, NEW h \in Nat, NEW v \in Nat
    PROVE  /\ WithEnd(c, s, h, v) \in Config
           /\ Rewritten(c, s, h, TRUE, v) \in Config
           /\ WithEnd(c, s, h, v).seq = s
           /\ WithEnd(c, s, h, v).hash = h
           /\ WithEnd(c, s, h, v).rv = v
           /\ WithEnd(c, s, h, v).present
BY DEF WithEnd, Rewritten, Config

\* The object readHead creates.
LEMMA SeededType ==
    ASSUME NEW r \in Row, NEW v \in Nat
    PROVE  /\ SeededConfig(r, v) \in Config
           /\ SeededConfig(r, v).present
           /\ SeededConfig(r, v).seq = r.seq
           /\ SeededConfig(r, v).hash = r.hash
           /\ SeededConfig(r, v).rv = v
BY DEF SeededConfig, Config, Row

LEMMA ZeroTypes == NoConfig \in Config /\ NoRow \in Row
BY DEF NoConfig, NoRow, Config, Row, GenesisHash

\* What readHead's caller does leaves the local state well typed.
LEMMA ProceedType ==
    ASSUME TypeOK, NEW p \in Replica, NEW c, Proceed(p, c)
    PROVE  /\ pc' \in [Replica -> {"idle", "head", "reread", "seed", "create",
                 "claim", "insert", "release", "unwind", "mark", "markput"}]
           /\ phase' \in [Replica -> {"anchor", "adopt", "append"}]
           /\ anchored' \in [Replica -> BOOLEAN]
BY DEF TypeOK, Proceed, Anchored, Goto

USE DEF kube, local, bounds

LEMMA TypeStep == TypeOK /\ [Next \/ Harm]_vars => TypeOK'
<1> SUFFICES ASSUME TypeOK, [Next \/ Harm]_vars PROVE TypeOK'
  OBVIOUS
<1>1. CASE UNCHANGED vars
  BY <1>1 DEF TypeOK, vars
<1>2. ASSUME NEW p \in Replica, NEW method \in {"Record", "EnsureAnchor"},
             Begin(p, method)
      PROVE  TypeOK'
  BY <1>2 DEF TypeOK, Begin, Goto
<1>3. ASSUME NEW p \in Replica, ReadHead(p) PROVE TypeOK'
  <2>1. cfg' \in [Replica -> Config]
    BY <1>3 DEF TypeOK, ReadHead
  <2> QED BY <1>3, <2>1, ProceedType DEF TypeOK, ReadHead
<1>4. ASSUME NEW p \in Replica, HeadMissing(p) PROVE TypeOK'
  BY <1>4 DEF TypeOK, HeadMissing, Goto
<1>5. ASSUME NEW p \in Replica, ReadTableHead(p) PROVE TypeOK'
  <2>1. TableHeads \subseteq Row
    BY ZeroTypes DEF TableHeads, TypeOK
  <2>2. cfg' \in [Replica -> Config]
    BY <1>5, <2>1, SeededType DEF TypeOK, ReadTableHead
  <2> QED BY <1>5, <2>2 DEF TypeOK, ReadTableHead, Goto
<1>6. ASSUME NEW p \in Replica, WriteNewHead(p)
      PROVE  head' \in Config /\ rv' \in Nat /\ cfg' \in [Replica -> Config]
  <2>1. cfg[p] \in Config /\ cfg[p].seq \in Nat /\ cfg[p].hash \in Nat /\ rv + 1 \in Nat
    BY DEF TypeOK, Config
  <2>2. head' \in Config
    BY <1>6, <2>1, WithEndType DEF WriteNewHead
  <2> QED BY <1>6, <2>1, <2>2 DEF WriteNewHead, TypeOK
<1>7. ASSUME NEW p \in Replica, CreateHead(p) PROVE TypeOK'
  BY <1>6, <1>7, ProceedType DEF TypeOK, CreateHead, WriteNewHead
<1>8. ASSUME NEW p \in Replica, CreateReplyLost(p) PROVE TypeOK'
  <2>1. /\ WriteNewHead(p) /\ faults' = faults + 1
        /\ Goto(p, "idle") /\ UNCHANGED <<phase, anchored>>
    BY <1>8, Zenon DEF CreateReplyLost
  <2>2. head' \in Config /\ rv' \in Nat /\ cfg' \in [Replica -> Config]
    BY <1>6, <2>1, Zenon
  <2> QED BY <2>1, <2>2 DEF TypeOK, WriteNewHead, Goto
<1>9. ASSUME NEW p \in Replica, CreateExists(p) PROVE TypeOK'
  BY <1>9 DEF TypeOK, CreateExists, Goto
<1>10. ASSUME NEW p \in Replica, WriteClaim(p)
       PROVE  /\ head' \in Config /\ rv' \in Nat /\ minted' \in Nat
              /\ sealed' \in [Replica -> Row]
              /\ previous' \in [Replica -> [seq : Nat, hash : Nat]]
  <2> DEFINE record == Seal(cfg[p], minted + 1, Kind(p))
  <2>1. cfg[p] \in Config /\ minted + 1 \in Nat /\ rv + 1 \in Nat
    BY DEF TypeOK
  <2>2. Kind(p) \in {"transition", "adoption"}
    BY DEF Kind
  <2>3. record \in Row
    BY <2>1, <2>2, SealType
  <2>4. head' \in Config
    BY <1>10, <2>1, <2>3, WithEndType DEF WriteClaim, Row
  <2>5. [seq |-> cfg[p].seq, hash |-> cfg[p].hash] \in [seq : Nat, hash : Nat]
    BY <2>1 DEF Config
  <2>6. rv' \in Nat /\ minted' \in Nat /\ sealed' \in [Replica -> Row]
    BY <1>10, <2>1, <2>3 DEF WriteClaim, TypeOK
  <2>7. previous' \in [Replica -> [seq : Nat, hash : Nat]]
    BY <1>10, <2>5 DEF WriteClaim, TypeOK
  <2> QED BY <2>4, <2>6, <2>7
<1>11. ASSUME NEW p \in Replica, Claim(p) PROVE TypeOK'
  <2>1. cfg[p].seq + 1 \in Nat
    BY DEF TypeOK, Config
  <2> QED BY <1>10, <1>11, <2>1 DEF TypeOK, Claim, WriteClaim, Goto
<1>12. ASSUME NEW p \in Replica, ClaimReplyLost(p) PROVE TypeOK'
  <2>1. cfg[p].seq + 1 \in Nat
    BY DEF TypeOK, Config
  <2>2. /\ WriteClaim(p) /\ faults' = faults + 1
        /\ spent' = spent \cup {cfg[p].seq + 1}
        /\ Goto(p, "idle") /\ UNCHANGED floor
    BY <1>12, Zenon DEF ClaimReplyLost
  <2>3. /\ head' \in Config /\ rv' \in Nat /\ minted' \in Nat
        /\ sealed' \in [Replica -> Row]
        /\ previous' \in [Replica -> [seq : Nat, hash : Nat]]
    BY <1>10, <2>2, Zenon
  <2>4. UNCHANGED <<rows, call, phase, tries, cfg, anchored, calls, deletes>>
    BY <2>2, Zenon DEF WriteClaim
  <2>5. pc' \in [Replica -> {"idle", "head", "reread", "seed", "create", "claim",
                 "insert", "release", "unwind", "mark", "markput"}]
    BY <2>2 DEF TypeOK, Goto
  <2>6. spent' \subseteq Nat
    BY <2>1, <2>2, Zenon DEF TypeOK
  <2>7. faults' \in Nat
    BY <2>2 DEF TypeOK
  <2>8. floor' \in [Replica -> Nat]
    BY <2>2, Zenon DEF TypeOK
  <2> QED BY <2>3, <2>4, <2>5, <2>6, <2>7, <2>8 DEF TypeOK
<1>13. ASSUME NEW p \in Replica, ClaimConflict(p) PROVE TypeOK'
  BY <1>13 DEF TypeOK, ClaimConflict, Goto
<1>14. ASSUME NEW p \in Replica, Refuse(p) PROVE TypeOK'
  BY <1>14 DEF TypeOK, Refuse, Goto
<1>15. ASSUME NEW p \in Replica, InsertAuditRecord(p) PROVE TypeOK'
  BY <1>15 DEF TypeOK, InsertAuditRecord, Goto
<1>16. ASSUME NEW p \in Replica, InsertFails(p) \/ InsertReplyLost(p) PROVE TypeOK'
  <2>1. CASE InsertFails(p)
    BY <2>1 DEF TypeOK, InsertFails, Goto
  <2>2. CASE InsertReplyLost(p)
    <3>1. rows' \subseteq Row
      BY <2>2 DEF TypeOK, InsertReplyLost
    <3> QED BY <2>2, <3>1 DEF TypeOK, InsertReplyLost, Goto
  <2> QED BY <1>16, <2>1, <2>2
<1>17. ASSUME NEW p \in Replica, ReleaseRead(p) PROVE TypeOK'
  <2>1. sealed[p].seq \in Nat
    BY DEF TypeOK, Row
  <2>2. cfg' \in [Replica -> Config] /\ spent' \subseteq Nat
    BY <1>17, <2>1 DEF TypeOK, ReleaseRead
  <2>3. pc' \in [Replica -> {"idle", "head", "reread", "seed", "create", "claim",
                 "insert", "release", "unwind", "mark", "markput"}]
    BY <1>17 DEF TypeOK, ReleaseRead, Goto
  <2> QED BY <1>17, <2>2, <2>3 DEF TypeOK, ReleaseRead
<1>18. ASSUME NEW p \in Replica, WriteUnwind(p)
       PROVE  head' \in Config /\ rv' \in Nat /\ previous[p].seq \in Nat
  <2>1. cfg[p] \in Config /\ previous[p] \in [seq : Nat, hash : Nat] /\ rv + 1 \in Nat
    BY DEF TypeOK
  <2> QED BY <1>18, <2>1, WithEndType DEF WriteUnwind
<1>19. ASSUME NEW p \in Replica, Unwind(p) PROVE TypeOK'
  BY <1>18, <1>19 DEF TypeOK, Unwind, WriteUnwind, Goto
<1>20. ASSUME NEW p \in Replica, UnwindReplyLost(p) PROVE TypeOK'
  <2>1. WriteUnwind(p) /\ faults' = faults + 1 /\ UNCHANGED floor
    BY <1>20, Zenon DEF UnwindReplyLost
  <2>2. head' \in Config /\ rv' \in Nat
    BY <1>18, <2>1, Zenon
  <2> QED BY <2>1, <2>2 DEF TypeOK, WriteUnwind, Goto
<1>21. ASSUME NEW p \in Replica, UnwindConflict(p) PROVE TypeOK'
  <2>1. sealed[p].seq \in Nat
    BY DEF TypeOK, Row
  <2> QED BY <1>21, <2>1 DEF TypeOK, UnwindConflict, Goto
<1>22. ASSUME NEW p \in Replica, MarkRead(p) PROVE TypeOK'
  BY <1>22 DEF TypeOK, MarkRead, Goto
<1>23. ASSUME NEW p \in Replica, WriteMark(p)
       PROVE  head' \in Config /\ rv' \in Nat /\ tries' \in [Replica -> Nat]
  <2>1. cfg[p] \in Config /\ cfg[p].seq \in Nat /\ cfg[p].hash \in Nat /\ rv + 1 \in Nat
    BY DEF TypeOK, Config
  <2>2. head' \in Config
    BY <1>23, <2>1, WithEndType DEF WriteMark
  <2> QED BY <1>23, <2>1, <2>2 DEF WriteMark, TypeOK
<1>24. ASSUME NEW p \in Replica, MarkWrite(p) PROVE TypeOK'
  BY <1>23, <1>24 DEF TypeOK, MarkWrite, WriteMark, Anchored, Goto
<1>25. ASSUME NEW p \in Replica, MarkReplyLost(p) PROVE TypeOK'
  <2>1. /\ WriteMark(p) /\ faults' = faults + 1
        /\ Goto(p, "idle") /\ UNCHANGED <<phase, anchored>>
    BY <1>25, Zenon DEF MarkReplyLost
  <2>2. head' \in Config /\ rv' \in Nat /\ tries' \in [Replica -> Nat]
    BY <1>23, <2>1, Zenon
  <2>3. UNCHANGED <<rows, minted, call, phase, anchored, cfg, sealed, previous,
                    floor, calls, deletes, spent>>
    BY <2>1 DEF WriteMark
  <2>4. pc' \in [Replica -> {"idle", "head", "reread", "seed", "create", "claim",
                 "insert", "release", "unwind", "mark", "markput"}]
    BY <2>1 DEF TypeOK, Goto
  <2>5. faults' \in Nat
    BY <2>1 DEF TypeOK
  <2> QED BY <2>2, <2>3, <2>4, <2>5 DEF TypeOK
<1>26. ASSUME NEW p \in Replica, MarkConflict(p) PROVE TypeOK'
  BY <1>26 DEF TypeOK, MarkConflict, Goto
<1>27. ASSUME NEW p \in Replica, GiveUp(p) PROVE spent' \subseteq Nat
  BY <1>27 DEF TypeOK, GiveUp, Row
<1>28. ASSUME NEW p \in Replica, CallFails(p) PROVE TypeOK'
  BY <1>27, <1>28 DEF TypeOK, CallFails, Goto
<1>29. ASSUME NEW p \in Replica, Crash(p) PROVE TypeOK'
  BY <1>27, <1>29 DEF TypeOK, Crash, Goto
<1>30. CASE DeleteHead
  BY <1>30, ZeroTypes DEF TypeOK, DeleteHead
<1> QED
  BY <1>1, <1>2, <1>3, <1>4, <1>5, <1>7, <1>8, <1>9, <1>11, <1>12, <1>13,
     <1>14, <1>15, <1>16, <1>17, <1>19, <1>20, <1>21, <1>22, <1>24, <1>25,
     <1>26, <1>28, <1>29, <1>30 DEF Next, Step, Harm, ReplyLost

\* Every reachable state is well typed: in particular no head, claim or
\* rollback ever carries a number below zero.
THEOREM TypeCorrect == HarmedSpec => []TypeOK
<1>1. Init => TypeOK
  BY ChainAssumption, LegacyRows, ZeroTypes DEF Init, TypeOK, GenesisHash
<1> QED BY <1>1, TypeStep, PTL DEF HarmedSpec

-----------------------------------------------------------------------------
(* The chain's safety: Spec, where a call that reports an error had no     *)
(* effect and nobody deletes the head.                                     *)

\* Steps that write neither the head nor the table and claim nothing.
LEMMA QuietStep ==
    ASSUME ChainInv, TypeOK',
           UNCHANGED <<head, rv, rows, sealed, previous>>,
           \A q \in Replica :
              /\ pc'[q] \in {"insert", "release", "unwind"} => Holding(q)
              /\ cfg'[q] = cfg[q] \/ cfg'[q] = head \/ cfg'[q].rv = 0
              /\ pc'[q] = "unwind" => cfg'[q].seq = sealed[q].seq
              /\ (~head.present /\ pc'[q] = "create") =>
                    \A r \in rows : /\ r.seq <= cfg'[q].seq
                                    /\ r.seq = cfg'[q].seq => r.hash = cfg'[q].hash
    PROVE  ChainInv'
<1>1. InFlight' \subseteq InFlight
  BY DEF InFlight, Holding
<1>2. Live' \subseteq Live
  BY <1>1 DEF Live
<1>3. UniqueSequence'
  BY DEF ChainInv, UniqueSequence
<1>4. Versions'
  <2>1. /\ rv \in Nat /\ head.rv \in Nat /\ head.rv <= rv
        /\ head.present => head.rv >= 1
    BY DEF ChainInv, Versions, TypeOK, Config
  <2>2. ASSUME NEW q \in Replica
        PROVE  cfg'[q].rv <= rv /\ ((head.present /\ cfg'[q].rv = head.rv) => cfg'[q] = head)
    <3>1. CASE cfg'[q] = cfg[q]
      BY <3>1 DEF ChainInv, Versions
    <3>2. CASE cfg'[q] = head
      BY <2>1, <3>2
    <3>3. CASE cfg'[q].rv = 0
      BY <2>1, <3>3
    <3> QED BY <3>1, <3>2, <3>3
  <2> QED BY <2>1, <2>2 DEF Versions
<1>5. Unseeded'
  BY DEF ChainInv, Unseeded, Holding
<1>6. Placed'
  BY <1>2 DEF ChainInv, Placed
<1>7. Distinct'
  BY <1>1 DEF ChainInv, Distinct
<1>8. LiveLinked'
  BY <1>2 DEF ChainInv, LiveLinked
<1>9. Undo'
  BY <1>1 DEF ChainInv, Undo, InFlight
<1> QED BY <1>3, <1>4, <1>5, <1>6, <1>7, <1>8, <1>9 DEF ChainInv

\* A write at the current resourceVersion starts from the current head.
LEMMA CurrentIsHead ==
    ASSUME ChainInv, NEW p \in Replica, Current(p)
    PROVE  head.present /\ cfg[p] = head
BY DEF ChainInv, Versions, Current

\* After a write of the head at a fresh version, versions still identify it.
LEMMA FreshVersion ==
    ASSUME ChainInv, TypeOK', rv' = rv + 1, head'.rv = rv + 1,
           \A q \in Replica : cfg'[q] = cfg[q] \/ cfg'[q] = head'
    PROVE  Versions'
BY DEF ChainInv, Versions, TypeOK, Config

\* The first head: nothing is claimed yet and the seed is the table's end.
LEMMA CreateStep ==
    ASSUME ChainInv, TypeOK', NEW p \in Replica, CreateHead(p)
    PROVE  ChainInv'
<1>1. /\ pc[p] = "create" /\ ~head.present
      /\ rv' = rv + 1 /\ UNCHANGED <<rows, sealed, previous>>
      /\ cfg' = [cfg EXCEPT ![p] = head']
      /\ head' = WithEnd(cfg[p], cfg[p].seq, cfg[p].hash, rv + 1)
  BY DEF CreateHead, WriteNewHead
<1>2. /\ head'.present /\ head'.seq = cfg[p].seq /\ head'.hash = cfg[p].hash
      /\ head'.rv = rv + 1
  BY <1>1 DEF WithEnd, Rewritten
<1>3. \A q \in Replica : pc'[q] \notin {"insert", "release", "unwind"}
  <2>1. \A q \in Replica : pc[q] \notin {"insert", "release", "unwind"}
    BY <1>1 DEF ChainInv, Unseeded, Holding
  <2>2. Proceed(p, head')
    BY DEF CreateHead
  <2> QED BY <2>1, <2>2 DEF Proceed, Anchored, Goto, ChainInv, TypeOK
<1>4. InFlight' = {}
  BY <1>3 DEF InFlight, Holding
<1>5. InFlight = {}
  BY <1>1 DEF ChainInv, Unseeded, InFlight
<1>6. Live' = rows /\ Live = rows
  BY <1>1, <1>4, <1>5 DEF Live
<1>7. Versions'
  BY <1>1, <1>2, FreshVersion DEF ChainInv, TypeOK
<1>8. Placed'
  BY <1>1, <1>2, <1>6 DEF ChainInv, Unseeded, Placed
<1>9. LiveLinked'
  BY <1>6 DEF ChainInv, LiveLinked
<1>10. UniqueSequence' /\ Unseeded' /\ Distinct' /\ Undo'
  BY <1>1, <1>2, <1>4 DEF ChainInv, UniqueSequence, Unseeded, Distinct, Undo
<1> QED BY <1>7, <1>8, <1>9, <1>10 DEF ChainInv

\* A claim takes the number after the head, which nobody else can hold.
LEMMA ClaimStep ==
    ASSUME ChainInv, TypeOK', NEW p \in Replica, Claim(p)
    PROVE  ChainInv'
<1> DEFINE record == Seal(head, minted + 1, Kind(p))
<1>1. head.present /\ cfg[p] = head
  BY CurrentIsHead DEF Claim, WriteClaim
<1>2. /\ pc[p] = "claim" /\ rv' = rv + 1
      /\ head' = WithEnd(head, record.seq, record.hash, rv + 1)
      /\ sealed' = [sealed EXCEPT ![p] = record]
      /\ previous' = [previous EXCEPT ![p] = [seq |-> head.seq, hash |-> head.hash]]
      /\ pc' = [pc EXCEPT ![p] = "insert"]
      /\ UNCHANGED <<rows, cfg>>
  BY <1>1 DEF Claim, WriteClaim, Goto
<1>3. /\ record.seq = head.seq + 1 /\ record.prev = head.hash
      /\ head'.present /\ head'.seq = record.seq /\ head'.hash = record.hash
      /\ head'.rv = rv + 1
  BY <1>2 DEF Seal, WithEnd, Rewritten
<1>4. sealed'[p] = record /\ previous'[p] = [seq |-> head.seq, hash |-> head.hash]
  BY <1>2 DEF ChainInv, TypeOK
<1>5. ASSUME NEW q \in Replica, q # p
      PROVE  sealed'[q] = sealed[q] /\ previous'[q] = previous[q] /\ pc'[q] = pc[q]
  BY <1>2, <1>5 DEF ChainInv, TypeOK
<1>6. pc'[p] = "insert"
  BY <1>2 DEF ChainInv, TypeOK
<1>7. p \notin InFlight /\ InFlight' = InFlight \cup {p}
  BY <1>2, <1>5, <1>6 DEF InFlight, Holding
<1>8. Live' = Live \cup {record}
  BY <1>2, <1>4, <1>5, <1>7 DEF Live, InFlight
<1>9. head.seq \in Nat /\ \A x \in Live : x.seq \in Nat /\ x.seq <= head.seq
                                        /\ (x.seq = head.seq => x.hash = head.hash)
  BY <1>1 DEF ChainInv, Placed, TypeOK, Live, Row, Config, InFlight
<1>10. Versions'
  BY <1>2, <1>3, FreshVersion DEF ChainInv, TypeOK
<1>11. Unseeded'
  BY <1>3 DEF Unseeded
<1>12. Placed'
  BY <1>3, <1>8, <1>9 DEF Placed
<1>13. LiveLinked'
  BY <1>3, <1>8, <1>9 DEF ChainInv, LiveLinked
<1>14. Distinct'
  <2>1. \A r \in rows : r.seq # record.seq
    BY <1>3, <1>9 DEF Live
  <2>2. \A q \in InFlight : sealed[q].seq # record.seq /\ q \in Replica
    BY <1>3, <1>9 DEF Live, InFlight
  <2> QED BY <1>2, <1>4, <1>5, <1>7, <2>1, <2>2 DEF ChainInv, Distinct
<1>15. Undo'
  <2>1. sealed'[p].seq = previous'[p].seq + 1 /\ sealed'[p].prev = previous'[p].hash
    BY <1>3, <1>4
  <2>2. ASSUME NEW q \in InFlight
        PROVE  /\ sealed'[q].seq = previous'[q].seq + 1
               /\ sealed'[q].prev = previous'[q].hash
               /\ pc'[q] = "unwind" => cfg'[q].seq = sealed'[q].seq
    BY <1>2, <1>5, <1>7, <2>2 DEF ChainInv, Undo, InFlight
  <2> QED BY <1>6, <1>7, <2>1, <2>2 DEF Undo
<1> QED BY <1>2, <1>10, <1>11, <1>12, <1>13, <1>14, <1>15 DEF ChainInv, UniqueSequence

\* An insert moves a claimed record into the table.
LEMMA InsertStep ==
    ASSUME ChainInv, TypeOK', NEW p \in Replica, InsertAuditRecord(p)
    PROVE  ChainInv'
<1>1. /\ pc[p] = "insert" /\ rows' = rows \cup {sealed[p]}
      /\ UNCHANGED <<head, rv, cfg, sealed, previous>>
  BY DEF InsertAuditRecord
<1>2. pc'[p] \in {"mark", "idle"} /\ \A q \in Replica : q # p => pc'[q] = pc[q]
  BY DEF InsertAuditRecord, Goto, ChainInv, TypeOK
<1>3. p \in InFlight /\ InFlight' = InFlight \ {p}
  BY <1>1, <1>2 DEF InFlight, Holding
<1>4. Live' \subseteq Live
  BY <1>1, <1>3 DEF Live
<1>5. UniqueSequence'
  BY <1>1, <1>3 DEF ChainInv, UniqueSequence, Distinct
<1>6. Unseeded'
  BY <1>1 DEF ChainInv, Unseeded, Holding
<1>7. Versions'
  BY <1>1 DEF ChainInv, Versions
<1>8. Placed' /\ LiveLinked'
  BY <1>1, <1>4 DEF ChainInv, Placed, LiveLinked
<1>9. Distinct'
  BY <1>1, <1>3 DEF ChainInv, Distinct
<1>10. Undo'
  BY <1>1, <1>2, <1>3 DEF ChainInv, Undo, InFlight
<1> QED BY <1>5, <1>6, <1>7, <1>8, <1>9, <1>10 DEF ChainInv

\* A rollback puts the head onto the record its own claim was sealed onto.
LEMMA UnwindStep ==
    ASSUME ChainInv, TypeOK', NEW p \in Replica, Unwind(p)
    PROVE  ChainInv'
<1>1. head.present /\ cfg[p] = head
  BY CurrentIsHead DEF Unwind, WriteUnwind
<1>2. /\ pc[p] = "unwind" /\ rv' = rv + 1
      /\ head' = WithEnd(head, previous[p].seq, previous[p].hash, rv + 1)
      /\ pc' = [pc EXCEPT ![p] = "idle"]
      /\ UNCHANGED <<rows, cfg, sealed, previous>>
  BY <1>1 DEF Unwind, WriteUnwind, Goto
<1>3. pc'[p] = "idle" /\ \A q \in Replica : q # p => pc'[q] = pc[q]
  BY <1>2 DEF ChainInv, TypeOK
<1>4. p \in InFlight /\ InFlight' = InFlight \ {p}
  BY <1>2, <1>3 DEF InFlight, Holding
<1>5. Live' \subseteq Live
  BY <1>2, <1>4 DEF Live
<1>6. /\ head'.present /\ head'.seq = previous[p].seq /\ head'.hash = previous[p].hash
      /\ head'.rv = rv + 1
  BY <1>2 DEF WithEnd, Rewritten
<1>7. /\ head.seq = sealed[p].seq /\ sealed[p].seq = previous[p].seq + 1
      /\ sealed[p].prev = previous[p].hash
  BY <1>1, <1>2, <1>4 DEF ChainInv, Undo
<1>8. previous[p].seq \in Nat
  BY DEF ChainInv, TypeOK
<1>9. \A x \in Live : x.seq \in Nat /\ x.seq <= head.seq
  BY <1>1 DEF ChainInv, Placed, TypeOK, Live, Row, InFlight
<1>10. \A x \in Live' : x.seq # sealed[p].seq
  <2>1. \A r \in rows : r.seq # sealed[p].seq
    BY <1>4 DEF ChainInv, Distinct
  <2>2. \A q \in InFlight : q # p => sealed[q].seq # sealed[p].seq
    BY <1>4 DEF ChainInv, Distinct
  <2> QED BY <1>2, <1>4, <2>1, <2>2 DEF Live
<1>11. sealed[p] \in Live
  BY <1>4 DEF Live
<1>12. Placed'
  <2>1. ASSUME NEW x \in Live'
        PROVE  x.seq <= previous[p].seq /\ (x.seq = previous[p].seq => x.hash = previous[p].hash)
    <3>1. x \in Live /\ x.seq \in Nat /\ x.seq <= sealed[p].seq /\ x.seq # sealed[p].seq
      BY <1>5, <1>7, <1>9, <1>10
    <3>2. x.seq <= previous[p].seq
      BY <1>7, <1>8, <3>1
    <3>3. ASSUME x.seq = previous[p].seq PROVE x.hash = previous[p].hash
      BY <1>7, <1>11, <3>1, <3>3 DEF ChainInv, LiveLinked
    <3> QED BY <3>2, <3>3
  <2> QED BY <1>6, <2>1 DEF Placed
<1>13. LiveLinked'
  BY <1>5 DEF ChainInv, LiveLinked
<1>14. Versions'
  BY <1>2, <1>6, FreshVersion DEF ChainInv, TypeOK
<1>15. Unseeded' /\ UniqueSequence'
  BY <1>2, <1>6 DEF ChainInv, Unseeded, UniqueSequence
<1>16. Distinct'
  BY <1>2, <1>4 DEF ChainInv, Distinct
<1>17. Undo'
  BY <1>2, <1>3, <1>4 DEF ChainInv, Undo, InFlight
<1> QED BY <1>12, <1>13, <1>14, <1>15, <1>16, <1>17 DEF ChainInv

\* Marking the adoption as said moves no end of the chain.
LEMMA MarkStep ==
    ASSUME ChainInv, TypeOK', NEW p \in Replica, MarkWrite(p)
    PROVE  ChainInv'
<1>1. head.present /\ cfg[p] = head
  BY CurrentIsHead DEF MarkWrite, WriteMark
<1>2. /\ pc[p] = "markput" /\ rv' = rv + 1
      /\ head' = Rewritten(head, head.seq, head.hash, TRUE, rv + 1)
      /\ UNCHANGED <<rows, cfg, sealed, previous>>
  BY <1>1 DEF MarkWrite, WriteMark
<1>3. pc'[p] \in {"head", "idle"} /\ \A q \in Replica : q # p => pc'[q] = pc[q]
  BY DEF MarkWrite, Anchored, Goto, ChainInv, TypeOK
<1>4. InFlight' = InFlight
  BY <1>2, <1>3 DEF InFlight, Holding
<1>5. Live' = Live
  BY <1>2, <1>4 DEF Live
<1>6. /\ head'.present /\ head'.seq = head.seq /\ head'.hash = head.hash
      /\ head'.rv = rv + 1
  BY <1>2 DEF Rewritten
<1>7. Versions'
  BY <1>2, <1>6, FreshVersion DEF ChainInv, TypeOK
<1>8. Placed' /\ LiveLinked'
  BY <1>1, <1>5, <1>6 DEF ChainInv, Placed, LiveLinked
<1>9. Unseeded' /\ UniqueSequence' /\ Distinct'
  BY <1>2, <1>4, <1>6 DEF ChainInv, Unseeded, UniqueSequence, Distinct
<1>10. Undo'
  BY <1>2, <1>3, <1>4 DEF ChainInv, Undo, InFlight
<1> QED BY <1>7, <1>8, <1>9, <1>10 DEF ChainInv

LEMMA ChainStep ==
    ASSUME ChainInv, [Next]_vars
    PROVE  ChainInv'
<1>1. TypeOK'
  BY TypeStep DEF ChainInv
<1>2. \A q \in Replica : (~head.present /\ pc[q] = "create") =>
          \A r \in rows : /\ r.seq <= cfg[q].seq
                          /\ r.seq = cfg[q].seq => r.hash = cfg[q].hash
  BY DEF ChainInv, Unseeded
<1>3. \A q \in Replica : pc[q] = "unwind" => cfg[q].seq = sealed[q].seq
  BY DEF ChainInv, Undo, InFlight, Holding
<1>4. CASE UNCHANGED vars
  BY <1>1, <1>2, <1>3, <1>4, QuietStep DEF vars, Holding
<1>5. ASSUME NEW p \in Replica,
             UNCHANGED <<head, rv, rows, sealed, previous, cfg>>,
             \A q \in Replica : q # p => pc'[q] = pc[q],
             pc'[p] \notin {"unwind", "create"},
             pc'[p] \in {"insert", "release"} => Holding(p)
      PROVE  ChainInv'
  <2>1. \A q \in Replica : pc'[q] \in {"insert", "release", "unwind"} => Holding(q)
    BY <1>5 DEF Holding
  <2>2. \A q \in Replica : pc'[q] = "unwind" => cfg'[q].seq = sealed[q].seq
    BY <1>3, <1>5
  <2>3. \A q \in Replica : (~head.present /\ pc'[q] = "create") =>
            \A r \in rows : /\ r.seq <= cfg'[q].seq
                            /\ r.seq = cfg'[q].seq => r.hash = cfg'[q].hash
    BY <1>2, <1>5
  <2> QED BY <1>1, <1>5, <2>1, <2>2, <2>3, QuietStep
<1>6. ASSUME NEW p \in Replica, NEW method \in {"Record", "EnsureAnchor"},
             Begin(p, method)
      PROVE  ChainInv'
  BY <1>5, <1>6 DEF Begin, Goto, ChainInv, TypeOK
<1>7. ASSUME NEW p \in Replica, ReadHead(p) PROVE ChainInv'
  <2>1. /\ UNCHANGED <<head, rv, rows, sealed, previous>>
        /\ cfg' = [cfg EXCEPT ![p] = head] /\ Proceed(p, head)
    BY <1>7 DEF ReadHead
  <2>2. pc'[p] \in {"claim", "head", "idle"} /\ \A q \in Replica : q # p => pc'[q] = pc[q]
    BY <2>1 DEF Proceed, Anchored, Goto, ChainInv, TypeOK
  <2>3. cfg'[p] = head /\ \A q \in Replica : q # p => cfg'[q] = cfg[q]
    BY <2>1 DEF ChainInv, TypeOK
  <2> QED BY <1>1, <1>2, <1>3, <2>1, <2>2, <2>3, QuietStep DEF Holding
<1>8. ASSUME NEW p \in Replica, HeadMissing(p) PROVE ChainInv'
  BY <1>5, <1>8 DEF HeadMissing, Goto, ChainInv, TypeOK
<1>9. ASSUME NEW p \in Replica, ReadTableHead(p) PROVE ChainInv'
  <2>1. PICK seed \in TableHeads : cfg' = [cfg EXCEPT ![p] = SeededConfig(seed, 0)]
    BY <1>9 DEF ReadTableHead
  <2>2. UNCHANGED <<head, rv, rows, sealed, previous>>
    BY <1>9 DEF ReadTableHead
  <2>3. seed \in Row
    BY <2>1, ZeroTypes DEF TableHeads, ChainInv, TypeOK
  <2>4. cfg'[p].seq = seed.seq /\ cfg'[p].hash = seed.hash /\ cfg'[p].rv = 0
    BY <2>1, <2>3, SeededType DEF ChainInv, TypeOK
  <2>5. \A q \in Replica : q # p => cfg'[q] = cfg[q]
    BY <2>1 DEF ChainInv, TypeOK
  <2>6. \A r \in rows : r.seq <= seed.seq /\ (r.seq = seed.seq => r.hash = seed.hash)
    BY <2>1 DEF TableHeads, ChainInv, UniqueSequence
  <2>7. pc'[p] = "create" /\ \A q \in Replica : q # p => pc'[q] = pc[q]
    BY <1>9 DEF ReadTableHead, Goto, ChainInv, TypeOK
  <2> QED BY <1>1, <1>2, <1>3, <2>2, <2>4, <2>5, <2>6, <2>7, QuietStep DEF Holding
<1>10. ASSUME NEW p \in Replica, CreateExists(p) PROVE ChainInv'
  BY <1>5, <1>10 DEF CreateExists, Goto, ChainInv, TypeOK
<1>11. ASSUME NEW p \in Replica, ClaimConflict(p) PROVE ChainInv'
  BY <1>5, <1>11 DEF ClaimConflict, Goto, ChainInv, TypeOK
<1>12. ASSUME NEW p \in Replica, Refuse(p) PROVE ChainInv'
  BY <1>5, <1>12 DEF Refuse, Goto, ChainInv, TypeOK
<1>13. ASSUME NEW p \in Replica, InsertFails(p) PROVE ChainInv'
  <2>1. rows' = rows
    BY <1>13 DEF InsertFails
  <2> QED BY <1>5, <1>13, <2>1 DEF InsertFails, Goto, ChainInv, TypeOK, Holding
<1>14. ASSUME NEW p \in Replica, ReleaseRead(p) PROVE ChainInv'
  <2>1. pc[p] = "release" /\ UNCHANGED <<head, rv, rows, sealed, previous>>
    BY <1>14 DEF ReleaseRead
  <2>2. CASE /\ head.seq = sealed[p].seq /\ cfg' = [cfg EXCEPT ![p] = head]
             /\ Goto(p, "unwind")
    <3>1. cfg'[p] = head /\ \A q \in Replica : q # p => cfg'[q] = cfg[q]
      BY <2>2 DEF ChainInv, TypeOK
    <3>2. pc'[p] = "unwind" /\ \A q \in Replica : q # p => pc'[q] = pc[q]
      BY <2>2 DEF Goto, ChainInv, TypeOK
    <3> QED BY <1>1, <1>2, <1>3, <2>1, <2>2, <3>1, <3>2, QuietStep DEF Holding
  <2>3. CASE Goto(p, "idle") /\ UNCHANGED cfg
    BY <1>5, <2>1, <2>3 DEF Goto, ChainInv, TypeOK
  <2> QED BY <1>14, <2>2, <2>3 DEF ReleaseRead
<1>15. ASSUME NEW p \in Replica, UnwindConflict(p) PROVE ChainInv'
  BY <1>5, <1>15 DEF UnwindConflict, Goto, ChainInv, TypeOK
<1>16. ASSUME NEW p \in Replica, MarkRead(p) PROVE ChainInv'
  <2>1. UNCHANGED <<head, rv, rows, sealed, previous>>
    BY <1>16 DEF MarkRead
  <2>2. pc'[p] \in {"markput", "idle"} /\ \A q \in Replica : q # p => pc'[q] = pc[q]
    BY <1>16 DEF MarkRead, Goto, ChainInv, TypeOK
  <2>3. cfg'[p] \in {cfg[p], head} /\ \A q \in Replica : q # p => cfg'[q] = cfg[q]
    BY <1>16 DEF MarkRead, ChainInv, TypeOK
  <2> QED BY <1>1, <1>2, <1>3, <2>1, <2>2, <2>3, QuietStep DEF Holding
<1>17. ASSUME NEW p \in Replica, MarkConflict(p) PROVE ChainInv'
  BY <1>5, <1>17 DEF MarkConflict, Goto, ChainInv, TypeOK
<1>18. ASSUME NEW p \in Replica, CallFails(p) PROVE ChainInv'
  BY <1>5, <1>18 DEF CallFails, Goto, ChainInv, TypeOK
<1>19. ASSUME NEW p \in Replica, Crash(p) PROVE ChainInv'
  BY <1>5, <1>19 DEF Crash, Goto, ChainInv, TypeOK
<1> QED
  BY <1>1, <1>4, <1>6, <1>7, <1>8, <1>9, <1>10, <1>11, <1>12, <1>13, <1>14,
     <1>15, <1>16, <1>17, <1>18, <1>19, CreateStep, ClaimStep,
     InsertStep, UnwindStep, MarkStep DEF Next, Step

LEMMA ChainStart == Init => ChainInv
<1> SUFFICES ASSUME Init PROVE ChainInv
  OBVIOUS
<1>1. TypeOK
  BY ChainAssumption, LegacyRows, ZeroTypes DEF Init, TypeOK, GenesisHash
<1>2. InFlight = {} /\ ~head.present
  BY DEF Init, InFlight, Holding, NoConfig
<1>3. Live = Legacy(minted) /\ rows = Legacy(minted) /\ minted \in Nat
  BY <1>1, <1>2 DEF Live, Init, TypeOK
<1>4. UniqueSequence /\ LiveLinked
  BY <1>3 DEF UniqueSequence, LiveLinked, Legacy
<1>5. Versions
  BY <1>2 DEF Init, Versions, NoConfig
<1>6. Unseeded
  BY <1>2, <1>3 DEF Init, Unseeded, Holding, Legacy
<1>7. Placed /\ Distinct /\ Undo
  BY <1>2 DEF Placed, Distinct, Undo
<1> QED BY <1>1, <1>4, <1>5, <1>6, <1>7 DEF ChainInv

-----------------------------------------------------------------------------
(* The numbers of the log: the protocol implements NumberedLog.            *)

\* The table of an installation without a head ends at its last legacy record.
LEMMA LegacyEnd ==
    ASSUME TypeOK, rows = Legacy(minted), NEW seed \in TableHeads
    PROVE  seed.seq = minted
<1>1. minted \in Nat /\ rows = {[seq |-> n, prev |-> n - 1, hash |-> n, kind |-> "legacy"]
                                    : n \in 1..minted}
  BY DEF TypeOK, Legacy
<1>2. CASE minted = 0
  BY <1>1, <1>2 DEF TableHeads, NoRow
<1>3. CASE minted # 0
  <2> DEFINE last == [seq |-> minted, prev |-> minted - 1, hash |-> minted, kind |-> "legacy"]
  <2>1. last \in rows /\ last.seq = minted
    BY <1>1, <1>3
  <2>2. seed \in rows /\ \A s \in rows : s.seq <= seed.seq
    BY <2>1 DEF TableHeads
  <2>3. seed.seq \in 1..minted /\ minted <= seed.seq
    BY <1>1, <2>1, <2>2
  <2> QED BY <1>1, <2>3
<1> QED BY <1>2, <1>3

\* The head, once there, stays, and nothing is written before it is.
LEMMA UpgradedStep ==
    ASSUME ChainInv, Upgraded, [Next]_vars
    PROVE  Upgraded'
<1> SUFFICES ASSUME ~head'.present PROVE Upgraded'
  BY DEF Upgraded
<1>2. ASSUME NEW p \in Replica
      PROVE  ~CreateHead(p) /\ ~Claim(p) /\ ~Unwind(p) /\ ~MarkWrite(p)
  BY DEF CreateHead, WriteNewHead, Claim, WriteClaim, Unwind, WriteUnwind, MarkWrite,
         WriteMark, WithEnd, Rewritten
<1>3. CASE UNCHANGED vars
  BY <1>3 DEF vars, Upgraded
<1>4. ASSUME NEW p \in Replica, Step(p) PROVE Upgraded'
  <2>1. UNCHANGED <<head, minted>> /\ ~head.present
    BY <1>2, <1>4 DEF Step, Begin, ReadHead, HeadMissing, ReadTableHead, CreateExists,
         ClaimConflict, Refuse, InsertAuditRecord, InsertFails, ReleaseRead,
         UnwindConflict, MarkRead, MarkConflict, CallFails, Crash
  <2>2. ~Holding(p)
    BY <2>1 DEF ChainInv, Unseeded
  <2>3. ~InsertAuditRecord(p) /\ ~InsertFails(p) /\ ~ReleaseRead(p) /\ ~UnwindConflict(p)
    BY <2>2 DEF Holding, InsertAuditRecord, InsertFails, ReleaseRead, UnwindConflict
  <2>4. ~ReadHead(p) /\ ~CreateExists(p)
    BY <2>1 DEF ReadHead, CreateExists
  <2>5. rows' = rows
    BY <1>2, <1>4, <2>3 DEF Step, Begin, ReadHead, HeadMissing, ReadTableHead,
         CreateExists, ClaimConflict, Refuse, MarkRead, MarkConflict, CallFails, Crash
  <2>6. ASSUME NEW q \in Replica, pc'[q] = "create" PROVE cfg'[q].seq = minted
    <3>1. CASE ReadTableHead(p)
      <4>1. PICK seed \in TableHeads : cfg' = [cfg EXCEPT ![p] = SeededConfig(seed, 0)]
        BY <3>1 DEF ReadTableHead
      <4>2. seed.seq = minted
        BY <2>1, LegacyEnd DEF ChainInv, Upgraded
      <4>3. q # p => pc[q] = "create" /\ cfg'[q] = cfg[q]
        BY <2>6, <3>1, <4>1 DEF ReadTableHead, Goto, ChainInv, TypeOK
      <4>4. q = p => cfg'[q].seq = seed.seq
        BY <4>1 DEF SeededConfig, ChainInv, TypeOK
      <4> QED BY <2>1, <4>2, <4>3, <4>4 DEF Upgraded
    <3>2. CASE ~ReadTableHead(p)
      <4>1. pc[q] = "create" /\ cfg'[q] = cfg[q]
        BY <1>2, <1>4, <2>1, <2>3, <2>4, <2>6, <3>2 DEF Step, Begin, HeadMissing,
           ClaimConflict, Refuse, MarkRead, MarkConflict, CallFails, Crash, Goto,
           ChainInv, TypeOK
      <4> QED BY <2>1, <4>1 DEF Upgraded
    <3> QED BY <3>1, <3>2
  <2> QED BY <2>1, <2>5, <2>6 DEF Upgraded
<1> QED BY <1>3, <1>4 DEF Next

\* A replica that neither takes up nor lays down a number leaves all four parts alone.
LEMMA NoNumberMoves ==
    ASSUME UNCHANGED <<rows, spent, sealed>>, End' = End,
           \A q \in Replica : Holding(q)' <=> Holding(q)
    PROVE  UNCHANGED Numbers!log
<1>1. InFlight' = InFlight
  BY DEF InFlight
<1> QED BY <1>1 DEF Numbers!log

\* A replica that lays its number down is the only one that held it.
LEMMA LaidDown ==
    ASSUME ChainInv, NEW p \in Replica, Holding(p), ~Holding(p)',
           sealed' = sealed, \A q \in Replica : q # p => (Holding(q)' <=> Holding(q))
    PROVE  /\ {sealed[q].seq : q \in InFlight}' = {sealed[q].seq : q \in InFlight} \ {sealed[p].seq}
           /\ sealed[p].seq \in {sealed[q].seq : q \in InFlight}
<1>1. p \in InFlight /\ InFlight' = InFlight \ {p}
  BY DEF InFlight
<1>2. \A q \in InFlight : q # p => sealed[q].seq # sealed[p].seq
  BY <1>1 DEF ChainInv, Distinct
<1> QED BY <1>1, <1>2

LEMMA StepNumbers ==
    ASSUME ChainInv, Upgraded, [Next]_vars
    PROVE  [Numbers!Next]_(Numbers!log)
<1> DEFINE heldBy == {sealed[q].seq : q \in InFlight}
<1>1. CASE UNCHANGED vars
  BY <1>1, NoNumberMoves DEF vars, End, Holding
<1>2. ASSUME NEW p \in Replica,
             \/ \E method \in {"Record", "EnsureAnchor"} : Begin(p, method)
             \/ ReadHead(p) \/ HeadMissing(p) \/ ReadTableHead(p) \/ CreateExists(p)
             \/ ClaimConflict(p) \/ Refuse(p) \/ InsertFails(p)
             \/ MarkRead(p) \/ MarkConflict(p)
      PROVE  UNCHANGED Numbers!log
  <2>1. UNCHANGED <<head, minted, rows, spent, sealed>>
    BY <1>2 DEF Begin, ReadHead, HeadMissing, ReadTableHead, CreateExists, ClaimConflict,
         Refuse, InsertFails, MarkRead, MarkConflict
  <2>2. \A q \in Replica : q # p => pc'[q] = pc[q]
    BY <1>2 DEF Begin, ReadHead, Proceed, Anchored, HeadMissing, ReadTableHead,
         CreateExists, ClaimConflict, Refuse, InsertFails, MarkRead, MarkConflict, Goto,
         ChainInv, TypeOK
  <2>3. Holding(p)' <=> Holding(p)
    BY <1>2 DEF Begin, ReadHead, Proceed, Anchored, HeadMissing, ReadTableHead,
         CreateExists, ClaimConflict, Refuse, InsertFails, MarkRead, MarkConflict, Goto,
         Holding, ChainInv, TypeOK
  <2> QED BY <2>1, <2>2, <2>3, NoNumberMoves DEF End, Holding
<1>3. ASSUME NEW p \in Replica, CreateHead(p) PROVE UNCHANGED Numbers!log
  <2>1. /\ pc[p] = "create" /\ ~head.present /\ UNCHANGED <<rows, sealed, spent, minted>>
        /\ head' = WithEnd(cfg[p], cfg[p].seq, cfg[p].hash, rv + 1)
        /\ Proceed(p, head')
    BY <1>3 DEF CreateHead, WriteNewHead
  <2>2. End' = End
    BY <2>1 DEF End, WithEnd, Rewritten, Upgraded
  <2>3. \A q \in Replica : Holding(q)' <=> Holding(q)
    BY <2>1 DEF Proceed, Anchored, Goto, Holding, ChainInv, TypeOK
  <2> QED BY <2>1, <2>2, <2>3, NoNumberMoves
<1>4. ASSUME NEW p \in Replica, MarkWrite(p) PROVE UNCHANGED Numbers!log
  <2>1. /\ head.present /\ cfg[p] = head
    BY <1>4, CurrentIsHead DEF MarkWrite, WriteMark
  <2>2. End' = End
    BY <1>4, <2>1 DEF MarkWrite, WriteMark, Rewritten, End
  <2>3. UNCHANGED <<rows, sealed, spent>> /\ \A q \in Replica : Holding(q)' <=> Holding(q)
    BY <1>4 DEF MarkWrite, WriteMark, Anchored, Goto, Holding, ChainInv, TypeOK
  <2> QED BY <2>2, <2>3, NoNumberMoves
<1>5. ASSUME NEW p \in Replica, Claim(p) PROVE Numbers!Claim
  <2>1. head.present /\ cfg[p] = head
    BY <1>5, CurrentIsHead DEF Claim, WriteClaim
  <2>2. /\ head'.present /\ head'.seq = head.seq + 1
        /\ sealed' = [sealed EXCEPT ![p] = Seal(head, minted + 1, Kind(p))]
        /\ pc[p] = "claim" /\ pc' = [pc EXCEPT ![p] = "insert"]
        /\ UNCHANGED <<rows, spent>>
    BY <1>5, <2>1 DEF Claim, WriteClaim, Goto, WithEnd, Rewritten, Seal
  <2>3. sealed'[p].seq = head.seq + 1
    BY <2>2 DEF Seal, ChainInv, TypeOK
  <2>4. \A q \in Replica : q # p => sealed'[q] = sealed[q] /\ pc'[q] = pc[q]
    BY <2>2 DEF ChainInv, TypeOK
  <2>5. p \notin InFlight /\ InFlight' = InFlight \cup {p}
    BY <2>2, <2>4 DEF InFlight, Holding, ChainInv, TypeOK
  <2>6. heldBy' = heldBy \cup {head.seq + 1}
    BY <2>3, <2>4, <2>5 DEF InFlight
  <2> QED BY <2>1, <2>2, <2>6 DEF Numbers!Claim, End
<1>6. ASSUME NEW p \in Replica, InsertAuditRecord(p) PROVE Numbers!Next
  <2>1. /\ pc[p] = "insert" /\ rows' = rows \cup {sealed[p]}
        /\ UNCHANGED <<head, minted, sealed, spent>>
    BY <1>6 DEF InsertAuditRecord
  <2>2. Holding(p) /\ ~Holding(p)' /\ \A q \in Replica : q # p => (Holding(q)' <=> Holding(q))
    BY <1>6 DEF InsertAuditRecord, Goto, Holding, ChainInv, TypeOK
  <2>3. heldBy' = heldBy \ {sealed[p].seq} /\ sealed[p].seq \in heldBy
    BY <2>1, <2>2, LaidDown
  <2>4. End' = End /\ {r.seq : r \in rows}' = {r.seq : r \in rows} \cup {sealed[p].seq}
    BY <2>1 DEF End
  <2> QED BY <2>1, <2>3, <2>4 DEF Numbers!Next, Numbers!Write
<1>7. ASSUME NEW p \in Replica, Unwind(p) PROVE Numbers!Return
  <2>1. head.present /\ cfg[p] = head
    BY <1>7, CurrentIsHead DEF Unwind, WriteUnwind
  <2>2. /\ pc[p] = "unwind" /\ head'.present /\ head'.seq = previous[p].seq
        /\ UNCHANGED <<rows, sealed, spent>>
    BY <1>7, <2>1 DEF Unwind, WriteUnwind, WithEnd, Rewritten
  <2>3. Holding(p) /\ ~Holding(p)' /\ \A q \in Replica : q # p => (Holding(q)' <=> Holding(q))
    BY <1>7 DEF Unwind, WriteUnwind, Goto, Holding, ChainInv, TypeOK
  <2>4. heldBy' = heldBy \ {sealed[p].seq} /\ sealed[p].seq \in heldBy
    BY <2>2, <2>3, LaidDown
  <2>5. head.seq = sealed[p].seq /\ sealed[p].seq = previous[p].seq + 1
    BY <2>1, <2>2, <2>3 DEF ChainInv, Undo, InFlight
  <2>6. previous[p].seq \in Nat
    BY DEF ChainInv, TypeOK
  <2>7. End = sealed[p].seq /\ End' = End - 1
    BY <2>1, <2>2, <2>5, <2>6 DEF End
  <2>8. {r.seq : r \in rows}' = {r.seq : r \in rows} /\ spent' = spent
    BY <2>2
  <2> QED BY <2>4, <2>7, <2>8 DEF Numbers!Return
<1>8. ASSUME NEW p \in Replica, Holding(p), ~Holding(p)', spent' = spent \cup {sealed[p].seq},
             UNCHANGED <<head, minted, rows, sealed>>,
             \A q \in Replica : q # p => (Holding(q)' <=> Holding(q))
      PROVE  Numbers!Next
  <2>1. heldBy' = heldBy \ {sealed[p].seq} /\ sealed[p].seq \in heldBy
    BY <1>8, LaidDown
  <2>2. End' = End /\ {r.seq : r \in rows}' = {r.seq : r \in rows}
    BY <1>8 DEF End
  <2> QED BY <1>8, <2>1, <2>2 DEF Numbers!Next, Numbers!Lose
<1>9. ASSUME NEW p \in Replica, ReleaseRead(p) PROVE [Numbers!Next]_(Numbers!log)
  <2>1. pc[p] = "release" /\ UNCHANGED <<head, minted, rows, sealed>>
    BY <1>9 DEF ReleaseRead
  <2>2. CASE Goto(p, "unwind") /\ UNCHANGED spent
    <3>1. \A q \in Replica : Holding(q)' <=> Holding(q)
      BY <2>1, <2>2 DEF Goto, Holding, ChainInv, TypeOK
    <3> QED BY <2>1, <2>2, <3>1, NoNumberMoves DEF End
  <2>3. CASE Goto(p, "idle") /\ spent' = spent \cup {sealed[p].seq}
    <3>1. Holding(p) /\ ~Holding(p)' /\ \A q \in Replica : q # p => (Holding(q)' <=> Holding(q))
      BY <2>1, <2>3 DEF Goto, Holding, ChainInv, TypeOK
    <3> QED BY <1>8, <2>1, <2>3, <3>1
  <2> QED BY <1>9, <2>2, <2>3 DEF ReleaseRead
<1>10. ASSUME NEW p \in Replica, UnwindConflict(p) PROVE Numbers!Next
  <2>1. /\ spent' = spent \cup {sealed[p].seq} /\ UNCHANGED <<head, minted, rows, sealed>>
    BY <1>10 DEF UnwindConflict
  <2>2. Holding(p) /\ ~Holding(p)' /\ \A q \in Replica : q # p => (Holding(q)' <=> Holding(q))
    BY <1>10 DEF UnwindConflict, Goto, Holding, ChainInv, TypeOK
  <2> QED BY <1>8, <2>1, <2>2
<1>11. ASSUME NEW p \in Replica, CallFails(p) \/ Crash(p)
       PROVE  [Numbers!Next]_(Numbers!log)
  <2>1. GiveUp(p) /\ Goto(p, "idle") /\ UNCHANGED <<head, minted, rows, sealed>>
    BY <1>11 DEF CallFails, Crash
  <2>2. ~Holding(p)' /\ \A q \in Replica : q # p => (Holding(q)' <=> Holding(q))
    BY <2>1 DEF Goto, Holding, ChainInv, TypeOK
  <2>3. CASE Holding(p)
    BY <1>8, <2>1, <2>2, <2>3 DEF GiveUp
  <2>4. CASE ~Holding(p)
    BY <2>1, <2>2, <2>4, NoNumberMoves DEF GiveUp, End
  <2> QED BY <2>3, <2>4
<1>12. ASSUME NEW p \in Replica, Step(p) PROVE [Numbers!Next]_(Numbers!log)
  BY <1>2, <1>3, <1>4, <1>5, <1>6, <1>7, <1>9, <1>10, <1>11, <1>12
     DEF Step, Numbers!Next
<1> QED BY <1>1, <1>12 DEF Next

LEMMA StartNumbers == Init => Numbers!Init /\ Upgraded
<1> SUFFICES ASSUME Init PROVE Numbers!Init /\ Upgraded
  OBVIOUS
<1>1. /\ ~head.present /\ head = NoConfig /\ InFlight = {}
      /\ minted \in Nat /\ rows = Legacy(minted)
  BY ChainAssumption DEF Init, InFlight, Holding, NoConfig
<1>2. {r.seq : r \in rows} = 1..minted
  <2>1. \A r \in rows : r.seq \in 1..minted
    BY <1>1 DEF Legacy
  <2>2. ASSUME NEW n \in 1..minted PROVE \E r \in rows : r.seq = n
    <3> DEFINE r == [seq |-> n, prev |-> n - 1, hash |-> n, kind |-> "legacy"]
    <3>1. r \in rows /\ r.seq = n
      BY <1>1 DEF Legacy
    <3> QED BY <3>1
  <2> QED BY <2>1, <2>2
<1> QED BY <1>1, <1>2 DEF Numbers!Init, End, Init, Upgraded

-----------------------------------------------------------------------------

\* The append protocol of claim, release and InsertAuditRecord: with any number
\* of replicas, conflicts, failed calls and crashes, no two rows share a number,
\* neighbours are linked and the log never runs ahead of the anchor.
THEOREM ChainSafe == Spec => [](UniqueSequence /\ RowsLinked /\ AnchorCoversLog)
<1>1. ChainInv /\ [Next]_vars => ChainInv'
  BY ChainStep
<1>2. ChainInv => UniqueSequence /\ RowsLinked /\ AnchorCoversLog
  BY DEF ChainInv, UniqueSequence, RowsLinked, AnchorCoversLog, LiveLinked,
         Live, Placed, Unseeded
<1> QED BY <1>1, <1>2, ChainStart, PTL DEF Spec

\* Recorder.Record, seen from outside, is the abstract log: whatever replicas
\* interleave, conflict, fail and crash, a number is the next one when it is handed
\* out, and is then written, given back while it is the last one, or lost.
THEOREM ImplementsNumberedLog == Spec => NumbersHandedOut
<1> DEFINE I == ChainInv /\ Upgraded
<1>1. Init => I /\ Numbers!Init
  BY ChainStart, StartNumbers
<1>2. I /\ [Next]_vars => I'
  BY ChainStep, UpgradedStep
<1>3. I /\ [Next]_vars => [Numbers!Next]_(Numbers!log)
  BY StepNumbers
<1> HIDE DEF I
<1> QED BY <1>1, <1>2, <1>3, PTL DEF Spec, NumbersHandedOut, Numbers!Spec

\* A number handed out, given back, written or lost keeps every number's fate single.
LEMMA AccountedStep ==
    ASSUME NEW e \in Nat, NEW w, NEW h, NEW l, NEW e1, NEW w1, NEW h1, NEW l1,
           w \cup h \cup l = 1..e,
           w \cap h = {}, h \cap l = {}, l \cap w = {},
           \/ e1 = e + 1 /\ h1 = h \cup {e + 1} /\ w1 = w /\ l1 = l
           \/ e \in h /\ h1 = h \ {e} /\ e1 = e - 1 /\ w1 = w /\ l1 = l
           \/ \E n \in h : /\ h1 = h \ {n} /\ e1 = e
                           /\ \/ w1 = w \cup {n} /\ l1 = l
                              \/ l1 = l \cup {n} /\ w1 = w
    PROVE  /\ e1 \in Nat /\ w1 \cup h1 \cup l1 = 1..e1
           /\ w1 \cap h1 = {} /\ h1 \cap l1 = {} /\ l1 \cap w1 = {}
<1>1. CASE e1 = e + 1 /\ h1 = h \cup {e + 1} /\ w1 = w /\ l1 = l
  BY <1>1
<1>2. CASE e \in h /\ h1 = h \ {e} /\ e1 = e - 1 /\ w1 = w /\ l1 = l
  <2>1. e \in 1..e /\ e \notin w /\ e \notin l
    BY <1>2
  <2>2. e1 \in Nat /\ 1..e1 = (1..e) \ {e}
    BY <1>2, <2>1
  <2> QED BY <1>2, <2>1, <2>2
<1>3. CASE \E n \in h : /\ h1 = h \ {n} /\ e1 = e
                        /\ \/ w1 = w \cup {n} /\ l1 = l
                           \/ l1 = l \cup {n} /\ w1 = w
  BY <1>3
<1> QED BY <1>1, <1>2, <1>3

LEMMA AccountedKept == Numbers!Accounted /\ [Numbers!Next]_(Numbers!log) => Numbers!Accounted'
<1> DEFINE written == {r.seq : r \in rows}
           held    == {sealed[p].seq : p \in InFlight}
<1> SUFFICES ASSUME Numbers!Accounted, [Numbers!Next]_(Numbers!log)
             PROVE  Numbers!Accounted'
  OBVIOUS
<1>1. /\ End \in Nat /\ written \cup held \cup spent = 1..End
      /\ written \cap held = {} /\ held \cap spent = {} /\ spent \cap written = {}
  BY DEF Numbers!Accounted
<1>2. \/ End' = End + 1 /\ held' = held \cup {End + 1} /\ written' = written /\ spent' = spent
      \/ End \in held /\ held' = held \ {End} /\ End' = End - 1
         /\ written' = written /\ spent' = spent
      \/ \E n \in held : /\ held' = held \ {n} /\ End' = End
                         /\ \/ written' = written \cup {n} /\ spent' = spent
                            \/ spent' = spent \cup {n} /\ written' = written
      \/ End' = End /\ held' = held /\ written' = written /\ spent' = spent
  BY Zenon DEF Numbers!Next, Numbers!Claim, Numbers!Return, Numbers!Write, Numbers!Lose,
     Numbers!log
<1> HIDE DEF written, held
<1>3. /\ End' \in Nat /\ written' \cup held' \cup spent' = 1..End'
      /\ written' \cap held' = {} /\ held' \cap spent' = {} /\ spent' \cap written' = {}
  BY <1>1, <1>2, AccountedStep
<1> QED BY <1>3 DEF Numbers!Accounted, written, held

\* Every number up to the end has exactly one fate: it is written, held by somebody
\* or lost (a failed InsertAuditRecord that release could not take back).
THEOREM AllAccounted == Numbers!Spec => []Numbers!Accounted
<1>1. Numbers!Init => Numbers!Accounted
  BY DEF Numbers!Init, Numbers!Accounted
<1> QED BY <1>1, AccountedKept, PTL DEF Numbers!Spec

\* With every number accounted for, one without a row is held or lost.
LEMMA GapOwed ==
    ASSUME Upgraded, Numbers!Accounted
    PROVE  NoUnexplainedGap
<1> SUFFICES ASSUME NEW n \in 1..head.seq
             PROVE  n \in {r.seq : r \in rows} \/ n \in spent
                    \/ n \in {sealed[p].seq : p \in InFlight}
  BY DEF NoUnexplainedGap
<1>1. CASE head.present
  BY <1>1 DEF Numbers!Accounted, End
<1>2. CASE ~head.present
  BY <1>2 DEF Upgraded, NoConfig
<1> QED BY <1>1, <1>2

\* A number at or below the head without a row is one a replica is still working on
\* or one whose insert failed for good and that release could not take back.
THEOREM GapsExplained == Spec => []NoUnexplainedGap
<1> DEFINE I == ChainInv /\ Upgraded
<1>1. Init => I /\ Numbers!Init
  BY ChainStart, StartNumbers
<1>2. I /\ [Next]_vars => I'
  BY ChainStep, UpgradedStep
<1>3. I /\ [Next]_vars => [Numbers!Next]_(Numbers!log)
  BY StepNumbers
<1>4. Numbers!Spec => []Numbers!Accounted
  BY AllAccounted
<1>5. I /\ Numbers!Accounted => NoUnexplainedGap
  BY GapOwed
<1> HIDE DEF I
<1> QED BY <1>1, <1>2, <1>3, <1>4, <1>5, PTL DEF Spec, Numbers!Spec
-----------------------------------------------------------------------------
(* Links, with lost replies and a deleted head: every end of a chain that  *)
(* a row, a head or a replica knows of carries its number with its hash.   *)

Ends ==
    {<<0, GenesisHash>>}
        \cup {<<r.seq, r.hash>> : r \in Live} \cup {<<r.seq - 1, r.prev>> : r \in Live}
        \cup {<<head.seq, head.hash>>}
        \cup {<<cfg[p].seq, cfg[p].hash>> : p \in Replica}
        \cup {<<previous[p].seq, previous[p].hash>> : p \in Replica}

\* A hash names one number, and zero is genesis's only.
HashesName ==
    /\ \A x \in Ends : x[1] \in Int /\ x[2] \in Nat /\ x[2] <= minted
    /\ \A x, y \in Ends : x[2] = y[2] => x[1] = y[1]
    /\ \A x \in Ends : x[1] = 0 => x[2] = GenesisHash

\* The ends after a step, told from the parts they are made of.
LEMMA EndsWithin ==
    ASSUME NEW new,
           \A x \in Live' : \/ x \in Live
                            \/ /\ <<x.seq, x.hash>> \in Ends \cup new
                               /\ <<x.seq - 1, x.prev>> \in Ends \cup new,
           <<head'.seq, head'.hash>> \in Ends \cup new,
           \A p \in Replica : /\ <<cfg'[p].seq, cfg'[p].hash>> \in Ends \cup new
                              /\ <<previous'[p].seq, previous'[p].hash>> \in Ends \cup new
    PROVE  Ends' \subseteq Ends \cup new
BY DEF Ends

LEMMA NamesKept ==
    ASSUME TypeOK, HashesName, minted' = minted, Ends' \subseteq Ends
    PROVE  HashesName'
BY DEF HashesName

LEMMA NamesGrow ==
    ASSUME TypeOK, HashesName, minted' = minted + 1, NEW n \in Nat \ {0},
           Ends' \subseteq Ends \cup {<<n, minted + 1>>}
    PROVE  HashesName'
BY DEF HashesName, TypeOK
\* Whatever is known already is named already.
LEMMA KnownEnds ==
    /\ <<0, GenesisHash>> \in Ends
    /\ <<head.seq, head.hash>> \in Ends
    /\ \A p \in Replica : /\ <<cfg[p].seq, cfg[p].hash>> \in Ends
                          /\ <<previous[p].seq, previous[p].hash>> \in Ends
    /\ \A r \in rows : <<r.seq, r.hash>> \in Ends
BY DEF Ends, Live

\* A step that claims nothing and takes what it knows from elsewhere.
LEMMA QuietEnds ==
    ASSUME TypeOK, HashesName, minted' = minted,
           UNCHANGED <<sealed, previous>>,
           rows' \subseteq Live, \A q \in Replica : Holding(q)' => Holding(q),
           <<head'.seq, head'.hash>> \in Ends,
           \A q \in Replica : <<cfg'[q].seq, cfg'[q].hash>> \in Ends
    PROVE  HashesName'
<1>1. \A x \in Live' : x \in Live
  BY DEF Live, InFlight
<1>2. Ends' \subseteq Ends
  BY <1>1, KnownEnds, EndsWithin
<1> QED BY <1>2, NamesKept

\* The claim, whether its answer arrives or not, mints one name.
LEMMA ClaimEnds ==
    ASSUME TypeOK, HashesName, NEW p \in Replica, WriteClaim(p), Claim(p) \/ pc'[p] = "idle",
           \A q \in Replica \ {p} : pc'[q] = pc[q]
    PROVE  HashesName'
<1> DEFINE record == Seal(cfg[p], minted + 1, Kind(p))
           new == {<<cfg[p].seq + 1, minted + 1>>}
<1>1. /\ head' = WithEnd(cfg[p], record.seq, record.hash, rv + 1)
      /\ sealed' = [sealed EXCEPT ![p] = record]
      /\ previous' = [previous EXCEPT ![p] = [seq |-> cfg[p].seq, hash |-> cfg[p].hash]]
      /\ pc[p] = "claim" /\ minted' = minted + 1 /\ UNCHANGED <<rows, cfg>>
  BY DEF WriteClaim
<1>2. /\ record.seq = cfg[p].seq + 1 /\ record.hash = minted + 1 /\ record.prev = cfg[p].hash
      /\ head'.seq = record.seq /\ head'.hash = record.hash
      /\ cfg[p].seq \in Nat /\ record.seq - 1 = cfg[p].seq
  BY <1>1 DEF Seal, WithEnd, Rewritten, TypeOK, Config
<1>3. \A x \in Live' : x \in Live \/ x = record
  BY <1>1 DEF Live, InFlight, Holding, TypeOK
<1>4. \A q \in Replica : <<previous'[q].seq, previous'[q].hash>> \in Ends
  BY <1>1, KnownEnds DEF TypeOK
<1> HIDE DEF record
<1>5. Ends' \subseteq Ends \cup new
  <2>1. \A x \in Live' : \/ x \in Live
                         \/ /\ <<x.seq, x.hash>> \in Ends \cup new
                            /\ <<x.seq - 1, x.prev>> \in Ends \cup new
    BY <1>2, <1>3, KnownEnds
  <2>2. <<head'.seq, head'.hash>> \in Ends \cup new
    BY <1>2
  <2>3. \A q \in Replica : /\ <<cfg'[q].seq, cfg'[q].hash>> \in Ends \cup new
                           /\ <<previous'[q].seq, previous'[q].hash>> \in Ends \cup new
    BY <1>1, <1>4, KnownEnds
  <2> QED BY <2>1, <2>2, <2>3, EndsWithin
<1>6. cfg[p].seq + 1 \in Nat \ {0}
  BY <1>2
<1>7. minted' = minted + 1
  BY <1>1
<1>8. Ends' \subseteq Ends \cup {<<cfg[p].seq + 1, minted + 1>>}
  BY <1>5
<1> HIDE DEF new
<1> QED BY <1>6, <1>7, <1>8, NamesGrow

LEMMA EndsStep == TypeOK /\ HashesName /\ [Next \/ Harm]_vars => HashesName'
<1> SUFFICES ASSUME TypeOK, HashesName, [Next \/ Harm]_vars PROVE HashesName'
  OBVIOUS
<1>1. rows \subseteq Live /\ \A q \in InFlight : sealed[q] \in Live
  BY DEF Live
<1> USE KnownEnds
<1>2. ASSUME NEW p \in Replica, Step(p) \/ ReplyLost(p) PROVE HashesName'
  <2>1. CASE (\E method \in {"Record", "EnsureAnchor"} : Begin(p, method)) \/ HeadMissing(p)
             \/ CreateExists(p) \/ ClaimConflict(p) \/ Refuse(p) \/ UnwindConflict(p) \/ MarkConflict(p)
             \/ CallFails(p) \/ Crash(p)
    <3>1. /\ UNCHANGED <<head, rows, minted, cfg, sealed, previous>>
      BY <2>1 DEF Begin, HeadMissing, CreateExists, ClaimConflict, Refuse, UnwindConflict,
         MarkConflict, CallFails, Crash, kube
    <3>2. \A q \in Replica : Holding(q)' => Holding(q)
      BY <2>1 DEF Begin, HeadMissing, CreateExists, ClaimConflict, Refuse, UnwindConflict,
         MarkConflict, CallFails, Crash, Goto, Holding, TypeOK
    <3> QED BY <1>1, <3>1, <3>2, QuietEnds
  <2>2. CASE ReadHead(p) \/ ReleaseRead(p) \/ MarkRead(p)
    <3>1. /\ UNCHANGED <<head, rows, minted, sealed, previous>>
          /\ cfg' = cfg \/ cfg' = [cfg EXCEPT ![p] = head]
      BY <2>2 DEF ReadHead, ReleaseRead, MarkRead, kube
    <3>2. \A q \in Replica : Holding(q)' => Holding(q)
      BY <2>2 DEF ReadHead, ReleaseRead, MarkRead, Proceed, Anchored, Goto, Holding, TypeOK
    <3> QED BY <1>1, <3>1, <3>2, QuietEnds DEF TypeOK
  <2>3. CASE ReadTableHead(p)
    <3>1. PICK seed \in TableHeads : cfg' = [cfg EXCEPT ![p] = SeededConfig(seed, 0)]
      BY <2>3 DEF ReadTableHead
    <3>2. <<seed.seq, seed.hash>> \in Ends
      BY DEF TableHeads, NoRow
    <3>3. \A q \in Replica : <<cfg'[q].seq, cfg'[q].hash>> \in Ends
      BY <3>1, <3>2 DEF SeededConfig, TypeOK
    <3>4. \A q \in Replica : Holding(q)' => Holding(q)
      BY <2>3 DEF ReadTableHead, Goto, Holding, TypeOK
    <3> QED BY <1>1, <2>3, <3>3, <3>4, QuietEnds DEF ReadTableHead, kube
  <2>4. CASE CreateHead(p) \/ CreateReplyLost(p)
    <3>1. WriteNewHead(p)
      BY <2>4 DEF CreateHead, CreateReplyLost
    <3>2. head'.seq = cfg[p].seq /\ head'.hash = cfg[p].hash /\ cfg' = [cfg EXCEPT ![p] = head']
          /\ UNCHANGED <<rows, minted, sealed, previous>>
      BY <3>1 DEF WriteNewHead, WithEnd, Rewritten
    <3>3. \A q \in Replica : Holding(q)' => Holding(q)
      BY <2>4 DEF CreateHead, CreateReplyLost, WriteNewHead, Proceed, Anchored, Goto, Holding, TypeOK
    <3> QED BY <1>1, <3>2, <3>3, QuietEnds DEF TypeOK
  <2>5. CASE Claim(p) \/ ClaimReplyLost(p)
    <3>1. WriteClaim(p) /\ (Claim(p) \/ pc'[p] = "idle")
      BY <2>5 DEF Claim, ClaimReplyLost, Goto, TypeOK
    <3>2. \A q \in Replica \ {p} : pc'[q] = pc[q]
      BY <2>5 DEF Claim, ClaimReplyLost, Goto, TypeOK
    <3> QED BY <3>1, <3>2, ClaimEnds
  <2>6. CASE InsertAuditRecord(p) \/ InsertFails(p) \/ InsertReplyLost(p)
    <3>1. UNCHANGED <<head, minted, cfg, sealed, previous>> /\ rows' \subseteq Live
      BY <1>1, <2>6 DEF InsertAuditRecord, InsertFails, InsertReplyLost, InFlight, Holding, kube
    <3>2. \A q \in Replica : Holding(q)' => Holding(q)
      BY <2>6 DEF InsertAuditRecord, InsertFails, InsertReplyLost, Goto, Holding, TypeOK
    <3> QED BY <3>1, <3>2, QuietEnds
  <2>7. CASE Unwind(p) \/ UnwindReplyLost(p)
    <3>1. WriteUnwind(p)
      BY <2>7 DEF Unwind, UnwindReplyLost
    <3>2. head'.seq = previous[p].seq /\ head'.hash = previous[p].hash
          /\ UNCHANGED <<rows, minted, cfg, sealed, previous>>
      BY <3>1 DEF WriteUnwind, WithEnd, Rewritten
    <3>3. \A q \in Replica : Holding(q)' => Holding(q)
      BY <3>1 DEF WriteUnwind, Goto, Holding, TypeOK
    <3> QED BY <1>1, <3>2, <3>3, QuietEnds
  <2>8. CASE MarkWrite(p) \/ MarkReplyLost(p)
    <3>1. WriteMark(p)
      BY <2>8 DEF MarkWrite, MarkReplyLost
    <3>2. head'.seq = cfg[p].seq /\ head'.hash = cfg[p].hash
          /\ UNCHANGED <<rows, minted, cfg, sealed, previous>>
      BY <3>1 DEF WriteMark, Rewritten
    <3>3. \A q \in Replica : Holding(q)' => Holding(q)
      BY <2>8 DEF MarkWrite, MarkReplyLost, Anchored, Goto, Holding, TypeOK
    <3> QED BY <1>1, <3>2, <3>3, QuietEnds
  <2> QED BY <1>2, <2>1, <2>2, <2>3, <2>4, <2>5, <2>6, <2>7, <2>8 DEF Step, ReplyLost
<1>3. CASE DeleteHead
  BY <1>1, <1>3, QuietEnds DEF DeleteHead, NoConfig, local, Holding
<1>4. CASE UNCHANGED vars
  BY <1>1, <1>4, QuietEnds DEF vars, kube, local, Holding
<1> QED BY <1>2, <1>3, <1>4 DEF Next, Harm

LEMMA EndsStart == Init => HashesName
<1> SUFFICES ASSUME Init PROVE HashesName
  OBVIOUS
<1>1. minted \in Nat /\ InFlight = {}
  BY ChainAssumption DEF Init, InFlight, Holding
<1>2. \A r \in Live : r.seq \in 1..minted /\ r.hash = r.seq /\ r.prev = r.seq - 1
  BY <1>1 DEF Init, Live, Legacy
<1>3. \A x \in Ends : x[1] = x[2] /\ x[1] \in 0..minted
  BY <1>1, <1>2 DEF Init, Ends, GenesisHash, NoConfig
<1> QED BY <1>1, <1>3 DEF HashesName, GenesisHash

\* Number and hash travel as a pair through claim, release, writeHead and readHead's
\* seed: whatever replies are lost and whenever the head is deleted, a row that links
\* to another one is numbered right after it.
THEOREM NeverSkips == HarmedSpec => []LinksNeverSkip
<1>1. TypeOK /\ HashesName => LinksNeverSkip
  <2> SUFFICES ASSUME TypeOK, HashesName, NEW r \in rows, NEW s \in rows, s.prev = r.hash
               PROVE  s.seq = r.seq + 1
    BY DEF LinksNeverSkip
  <2>1. <<r.seq, r.hash>> \in Ends /\ <<s.seq - 1, s.prev>> \in Ends
    BY DEF Ends, Live
  <2>2. r.seq = s.seq - 1 /\ r.seq \in Nat /\ s.seq \in Nat
    BY <2>1 DEF HashesName, TypeOK, Row
  <2> QED BY <2>2
<1>2. Init => TypeOK
  BY ChainAssumption, LegacyRows, ZeroTypes DEF Init, TypeOK, GenesisHash
<1> QED BY <1>1, <1>2, EndsStart, TypeStep, EndsStep, PTL DEF HarmedSpec
-----------------------------------------------------------------------------
(* The quiet log                                                           *)

\* As many rows as numbers, where every number has one row.
LEMMA OneRowEach ==
    ASSUME NEW n \in Nat, {r.seq : r \in rows} = 1..n, UniqueSequence
    PROVE  Cardinality(rows) = n
<1> DEFINE f == [r \in rows |-> r.seq]
<1>1. f \in [rows -> 1..n]
  OBVIOUS
<1>2. f \in Injection(rows, 1..n)
  BY <1>1 DEF UniqueSequence, Injection, IsInjective
<1>3. f \in Surjection(rows, 1..n)
  <2>1. ASSUME NEW m \in 1..n PROVE \E r \in rows : f[r] = m
    OBVIOUS
  <2> QED BY <1>1, <2>1 DEF Surjection
<1>4. IsFiniteSet(1..n) /\ Cardinality(1..n) = n
  BY FS_Interval
<1> QED BY <1>2, <1>3, <1>4, FS_Injection

\* Claim, release and InsertAuditRecord leave no trace of what failed: with nothing
\* under way and no number lost, the table is the chain from genesis to the anchor.
THEOREM QuietIsWhole == Spec => []QuietLogIsTheChain
<1> DEFINE I == ChainInv /\ Upgraded /\ HashesName
<1>1. Init => I /\ Numbers!Init
  BY ChainStart, StartNumbers, EndsStart
<1>2. I /\ [Next]_vars => I'
  BY ChainStep, UpgradedStep, EndsStep DEF ChainInv
<1>3. I /\ [Next]_vars => [Numbers!Next]_(Numbers!log)
  BY StepNumbers
<1>4. Numbers!Spec => []Numbers!Accounted
  BY AllAccounted
<1>5. I /\ Numbers!Accounted => QuietLogIsTheChain
  <2> SUFFICES ASSUME I, Numbers!Accounted, head.present, spent = {},
                      \A p \in Replica : pc[p] = "idle"
               PROVE  /\ {r.seq : r \in rows} = 1..head.seq
                      /\ Cardinality(rows) = head.seq
                      /\ \A r \in rows : r.seq = 1 => r.prev = GenesisHash
                      /\ \A r \in rows : r.seq = head.seq => r.hash = head.hash
    BY DEF QuietLogIsTheChain
  <2>1. InFlight = {}
    BY DEF InFlight, Holding
  <2>2. {r.seq : r \in rows} = 1..head.seq
    BY <2>1 DEF Numbers!Accounted, End
  <2>3. Cardinality(rows) = head.seq
    BY <2>2, OneRowEach DEF ChainInv, TypeOK, Config
  <2>4. ASSUME NEW r \in rows, r.seq = 1 PROVE r.prev = GenesisHash
    <3>1. <<r.seq - 1, r.prev>> \in Ends
      BY DEF Ends, Live
    <3> QED BY <2>4, <3>1 DEF HashesName
  <2>5. ASSUME NEW r \in rows, r.seq = head.seq PROVE r.hash = head.hash
    BY <2>5 DEF ChainInv, Placed, Live
  <2> QED BY <2>2, <2>3, <2>4, <2>5
<1> HIDE DEF I
<1> QED BY <1>1, <1>2, <1>3, <1>4, <1>5, PTL DEF Spec, Numbers!Spec
-----------------------------------------------------------------------------
(* The adoption                                                            *)

Adopted == head.present /\ head.origin = "adopted"

\* The record admitting the adoption is in the table, before a record or at all.
SaidBefore(x) ==
    \E s \in rows : s.kind = "adoption" /\ s.seq > head.adoptedFrom /\ s.seq < x.seq
Said == \E s \in rows : s.kind = "adoption" /\ s.seq > head.adoptedFrom

\* What a replica does only once it takes the adoption for admitted.
Vouches(p) ==
    \/ anchored[p] \/ pc[p] \in {"mark", "markput"}
    \/ pc[p] # "idle" /\ phase[p] = "append"

\* What a replica in a call has made sure of.
Prepared(p) ==
    /\ pc[p] = "create" => ~cfg[p].said /\ cfg[p].adoptedFrom = cfg[p].seq
    /\ pc[p] = "claim" \/ Holding(p) => phase[p] # "anchor"
    /\ pc[p] \in {"mark", "markput"} => phase[p] = "adopt"
    /\ Holding(p) => /\ phase[p] = "adopt" => sealed[p].kind = "adoption"
                     /\ previous[p].seq >= head.adoptedFrom
    /\ ~head.present => ~anchored[p] /\ (pc[p] # "idle" => phase[p] = "anchor")

Admitted ==
    /\ \A p \in Replica : Prepared(p)
    /\ head.present => head.seq >= head.adoptedFrom
    /\ Adopted =>
          /\ head.said => Said
          /\ \A p \in Replica : Vouches(p) => Said
          /\ \A x \in Live : x.kind = "transition" /\ x.seq > head.adoptedFrom => SaidBefore(x)
\* What a replica has made sure of is disturbed by its own steps only, as long as the
\* head stays what it was adopted from.
LEMMA AdmittedQuiet ==
    ASSUME TypeOK, Admitted, NEW p \in Replica,
           UNCHANGED <<head, rows>>, \A x \in Live' : x \in Live,
           \A q \in Replica \ {p} : /\ pc'[q] = pc[q] /\ phase'[q] = phase[q] /\ cfg'[q] = cfg[q]
                                   /\ sealed'[q] = sealed[q] /\ previous'[q] = previous[q]
                                   /\ anchored'[q] = anchored[q],
           Prepared(p)', Adopted /\ Vouches(p)' => Said
    PROVE  Admitted'
<1>1. \A q \in Replica : Prepared(q)'
  BY DEF Admitted, Prepared, Holding
<1>2. \A q \in Replica : Adopted /\ Vouches(q)' => Said
  BY DEF Admitted, Vouches
<1>3. Said' = Said /\ Adopted' = Adopted /\ \A x : SaidBefore(x)' = SaidBefore(x)
  BY DEF Said, Adopted, SaidBefore
<1> QED BY <1>1, <1>2, <1>3 DEF Admitted

\* A write of the head by a replica that holds the current one keeps what was adopted.
LEMMA AdmittedWrite ==
    ASSUME TypeOK, ChainInv, Admitted, NEW p \in Replica, head.present,
           NEW seq \in Nat, NEW hash, NEW said,
           head' = Rewritten(head, seq, hash, said, rv + 1), UNCHANGED rows,
           said => head.said \/ Vouches(p),
           seq >= head.adoptedFrom,
           \A x \in Live' : \/ x \in Live
                            \/ x.kind = "transition" /\ Adopted => SaidBefore(x),
           \A q \in Replica \ {p} : /\ pc'[q] = pc[q] /\ phase'[q] = phase[q] /\ cfg'[q] = cfg[q]
                                   /\ sealed'[q] = sealed[q] /\ previous'[q] = previous[q]
                                   /\ anchored'[q] = anchored[q],
           Prepared(p)', Vouches(p)' => Vouches(p)
    PROVE  Admitted'
<1>1. /\ head'.present /\ head'.seq = seq /\ head'.origin = head.origin
      /\ head'.adoptedFrom = head.adoptedFrom /\ head'.said = said
  BY DEF Rewritten
<1>2. \A q \in Replica : Prepared(q)'
  BY <1>1 DEF Admitted, Prepared, Holding
<1>3. Said' = Said /\ Adopted' = Adopted /\ \A x : SaidBefore(x)' = SaidBefore(x)
  BY <1>1 DEF Said, Adopted, SaidBefore
<1>4. \A q \in Replica : Vouches(q)' => Vouches(q)
  BY DEF Vouches
<1> QED BY <1>1, <1>2, <1>3, <1>4 DEF Admitted
\* The first head admits nothing yet, and nobody has relied on it.
LEMMA AdmittedCreate ==
    ASSUME TypeOK, ChainInv, Admitted, NEW p \in Replica, CreateHead(p)
    PROVE  Admitted'
<1>1. /\ pc[p] = "create" /\ ~head.present /\ head' = WithEnd(cfg[p], cfg[p].seq, cfg[p].hash, rv + 1)
      /\ UNCHANGED <<rows, sealed, previous>> /\ Proceed(p, head')
  BY DEF CreateHead, WriteNewHead
<1>2. /\ head'.present /\ ~head'.said /\ head'.seq = head'.adoptedFrom /\ head'.adoptedFrom = cfg[p].seq
  BY <1>1 DEF Admitted, Prepared, WithEnd, Rewritten
<1>3. \A q \in Replica : ~anchored[q] /\ (pc[q] # "idle" => phase[q] = "anchor") /\ ~Holding(q)
  BY <1>1 DEF Admitted, Prepared, ChainInv, Unseeded
<1>4. \/ pc'[p] = "head" /\ phase'[p] = "adopt" /\ UNCHANGED anchored
      \/ head'.origin = "genesis" /\ pc'[p] \in {"head", "idle"} /\ phase'[p] = "append"
  <2>1. phase[p] = "anchor"
    BY <1>1, <1>3
  <2> QED BY <1>1, <1>2, <2>1 DEF Proceed, Anchored, Goto, TypeOK
<1>5. \A q \in Replica \ {p} : pc'[q] = pc[q] /\ phase'[q] = phase[q] /\ anchored'[q] = anchored[q]
                              /\ cfg'[q] = cfg[q]
  BY <1>1 DEF CreateHead, WriteNewHead, Proceed, Anchored, Goto, TypeOK
<1>6. \A q \in Replica : Prepared(q)'
  BY <1>1, <1>2, <1>3, <1>4, <1>5 DEF Admitted, Prepared, Holding
<1>7. ASSUME Adopted' PROVE \A q \in Replica : ~Vouches(q)'
  <2>1. \A q \in Replica : pc[q] \notin {"mark", "markput"}
    BY <1>1, <1>3 DEF Admitted, Prepared
  <2> QED BY <1>1, <2>1, <1>3, <1>4, <1>5, <1>7 DEF Vouches, Adopted, TypeOK
<1>8. \A x \in Live' : x.seq <= head'.seq
  <2>1. Live' = rows
    BY <1>1, <1>3, <1>4, <1>5 DEF Live, InFlight, Holding
  <2> QED BY <1>1, <1>2, <2>1 DEF ChainInv, Unseeded
<1>9. \A x \in Live' : ~(x.seq > head'.adoptedFrom)
  <2>1. \A x \in Live' : x.seq \in Nat
    BY <1>1, <1>3, <1>4, <1>5 DEF Live, InFlight, Holding, TypeOK, Row
  <2>2. head'.seq \in Nat
    BY <1>2 DEF TypeOK, Config
  <2> QED BY <1>2, <1>8, <2>1, <2>2
<1>10. head'.seq >= head'.adoptedFrom
  BY <1>2 DEF TypeOK, Config
<1> QED BY <1>2, <1>6, <1>7, <1>9, <1>10 DEF Admitted, Adopted

\* Inserting the record is what admits the adoption.
LEMMA AdmittedInsert ==
    ASSUME TypeOK, ChainInv, Admitted, NEW p \in Replica, InsertAuditRecord(p)
    PROVE  Admitted'
<1>1. /\ pc[p] = "insert" /\ rows' = rows \cup {sealed[p]} /\ p \in InFlight
      /\ pc'[p] = IF phase[p] = "adopt" THEN "mark" ELSE "idle"
      /\ \A q \in Replica \ {p} : pc'[q] = pc[q]
      /\ UNCHANGED <<head, cfg, phase, sealed, previous, anchored>>
  BY DEF InsertAuditRecord, Goto, InFlight, Holding, kube, TypeOK
<1>2. head.present
  BY <1>1 DEF ChainInv, Unseeded, Holding
<1>3. \A x \in Live' : x \in Live
  BY <1>1 DEF Live, InFlight, Holding
<1>4. \A x : SaidBefore(x) => SaidBefore(x)'
  BY <1>1 DEF SaidBefore
<1>5. Said => Said'
  BY <1>1 DEF Said
<1>6. phase[p] = "adopt" => Said'
  <2>1. /\ phase[p] = "adopt" => sealed[p].kind = "adoption"
        /\ previous[p].seq >= head.adoptedFrom
    BY <1>1 DEF Admitted, Prepared, Holding
  <2>2. sealed[p].seq > head.adoptedFrom
    BY <1>1, <2>1 DEF ChainInv, Undo, TypeOK, Config
  <2> QED BY <1>1, <2>1, <2>2 DEF Said
<1>7. \A q \in Replica : Prepared(q)'
  BY <1>1, <1>2 DEF Admitted, Prepared, Holding
<1>8. \A q \in Replica : Adopted /\ Vouches(q)' => Said'
  BY <1>1, <1>5, <1>6 DEF Admitted, Vouches
<1> QED BY <1>1, <1>3, <1>4, <1>5, <1>7, <1>8 DEF Admitted, Adopted
LEMMA AdmittedStep ==
    ASSUME TypeOK, ChainInv, Admitted, [Next]_vars
    PROVE  Admitted'
<1>1. ASSUME NEW p \in Replica, Step(p) PROVE Admitted'
  <2> DEFINE Others == \A q \in Replica \ {p} :
                /\ pc'[q] = pc[q] /\ phase'[q] = phase[q] /\ cfg'[q] = cfg[q]
                /\ sealed'[q] = sealed[q] /\ previous'[q] = previous[q]
                /\ anchored'[q] = anchored[q]
  <2>1. ASSUME NEW method \in {"Record", "EnsureAnchor"}, Begin(p, method) PROVE Admitted'
    <3>1. Others /\ UNCHANGED <<head, rows>> /\ (\A x \in Live' : x \in Live)
      BY <2>1 DEF Begin, Goto, Live, InFlight, Holding, kube, TypeOK
    <3>2. Prepared(p)' /\ (Vouches(p)' => Vouches(p))
      BY <2>1 DEF Begin, Goto, Prepared, Vouches, Holding, Admitted, kube, TypeOK
    <3> QED BY <3>1, <3>2, AdmittedQuiet DEF Admitted
  <2>2. CASE ReadHead(p)
    <3>1. Others /\ UNCHANGED <<head, rows>> /\ (\A x \in Live' : x \in Live)
      BY <2>2 DEF ReadHead, Proceed, Anchored, Goto, Live, InFlight, Holding, kube, TypeOK
    <3>2. Prepared(p)'
      BY <2>2 DEF ReadHead, Proceed, Anchored, Goto, Prepared, Holding, Admitted, kube, TypeOK
    <3>3. Adopted /\ Vouches(p)' => Said
      BY <2>2 DEF ReadHead, Proceed, Anchored, Goto, Vouches, Adopted, Admitted, TypeOK
    <3> QED BY <3>1, <3>2, <3>3, AdmittedQuiet
  <2>3. CASE HeadMissing(p) \/ ReadTableHead(p) \/ CreateExists(p)
    <3>1. Others /\ UNCHANGED <<head, rows>> /\ (\A x \in Live' : x \in Live)
      BY <2>3 DEF HeadMissing, ReadTableHead, CreateExists, Goto, Live, InFlight, Holding, kube, TypeOK
    <3>2. Prepared(p)' /\ (Vouches(p)' => Vouches(p))
      BY <2>3 DEF HeadMissing, ReadTableHead, CreateExists, Goto, SeededConfig, Prepared, Vouches,
         Holding, Admitted, kube, TypeOK
    <3> QED BY <3>1, <3>2, AdmittedQuiet DEF Admitted
  <2>4. CASE ClaimConflict(p) \/ Refuse(p) \/ UnwindConflict(p) \/ MarkConflict(p) \/ InsertFails(p)
    <3>1. Others /\ UNCHANGED <<head, rows>> /\ (\A x \in Live' : x \in Live)
      BY <2>4 DEF ClaimConflict, Refuse, UnwindConflict, MarkConflict, InsertFails, Goto, Live,
         InFlight, Holding, kube, TypeOK
    <3>2. Prepared(p)' /\ (Vouches(p)' => Vouches(p))
      BY <2>4 DEF ClaimConflict, Refuse, UnwindConflict, MarkConflict, InsertFails, Goto, Prepared,
         Vouches, Holding, Admitted, kube, TypeOK
    <3> QED BY <3>1, <3>2, AdmittedQuiet DEF Admitted
  <2>5. CASE ReleaseRead(p) \/ MarkRead(p)
    <3>1. Others /\ UNCHANGED <<head, rows>> /\ (\A x \in Live' : x \in Live)
      BY <2>5 DEF ReleaseRead, MarkRead, Goto, Live, InFlight, Holding, kube, TypeOK
    <3>2. Prepared(p)' /\ (Vouches(p)' => Vouches(p))
      BY <2>5 DEF ReleaseRead, MarkRead, Goto, Prepared, Vouches, Holding, Admitted, kube, TypeOK
    <3> QED BY <3>1, <3>2, AdmittedQuiet DEF Admitted
  <2>6. CASE CallFails(p) \/ Crash(p)
    <3>1. Others /\ UNCHANGED <<head, rows>> /\ (\A x \in Live' : x \in Live)
      BY <2>6 DEF CallFails, Crash, Goto, Live, InFlight, Holding, kube, TypeOK
    <3>2. Prepared(p)' /\ (Vouches(p)' => Vouches(p))
      BY <2>6 DEF CallFails, Crash, Goto, Prepared, Vouches, Holding, Admitted, kube, TypeOK
    <3> QED BY <3>1, <3>2, AdmittedQuiet DEF Admitted
  <2>7. CASE CreateHead(p)
    BY <2>7, AdmittedCreate
  <2>8. CASE InsertAuditRecord(p)
    BY <2>8, AdmittedInsert
  <2>9. CASE Claim(p)
    <3> DEFINE record == Seal(head, minted + 1, Kind(p))
    <3>1. head.present /\ cfg[p] = head
      BY <2>9, CurrentIsHead DEF Claim, WriteClaim
    <3>2. /\ head' = Rewritten(head, record.seq, record.hash, head.said, rv + 1)
          /\ sealed' = [sealed EXCEPT ![p] = record]
          /\ previous' = [previous EXCEPT ![p] = [seq |-> head.seq, hash |-> head.hash]]
          /\ pc[p] = "claim" /\ pc' = [pc EXCEPT ![p] = "insert"]
          /\ UNCHANGED <<rows, phase, cfg, anchored>>
      BY <2>9, <3>1 DEF Claim, WriteClaim, WithEnd, Goto
    <3>3. /\ record.seq = head.seq + 1 /\ head.seq \in Nat
          /\ record.kind = Kind(p) /\ phase[p] # "anchor"
          /\ head.seq >= head.adoptedFrom /\ head.adoptedFrom \in Nat
      BY <3>1, <3>2 DEF Seal, Admitted, Prepared, TypeOK, Config
    <3> HIDE DEF record
    <3>4. \A x \in Live' : x \in Live \/ x = record
      BY <3>2 DEF Live, InFlight, Holding, TypeOK
    <3>5. record.kind = "transition" /\ Adopted => SaidBefore(record)
      <4> SUFFICES ASSUME record.kind = "transition", Adopted PROVE SaidBefore(record)
        OBVIOUS
      <4>1. Vouches(p)
        BY <3>2, <3>3 DEF Kind, Vouches, TypeOK
      <4>2. PICK s \in rows : s.kind = "adoption" /\ s.seq > head.adoptedFrom
        BY <4>1 DEF Admitted, Said
      <4>3. s.seq <= head.seq /\ s.seq \in Nat
        BY <3>1 DEF ChainInv, Placed, Live, TypeOK, Row
      <4> QED BY <3>3, <4>2, <4>3 DEF SaidBefore
    <3>6. Others
      BY <3>2 DEF TypeOK
    <3>7. /\ Vouches(p)' => Vouches(p)
          /\ Prepared(p)'
      BY <3>1, <3>2, <3>3 DEF Vouches, Prepared, Kind, Holding, Rewritten, TypeOK
    <3>8. record.seq \in Nat /\ record.seq >= head.adoptedFrom
      BY <3>3
    <3> QED BY <3>1, <3>2, <3>4, <3>5, <3>6, <3>7, <3>8, AdmittedWrite
  <2>10. CASE Unwind(p)
    <3>1. head.present /\ cfg[p] = head
      BY <2>10, CurrentIsHead DEF Unwind, WriteUnwind
    <3>2. /\ head' = Rewritten(head, previous[p].seq, previous[p].hash, head.said, rv + 1)
          /\ pc[p] = "unwind" /\ pc' = [pc EXCEPT ![p] = "idle"]
          /\ UNCHANGED <<rows, phase, cfg, sealed, previous, anchored>>
      BY <2>10, <3>1 DEF Unwind, WriteUnwind, WithEnd, Goto
    <3>3. previous[p].seq \in Nat /\ previous[p].seq >= head.adoptedFrom
      BY <3>2 DEF Admitted, Prepared, Holding, TypeOK
    <3>4. Others /\ \A x \in Live' : x \in Live
      BY <3>2 DEF Live, InFlight, Holding, TypeOK
    <3>5. Prepared(p)' /\ (Vouches(p)' => Vouches(p))
      BY <3>1, <3>2 DEF Vouches, Prepared, Holding, Rewritten, TypeOK
    <3> QED BY <3>1, <3>2, <3>3, <3>4, <3>5, AdmittedWrite
  <2>11. CASE MarkWrite(p)
    <3>1. head.present /\ cfg[p] = head
      BY <2>11, CurrentIsHead DEF MarkWrite, WriteMark
    <3>2. /\ head' = Rewritten(head, head.seq, head.hash, TRUE, rv + 1)
          /\ pc[p] = "markput" /\ pc'[p] \in {"head", "idle"} /\ phase'[p] = "append"
          /\ UNCHANGED <<rows, cfg, sealed, previous>>
      BY <2>11, <3>1 DEF MarkWrite, WriteMark, Anchored, Goto, TypeOK
    <3>3. head.seq \in Nat /\ head.seq >= head.adoptedFrom
      BY <3>1 DEF Admitted, TypeOK, Config
    <3>4. Others /\ \A x \in Live' : x \in Live
      BY <2>11 DEF MarkWrite, WriteMark, Anchored, Goto, Live, InFlight, Holding, TypeOK
    <3>5. Prepared(p)' /\ Vouches(p)
      BY <3>1, <3>2 DEF Vouches, Prepared, Holding, Rewritten, TypeOK
    <3> QED BY <3>1, <3>2, <3>3, <3>4, <3>5, AdmittedWrite
  <2> QED BY <1>1, <2>1, <2>2, <2>3, <2>4, <2>5, <2>6, <2>7, <2>8, <2>9, <2>10, <2>11 DEF Step
<1>2. CASE UNCHANGED vars
  BY <1>2 DEF vars, kube, local, Admitted, Prepared, Holding, Adopted, Said, SaidBefore, Vouches,
     Live, InFlight
<1> QED BY <1>1, <1>2 DEF Next

LEMMA AdmittedStart == Init => Admitted
BY DEF Init, Admitted, Prepared, Holding, Adopted, NoConfig

\* establishAnchor comes before claim, and markAdoptionRecorded after the record: under
\* an adopted anchor, whatever replicas interleave, conflict and crash, no transition is
\* appended past the adopted number before the record that admits the adoption.
THEOREM AdoptionFirst == Spec => []AdoptionSaidFirst
<1> DEFINE I == ChainInv /\ Admitted
<1>1. Init => I
  BY ChainStart, AdmittedStart
<1>2. I /\ [Next]_vars => I'
  BY ChainStep, AdmittedStep DEF ChainInv
<1>3. I => AdoptionSaidFirst
  <2> SUFFICES ASSUME I, head.origin = "adopted", NEW r \in rows,
                      r.kind = "transition", r.seq > head.adoptedFrom
               PROVE  \E s \in rows : /\ s.kind = "adoption"
                                      /\ s.seq > head.adoptedFrom /\ s.seq < r.seq
    BY DEF AdoptionSaidFirst
  <2>1. head.present
    BY DEF ChainInv, Unseeded
  <2> QED BY <2>1 DEF Admitted, Adopted, Live, SaidBefore
<1> HIDE DEF I
<1> QED BY <1>1, <1>2, <1>3, PTL DEF Spec
-----------------------------------------------------------------------------
(* Verification                                                            *)

\* A set of natural numbers that is not empty has a least one.
LEMMA LeastNatural ==
    ASSUME NEW T \in SUBSET Nat, T # {}
    PROVE  \E n \in T : \A m \in T : n <= m
<1> DEFINE R == OpToRel(<, Nat)
<1>1. \A m, n \in Nat : m < n => <<m, n>> \in R
  BY DEF OpToRel
<1>2. IsWellFoundedOn(R, Nat)
  BY NatLessThanWellFounded
<1> HIDE DEF R
<1>3. PICK n \in T : \A m \in T : ~(<<m, n>> \in R)
  BY <1>2, WFMin
<1>4. \A m \in T : ~(m < n)
  BY <1>1, <1>3
<1> QED BY <1>4

\* A run whose every record is numbered after the one before it counts up from the
\* record it follows.
LEMMA RunCounts ==
    ASSUME NEW records \in Seq(Row), NEW prior \in Row,
           \A k \in 1..Len(records) : records[k].seq = Before(records, prior, k).seq + 1
    PROVE  \A k \in 1..Len(records) : records[k].seq = prior.seq + k
<1> DEFINE T == {k \in 1..Len(records) : records[k].seq # prior.seq + k}
<1>1. SUFFICES ASSUME T # {} PROVE FALSE
  OBVIOUS
<1>2. PICK k \in T : \A j \in T : k <= j
  <2>1. T \in SUBSET Nat
    OBVIOUS
  <2> HIDE DEF T
  <2> QED BY <1>1, <2>1, LeastNatural
<1>3. k \in 1..Len(records) /\ Len(records) \in Nat /\ prior.seq \in Nat
  BY DEF Row
<1>4. CASE k = 1
  <2>1. records[k].seq = Before(records, prior, k).seq + 1 /\ Before(records, prior, k) = prior
    BY <1>3, <1>4 DEF Before
  <2> QED BY <1>2, <1>4, <2>1
<1>5. CASE k # 1
  <2>1. k - 1 \in 1..Len(records) /\ ~(k <= k - 1)
    BY <1>3, <1>5
  <2>2. records[k - 1].seq = prior.seq + (k - 1)
    BY <1>2, <2>1
  <2>3. records[k].seq = records[k - 1].seq + 1
    BY <1>3, <1>5 DEF Before
  <2>4. records[k].seq # prior.seq + k
    BY <1>2
  <2>5. k \in Nat /\ prior.seq \in Nat
    BY <1>3
  <2> DEFINE p == prior.seq
             q == records[k - 1].seq
             r == records[k].seq
  <2>6. p \in Nat /\ q = p + (k - 1) /\ r = q + 1 /\ r # p + k
    BY <2>2, <2>3, <2>4, <2>5
  <2> HIDE DEF T, p, q, r
  <2> QED BY <2>5, <2>6
<1> QED BY <1>4, <1>5

\* The numbers of a run that counts up, and how many they are.
LEMMA RunNumbers ==
    ASSUME NEW records \in Seq(Row), NEW base \in Nat,
           \A k \in 1..Len(records) : records[k].seq = base + k
    PROVE  /\ {r.seq : r \in {records[i] : i \in DOMAIN records}} = (base + 1)..(base + Len(records))
           /\ Cardinality((base + 1)..(base + Len(records))) = Len(records)
<1>1. Len(records) \in Nat /\ DOMAIN records = 1..Len(records)
  OBVIOUS
<1> DEFINE seqs == {r.seq : r \in {records[i] : i \in DOMAIN records}}
<1>2. seqs \subseteq (base + 1)..(base + Len(records))
  BY <1>1
<1>3. ASSUME NEW n \in (base + 1)..(base + Len(records)) PROVE n \in seqs
  <2>1. n - base \in 1..Len(records) /\ records[n - base].seq = n
    BY <1>1
  <2> QED BY <1>1, <2>1
<1>4. Cardinality((base + 1)..(base + Len(records))) = Len(records)
  <2> DEFINE m == base + 1
             e == base + Len(records)
  <2>1. m \in Int /\ e \in Int /\ (IF m > e THEN 0 ELSE e - m + 1) = Len(records)
    BY <1>1
  <2> HIDE DEF m, e
  <2>2. Cardinality(m..e) = Len(records)
    BY <2>1, FS_Interval
  <2> QED BY <2>2 DEF m, e
<1> QED BY <1>2, <1>3, <1>4

\* A run in order that holds as many records as an interval has numbers, and all of
\* these, counts up.
LEMMA OrderedRun ==
    ASSUME NEW records \in Seq(Row), NEW base \in Nat, NEW end \in Nat,
           \A i, j \in 1..Len(records) : i < j => records[i].seq <= records[j].seq,
           {r.seq : r \in {records[i] : i \in DOMAIN records}} = (base + 1)..end,
           Len(records) = Cardinality((base + 1)..end)
    PROVE  \A k \in 1..Len(records) : records[k].seq = base + k
<1> DEFINE n == Len(records)
           f == [k \in 1..n |-> records[k].seq]
           S == (base + 1)..end
<1>1. n \in Nat /\ DOMAIN records = 1..n /\ \A k \in 1..n : records[k].seq \in Nat
  <2>1. \A k \in 1..n : records[k] \in Row
    OBVIOUS
  <2> QED BY <2>1 DEF Row
<1>2. IsFiniteSet(1..n) /\ Cardinality(1..n) = n /\ IsFiniteSet(S)
  BY <1>1, FS_Interval
<1>3. \A k \in 1..n : f[k] \in S
  BY <1>1
<1>4. \A s \in S : \E k \in 1..n : f[k] = s
  BY <1>1
<1>5. f \in Surjection(1..n, S)
  BY <1>3, <1>4 DEF Surjection
<1>6. f \in Injection(1..n, S)
  <2>1. Cardinality(1..n) = Cardinality(S)
    BY <1>2
  <2> HIDE DEF f, S, n
  <2> QED BY <1>2, <1>5, <2>1, FS_SurjSameCardinalityImpliesInj
<1>7. \A i, j \in 1..n : i < j => records[i].seq < records[j].seq
  <2> SUFFICES ASSUME NEW i \in 1..n, NEW j \in 1..n, i < j
               PROVE  records[i].seq < records[j].seq
    OBVIOUS
  <2>1. \A a, b \in 1..n : f[a] = f[b] => a = b
    <3> HIDE DEF f, n, S
    <3> QED BY <1>6 DEF Injection, IsInjective
  <2>2. f[i] # f[j]
    BY <1>1, <2>1
  <2> QED BY <1>1, <2>2
<1> DEFINE T == {k \in 1..n : records[k].seq # base + k}
<1>8. SUFFICES ASSUME T # {} PROVE FALSE
  OBVIOUS
<1>9. PICK k \in T : \A j \in T : k <= j
  <2>1. T \in SUBSET Nat
    OBVIOUS
  <2> HIDE DEF T
  <2> QED BY <1>8, <2>1, LeastNatural
<1>10. \A j \in 1..n : j < k => records[j].seq = base + j
  BY <1>1, <1>9
<1>11. records[k].seq > base + k
  <2>1. records[k].seq \in S
    BY <1>1, <1>3
  <2>2. CASE k = 1
    <3>1. records[1].seq \in (base + 1)..end /\ records[1].seq # base + 1
      BY <1>9, <2>1, <2>2
    <3> QED BY <2>2, <3>1
  <2>3. CASE k # 1
    <3>1. k - 1 \in 1..n /\ k - 1 < k
      BY <1>1, <2>3
    <3>2. records[k - 1].seq = base + (k - 1) /\ records[k - 1].seq < records[k].seq
      BY <1>7, <1>10, <3>1
    <3>3. records[k].seq # base + k /\ records[k].seq \in Nat /\ k \in Nat
      BY <1>1, <1>9
    <3> QED BY <3>2, <3>3
  <2> QED BY <2>2, <2>3
<1>12. base + k \in S
  <2>1. records[k].seq \in S
    BY <1>1, <1>3
  <2> QED BY <1>1, <1>11, <2>1
<1>13. PICK j \in 1..n : records[j].seq = base + k
  BY <1>4, <1>12
<1>14. CASE j < k
  BY <1>1, <1>10, <1>13, <1>14
<1>15. CASE j = k
  BY <1>11, <1>13, <1>15, <1>1
<1>16. CASE k < j
  BY <1>1, <1>7, <1>11, <1>13, <1>16
<1> QED BY <1>14, <1>15, <1>16

\* What Verify and AgainstAnchor find nothing to say about.
LEMMA NothingFound ==
    ASSUME NEW records \in Seq(Row), NEW prior \in Row, NEW anchor \in Config
    PROVE  /\ Verify(records, prior) = {} <=>
                 \A k \in 1..Len(records) :
                    /\ records[k].seq = Before(records, prior, k).seq + 1
                    /\ records[k].prev = Before(records, prior, k).hash
           /\ AgainstAnchor(records, anchor, FALSE) = {} <=>
                 anchor.present /\ anchor.seq = To(records)
           /\ \A partial \in BOOLEAN :
                 AgainstAnchor(records, anchor, partial) = {} => anchor.present
<1>1. DOMAIN records = 1..Len(records)
  OBVIOUS
<1>2. anchor.seq \in Nat /\ anchor.present \in BOOLEAN
  BY DEF Config
<1>3. To(records) \in Nat
  <2>1. CASE records = << >>
    BY <2>1 DEF To
  <2>2. CASE records # << >>
    <3>1. Len(records) \in 1..Len(records)
      BY <2>2, EmptySeq
    <3>2. records[Len(records)] \in Row
      BY <3>1, ElementOfSeq
    <3> QED BY <2>2, <3>2 DEF To, Row
  <2> QED BY <2>1, <2>2
<1>4. Verify(records, prior) = {} <=>
         \A k \in 1..Len(records) :
            /\ records[k].seq = Before(records, prior, k).seq + 1
            /\ records[k].prev = Before(records, prior, k).hash
  BY <1>1 DEF Verify
<1>5. AgainstAnchor(records, anchor, FALSE) = {} <=>
         anchor.present /\ anchor.seq = To(records)
  <2>1. CASE ~anchor.present
    BY <2>1 DEF AgainstAnchor
  <2>2. anchor.present /\ anchor.seq > To(records) =>
          AgainstAnchor(records, anchor, FALSE) # {} /\ anchor.seq # To(records)
    BY <1>2, <1>3 DEF AgainstAnchor
  <2>3. anchor.present /\ anchor.seq < To(records) =>
          AgainstAnchor(records, anchor, FALSE) # {} /\ anchor.seq # To(records)
    BY <1>2, <1>3 DEF AgainstAnchor
  <2>4. anchor.present /\ anchor.seq = To(records) =>
          AgainstAnchor(records, anchor, FALSE) = {}
    BY <1>2, <1>3 DEF AgainstAnchor
  <2>5. \/ anchor.seq > To(records) \/ anchor.seq < To(records)
        \/ anchor.seq = To(records)
    BY <1>2, <1>3, SMT
  <2> QED BY <2>1, <2>2, <2>3, <2>4, <2>5, Zenon
<1>6. \A partial \in BOOLEAN :
         AgainstAnchor(records, anchor, partial) = {} => anchor.present
  BY <1>2 DEF AgainstAnchor
<1> QED BY <1>4, <1>5, <1>6

\* A run that has records ends at its last one.
LEMMA RunEnd ==
    ASSUME NEW records \in Seq(Row), records # << >>
    PROVE  Len(records) \in Nat \ {0} /\ To(records) = records[Len(records)].seq
BY EmptySeq DEF To

\* The chain that IntactIffChain compares the verdict with.
ChainTo(records, base, anchor) ==
    LET run == {records[i] : i \in DOMAIN records}
    IN  /\ anchor.present
        /\ {r.seq : r \in run} = (base.seq + 1)..anchor.seq
        /\ Len(records) = Cardinality({r.seq : r \in run})
        /\ \A r \in run : \E s \in run \cup {base} :
               s.seq = r.seq - 1 /\ r.prev = s.hash

\* Verify and AgainstAnchor against that definition, for any run in order.
LEMMA VerdictIsChain ==
    ASSUME NEW records \in Seq(Row), NEW prior \in Row, NEW anchor \in Config,
           records # << >>,
           \A i, j \in 1..Len(records) : i < j => records[i].seq <= records[j].seq
    PROVE  Verify(records, prior) \cup AgainstAnchor(records, anchor, FALSE) = {}
               <=> ChainTo(records, prior, anchor)
<1> DEFINE run == {records[i] : i \in DOMAIN records}
           n == Len(records)
<1>1. /\ n \in Nat \ {0} /\ DOMAIN records = 1..n /\ To(records) = records[n].seq
      /\ prior.seq \in Nat /\ anchor.seq \in Nat
      /\ \A k \in 1..n : records[k].seq \in Nat
  <2>1. \A k \in 1..n : records[k] \in Row
    BY ElementOfSeq
  <2>2. \A r \in Row : r.seq \in Nat
    BY DEF Row
  <2>3. anchor.seq \in Nat
    BY DEF Config
  <2>4. n \in Nat \ {0} /\ DOMAIN records = 1..n /\ To(records) = records[n].seq
    BY RunEnd
  <2> QED BY <2>1, <2>2, <2>3, <2>4
<1>2. ASSUME Verify(records, prior) = {}, AgainstAnchor(records, anchor, FALSE) = {}
      PROVE  ChainTo(records, prior, anchor)
  <2>1. /\ \A k \in 1..n : /\ records[k].seq = Before(records, prior, k).seq + 1
                            /\ records[k].prev = Before(records, prior, k).hash
        /\ anchor.present /\ anchor.seq = To(records)
    BY <1>2, NothingFound
  <2>2. \A k \in 1..n : records[k].seq = prior.seq + k
    BY <2>1, RunCounts
  <2>3. anchor.seq = prior.seq + n
    BY <1>1, <2>1, <2>2
  <2>4. {r.seq : r \in run} = (prior.seq + 1)..anchor.seq
        /\ Len(records) = Cardinality({r.seq : r \in run})
    BY <1>1, <2>2, <2>3, RunNumbers
  <2>5. ASSUME NEW k \in 1..n
        PROVE  \E s \in run \cup {prior} :
                  s.seq = records[k].seq - 1 /\ records[k].prev = s.hash
    <3>1. Before(records, prior, k) \in run \cup {prior}
      BY <1>1 DEF Before
    <3>2. Before(records, prior, k).seq = records[k].seq - 1
      <4>1. CASE k = 1
        BY <1>1, <2>2, <4>1 DEF Before
      <4>2. CASE k # 1
        <5>1. k - 1 \in 1..n /\ k \in Nat /\ Before(records, prior, k) = records[k - 1]
          BY <1>1, <4>2 DEF Before
        <5> DEFINE q == records[k - 1].seq
                   r == records[k].seq
                   p == prior.seq
        <5>2. p \in Nat /\ k \in Nat /\ q = p + (k - 1) /\ r = p + k
          BY <1>1, <2>2, <5>1
        <5> HIDE DEF p, q, r
        <5>3. q = r - 1
          BY <5>2
        <5> QED BY <5>1, <5>3 DEF q, r
      <4> QED BY <4>1, <4>2
    <3>3. records[k].prev = Before(records, prior, k).hash
      BY <2>1
    <3> QED BY <3>1, <3>2, <3>3
  <2>6. \A r \in run : \E s \in run \cup {prior} : s.seq = r.seq - 1 /\ r.prev = s.hash
    BY <1>1, <2>5
  <2> HIDE DEF run, n
  <2>7. /\ anchor.present
        /\ {r.seq : r \in run} = (prior.seq + 1)..anchor.seq
        /\ Len(records) = Cardinality({r.seq : r \in run})
    BY <2>1, <2>4
  <2> QED BY <2>6, <2>7 DEF ChainTo, run
<1>3. ASSUME ChainTo(records, prior, anchor)
      PROVE  Verify(records, prior) = {} /\ AgainstAnchor(records, anchor, FALSE) = {}
  <2>1. /\ anchor.present
        /\ {r.seq : r \in run} = (prior.seq + 1)..anchor.seq
        /\ Len(records) = Cardinality((prior.seq + 1)..anchor.seq)
        /\ \A r \in run : \E s \in run \cup {prior} :
               s.seq = r.seq - 1 /\ r.prev = s.hash
    BY <1>3 DEF ChainTo
  <2>2. \A k \in 1..n : records[k].seq = prior.seq + k
    BY <1>1, <2>1, OrderedRun
  <2>3. anchor.seq = To(records)
    <3>1. records[n].seq = prior.seq + n /\ records[n] \in run
      BY <1>1, <2>2
    <3>2. prior.seq + n <= anchor.seq
      <4>1. prior.seq + n \in (prior.seq + 1)..anchor.seq
        BY <2>1, <3>1
      <4> QED BY <1>1, <4>1
    <3>3. anchor.seq \in (prior.seq + 1)..anchor.seq
      BY <1>1, <3>2
    <3>4. PICK k \in 1..n : records[k].seq = anchor.seq
      BY <1>1, <2>1, <3>3
    <3> QED BY <1>1, <2>2, <3>1, <3>2, <3>4
  <2>4. ASSUME NEW k \in 1..n
        PROVE  /\ records[k].seq = Before(records, prior, k).seq + 1
               /\ records[k].prev = Before(records, prior, k).hash
    <3>1. PICK s \in run \cup {prior} : s.seq = records[k].seq - 1 /\ records[k].prev = s.hash
      BY <1>1, <2>1
    <3>2. s.seq = prior.seq + (k - 1)
      BY <1>1, <2>2, <3>1
    <3>3. s = Before(records, prior, k)
      <4>1. CASE s = prior
        BY <1>1, <3>2, <4>1 DEF Before
      <4>2. ASSUME NEW j \in 1..n, s = records[j] PROVE s = Before(records, prior, k)
        <5>1. j = k - 1
          BY <1>1, <2>2, <3>2, <4>2
        <5> QED BY <4>2, <5>1 DEF Before
      <4> QED BY <1>1, <4>1, <4>2
    <3> QED BY <1>1, <2>2, <3>1, <3>2, <3>3
  <2> QED BY <2>1, <2>3, <2>4, NothingFound
<1> QED BY <1>2, <1>3

\* The table holds finitely many rows, each with a number of its own making.
TableInv ==
    /\ IsFiniteSet(rows) /\ \A r \in rows : r.seq # 0
    /\ \A p \in InFlight : sealed[p].seq # 0

InOrder(records) ==
    \A i, j \in 1..Len(records) : i < j => records[i].seq <= records[j].seq

\* A request holds rows of the table, which no append takes away, in their order,
\* and the verdict on what it read.
WalkInv ==
    /\ walk.at \in {"none", "scan", "anchor"} =>
          walk \in [at : {"none", "scan", "anchor"}, limit : Int, previous : rows \cup {NoRow},
                    records : Seq(rows), anchor : {NoConfig}, findings : {{}},
                    owed : SUBSET Nat, end : Nat]
    /\ walk.at \in {"none", "scan", "anchor", "done"}
    /\ walk.previous \in rows \cup {NoRow}
    /\ walk.records \in Seq(rows) /\ InOrder(walk.records)
    /\ walk.at = "done" =>
          /\ walk.anchor \in Config
          /\ walk.findings = Verdict(walk, walk.anchor)

\* Rows are added to the table by InsertAuditRecord and never taken away.
LEMMA TableStep ==
    ASSUME TypeOK, TableInv, [Next \/ Harm]_vars
    PROVE  TableInv' /\ rows \subseteq rows'
<1>1. CASE UNCHANGED <<rows, sealed, pc>>
  BY <1>1 DEF TableInv, InFlight, Holding
<1>2. ASSUME NEW p \in Replica, rows' = rows \cup {sealed[p]}, pc[p] = "insert",
             sealed' = sealed, \A q \in Replica \ {p} : pc'[q] = pc[q]
      PROVE  TableInv' /\ rows \subseteq rows'
  <2>1. p \in InFlight
    BY <1>2 DEF InFlight, Holding
  <2>2. IsFiniteSet(rows')
    BY <1>2, FS_AddElement DEF TableInv
  <2> QED BY <1>2, <2>1, <2>2 DEF TableInv, InFlight, Holding
<1>3. ASSUME NEW p \in Replica, WriteClaim(p), \A q \in Replica \ {p} : pc'[q] = pc[q]
      PROVE  TableInv' /\ rows \subseteq rows'
  <2>1. /\ rows' = rows /\ \A q \in Replica \ {p} : sealed'[q] = sealed[q]
        /\ sealed'[p].seq = cfg[p].seq + 1
    BY <1>3 DEF WriteClaim, TypeOK, Seal
  <2>2. cfg[p].seq \in Nat
    BY DEF TypeOK, Config
  <2> QED BY <2>1, <2>2, <1>3 DEF TableInv, InFlight, Holding
<1>4. ASSUME NEW p \in Replica, UNCHANGED <<rows, sealed>>,
             \A q \in Replica : Holding(q)' => Holding(q)
      PROVE  TableInv' /\ rows \subseteq rows'
  BY <1>4 DEF TableInv, InFlight
<1>5. ASSUME NEW p \in Replica, Step(p) \/ ReplyLost(p)
      PROVE  TableInv' /\ rows \subseteq rows'
  <2>1. CASE InsertAuditRecord(p) \/ InsertReplyLost(p)
    BY <1>2, <2>1 DEF InsertAuditRecord, InsertReplyLost, Goto, TypeOK
  <2>2. CASE Claim(p) \/ ClaimReplyLost(p)
    BY <1>3, <2>2 DEF Claim, ClaimReplyLost, Goto, TypeOK
  <2>3. CASE \/ \E method \in {"Record", "EnsureAnchor"} : Begin(p, method)
             \/ HeadMissing(p) \/ ReadTableHead(p) \/ CreateExists(p)
             \/ ClaimConflict(p) \/ Refuse(p) \/ InsertFails(p) \/ ReleaseRead(p)
             \/ UnwindConflict(p) \/ MarkRead(p) \/ MarkConflict(p) \/ CallFails(p) \/ Crash(p)
    <3>1. UNCHANGED <<rows, sealed>>
      BY <2>3 DEF Begin, HeadMissing, ReadTableHead, CreateExists, ClaimConflict, Refuse,
         InsertFails, ReleaseRead, UnwindConflict, MarkRead, MarkConflict, CallFails, Crash
    <3>2. /\ \A q \in Replica \ {p} : pc'[q] = pc[q]
          /\ pc'[p] \in {"insert", "release", "unwind"} =>
                pc[p] \in {"insert", "release", "unwind"}
      BY <2>3 DEF Begin, HeadMissing, ReadTableHead, CreateExists, ClaimConflict, Refuse,
         InsertFails, ReleaseRead, UnwindConflict, MarkRead, MarkConflict, CallFails, Crash,
         Goto, TypeOK
    <3> QED BY <1>4, <3>1, <3>2 DEF Holding
  <2>4. CASE ReadHead(p) \/ CreateHead(p) \/ MarkWrite(p)
    <3>1. UNCHANGED <<rows, sealed>>
      BY <2>4 DEF ReadHead, CreateHead, WriteNewHead, MarkWrite, WriteMark
    <3>2. /\ \A q \in Replica \ {p} : pc'[q] = pc[q]
          /\ pc'[p] \notin {"insert", "release", "unwind"}
      BY <2>4 DEF ReadHead, CreateHead, MarkWrite, Proceed, Anchored, Goto, TypeOK
    <3> QED BY <1>4, <3>1, <3>2 DEF Holding
  <2>5. CASE Unwind(p) \/ CreateReplyLost(p) \/ UnwindReplyLost(p) \/ MarkReplyLost(p)
    <3>1. UNCHANGED <<rows, sealed>>
      BY <2>5 DEF Unwind, WriteUnwind, CreateReplyLost, WriteNewHead, UnwindReplyLost,
         MarkReplyLost, WriteMark
    <3>2. /\ \A q \in Replica \ {p} : pc'[q] = pc[q]
          /\ pc'[p] = "idle"
      BY <2>5 DEF Unwind, WriteUnwind, CreateReplyLost, UnwindReplyLost, MarkReplyLost, Goto,
         TypeOK
    <3> QED BY <1>4, <3>1, <3>2 DEF Holding
  <2> QED BY <1>5, <2>1, <2>2, <2>3, <2>4, <2>5 DEF Step, ReplyLost
<1>6. CASE DeleteHead \/ UNCHANGED vars
  BY <1>1, <1>6 DEF DeleteHead, vars
<1> QED BY <1>5, <1>6 DEF Next, Harm

\* Every step of a verification next to the appenders is one of theirs, or one of its own.
LEMMA VerifyStep ==
    ASSUME [VerifyNext]_allVars
    PROVE  /\ [Next \/ Harm]_vars
           /\ harmed' = TRUE \/ (harmed' = harmed /\ [Next]_vars)
           /\ \/ UNCHANGED walk
              \/ UNCHANGED vars /\ (\/ \E limit \in Limits : VerifyBegin(limit)
                                   \/ VerifyScan \/ VerifyAnchor)
BY DEF VerifyNext, Harmed, allVars, Harm, ReplyLost, VerifyBegin, VerifyScan, VerifyAnchor

\* A page is a sequence of rows, in the order of their numbers.
LEMMA PageInOrder ==
    ASSUME IsFiniteSet(rows), NEW from, NEW limit \in Int, NEW page \in Pages(from, limit),
           \A r \in rows : r.seq \in Nat
    PROVE  page \in Seq(rows) /\ InOrder(page)
<1> DEFINE later == {r \in rows : r.seq >= from}
           size  == IF Cardinality(later) < Clamped(limit)
                    THEN Cardinality(later) ELSE Clamped(limit)
<1>1. IsFiniteSet(later)
  BY FS_Subset
<1>2. Cardinality(later) \in Nat
  BY <1>1, FS_CardinalityType
<1>3. Clamped(limit) \in Nat
  BY VerifyAssumption DEF Clamped
<1>4. size \in Nat
  BY <1>2, <1>3
<1>5. /\ page \in [1..size -> later]
      /\ \A i, j \in 1..size : i < j => page[i].seq <= page[j].seq
  BY DEF Pages
<1> HIDE DEF size
<1>6. page \in Seq(later)
  BY <1>4, <1>5
<1>7. Len(page) = size
  BY <1>4, <1>5, <1>6
<1>8. page \in Seq(rows)
  BY <1>6, SeqMonotonic
<1> QED BY <1>5, <1>7, <1>8 DEF InOrder

\* Rows that come beside a request leave what it read as it was.
LEMMA WalkKept ==
    ASSUME WalkInv, UNCHANGED walk, rows \subseteq rows'
    PROVE  WalkInv'
<1>1. walk.records \in Seq(rows')
  BY SeqMonotonic DEF WalkInv
<1>2. walk.at \in {"none", "scan", "anchor"} =>
         walk \in [at : {"none", "scan", "anchor"}, limit : Int, previous : rows' \cup {NoRow},
                   records : Seq(rows'), anchor : {NoConfig}, findings : {{}},
                   owed : SUBSET Nat, end : Nat]
  <2> SUFFICES ASSUME walk.at \in {"none", "scan", "anchor"}
               PROVE  walk \in [at : {"none", "scan", "anchor"}, limit : Int,
                                previous : rows' \cup {NoRow}, records : Seq(rows'),
                                anchor : {NoConfig}, findings : {{}},
                                owed : SUBSET Nat, end : Nat]
    OBVIOUS
  <2>1. walk \in [at : {"none", "scan", "anchor"}, limit : Int, previous : rows \cup {NoRow},
                  records : Seq(rows), anchor : {NoConfig}, findings : {{}},
                  owed : SUBSET Nat, end : Nat]
    BY DEF WalkInv
  <2> QED BY <1>1, <2>1
<1> QED BY <1>1, <1>2 DEF WalkInv

\* The three reads of a request.
LEMMA WalkReads ==
    ASSUME TypeOK, TableInv, WalkInv, UNCHANGED vars,
           \/ \E limit \in Limits : VerifyBegin(limit)
           \/ VerifyScan \/ VerifyAnchor
    PROVE  WalkInv'
<1> DEFINE Asking == [at : {"none", "scan", "anchor"}, limit : Int,
                      previous : rows \cup {NoRow}, records : Seq(rows),
                      anchor : {NoConfig}, findings : {{}},
                      owed : SUBSET Nat, end : Nat]
<1>1. rows' = rows /\ << >> \in Seq(rows) /\ InOrder(<< >>)
  BY EmptySeq DEF vars, InOrder
<1>2. \A r \in rows : r.seq \in Nat
  BY DEF TypeOK, Row
<1>3. ASSUME NEW limit \in Limits, VerifyBegin(limit) PROVE WalkInv'
  <2>1. PICK r \in rows \cup {NoRow} :
           walk' = [NoWalk EXCEPT !.at = "scan", !.limit = limit, !.previous = r]
    BY <1>3 DEF VerifyBegin
  <2>2. limit \in Int
    BY VerifyAssumption
  <2>3. /\ walk' \in Asking /\ walk'.at = "scan" /\ walk'.previous = r
        /\ walk'.records = << >>
    BY <1>1, <2>1, <2>2 DEF NoWalk
  <2> QED BY <1>1, <2>3 DEF WalkInv
<1>4. CASE VerifyScan
  <2>1. PICK page \in Pages(walk.previous.seq + 1, walk.limit) :
           walk' = [walk EXCEPT !.at = "anchor", !.records = page,
                                !.owed = Owed, !.end = head.seq]
    BY <1>4 DEF VerifyScan
  <2>2. /\ walk \in Asking /\ Owed \in SUBSET Nat /\ head.seq \in Nat
    <3>1. walk \in Asking
      BY <1>4 DEF VerifyScan, WalkInv
    <3>2. \A p \in InFlight : sealed[p].seq \in Nat
      BY DEF TypeOK, InFlight, Row
    <3>5. \A n \in Owed : n \in Nat
      BY <3>2 DEF Owed, TypeOK
    <3>3. Owed \in SUBSET Nat
      <4> HIDE DEF Owed
      <4> QED BY <3>5
    <3>4. head.seq \in Nat
      BY DEF TypeOK, Config
    <3> QED BY <3>1, <3>3, <3>4
  <2>3. page \in Seq(rows) /\ InOrder(page)
    BY <1>2, <2>2, PageInOrder DEF TableInv
  <2>4. /\ walk' \in Asking /\ walk'.at = "anchor" /\ walk'.previous = walk.previous
        /\ walk'.records = page
    BY <2>1, <2>2, <2>3
  <2> QED BY <1>1, <2>3, <2>4 DEF WalkInv
<1>5. CASE VerifyAnchor
  <2>1. walk.at = "anchor" /\ walk \in Asking
    BY <1>5 DEF VerifyAnchor, WalkInv
  <2>2. walk' = [walk EXCEPT !.at = "done", !.anchor = head, !.findings = Verdict(walk, head)]
    BY <1>5 DEF VerifyAnchor
  <2>3. /\ walk'.at = "done" /\ walk'.previous = walk.previous /\ walk'.records = walk.records
        /\ walk'.anchor = head /\ walk'.limit = walk.limit
        /\ walk'.findings = Verdict(walk, head)
    BY <2>1, <2>2
  <2>4. Verdict(walk, head)' = Verdict(walk', head')
    BY DEF Verdict
  <2>6. head' = head /\ Verdict(walk', head) = Verdict(walk, head)
    BY <2>3 DEF Verdict, Partial, vars, kube
  <2>5. head \in Config
    BY DEF TypeOK
  <2> QED BY <1>1, <2>1, <2>3, <2>4, <2>5, <2>6 DEF WalkInv
<1> QED BY <1>3, <1>4, <1>5

LEMMA WalkStep ==
    ASSUME TypeOK, TableInv, WalkInv, [VerifyNext]_allVars
    PROVE  TypeOK' /\ TableInv' /\ WalkInv'
<1>1. TypeOK' /\ TableInv' /\ rows \subseteq rows'
  BY VerifyStep, TypeStep, TableStep
<1>2. WalkInv'
  BY <1>1, VerifyStep, WalkKept, WalkReads
<1> QED BY <1>1, <1>2

LEMMA WalkStart == VerifyInit => TypeOK /\ TableInv /\ WalkInv
<1> SUFFICES ASSUME VerifyInit PROVE TypeOK /\ TableInv /\ WalkInv
  OBVIOUS
<1>1. TypeOK
  <2>1. minted \in Nat
    BY ChainAssumption DEF VerifyInit, Init
  <2> QED BY <2>1, LegacyRows, ZeroTypes DEF VerifyInit, Init, TypeOK, GenesisHash
<1>2. TableInv
  <2>1. minted \in Nat /\ rows = Legacy(minted) /\ InFlight = {}
    BY ChainAssumption DEF VerifyInit, Init, InFlight, Holding
  <2> DEFINE f == [n \in 1..minted |-> [seq |-> n, prev |-> n - 1, hash |-> n, kind |-> "legacy"]]
  <2>2. f \in Surjection(1..minted, rows)
    BY <2>1 DEF Legacy, Surjection
  <2>3. IsFiniteSet(1..minted)
    BY <2>1, FS_Interval
  <2> HIDE DEF f
  <2>4. IsFiniteSet(rows)
    BY <2>2, <2>3, FS_Surjection
  <2>5. \A r \in rows : r.seq # 0
    BY <2>1 DEF Legacy
  <2> QED BY <2>1, <2>4, <2>5 DEF TableInv
<1>3. WalkInv
  <2>1. << >> \in Seq(rows) /\ InOrder(<< >>)
    BY EmptySeq DEF InOrder
  <2> QED BY <2>1 DEF VerifyInit, NoWalk, WalkInv
<1> QED BY <1>1, <1>2, <1>3

\* Verify's and AgainstAnchor's verdict on a run read to the end of the store says that
\* the run is a chain, each number once, from the record it follows to the anchor: for
\* every log that replicas, lost replies and a deleted head leave behind.
THEOREM VerdictIffChain == VerifySpec => []IntactIffChain
<1>1. TypeOK /\ TableInv /\ WalkInv => IntactIffChain
  <2> SUFFICES ASSUME TypeOK, WalkInv, walk.at = "done", walk.records # << >>, ~Partial(walk)
               PROVE  Intact <=> ChainTo(walk.records, walk.previous, walk.anchor)
    BY DEF IntactIffChain, ChainTo
  <2>1. /\ walk.records \in Seq(Row) /\ walk.previous \in Row /\ walk.anchor \in Config
    BY SeqMonotonic, ZeroTypes DEF WalkInv, TypeOK
  <2>2. walk.findings = Verify(walk.records, walk.previous) \cup
                        AgainstAnchor(walk.records, walk.anchor, FALSE)
    <3>1. Partial(walk) = FALSE
      BY DEF Partial
    <3> QED BY <3>1 DEF WalkInv, Verdict
  <2>3. \A i, j \in 1..Len(walk.records) :
           i < j => walk.records[i].seq <= walk.records[j].seq
    BY DEF WalkInv, InOrder
  <2> QED BY <2>1, <2>2, <2>3, VerdictIsChain DEF Intact
<1> QED BY <1>1, WalkStart, WalkStep, PTL DEF VerifySpec

-----------------------------------------------------------------------------
(* What a verification of a sound log finds                                *)

\* What holds of the log as long as every call that reports an error had no effect
\* and nobody deletes the head.
SoundLog == ChainInv /\ Upgraded /\ Numbers!Accounted

LEMMA SoundStart == Init => SoundLog
<1>1. Numbers!Init => Numbers!Accounted
  BY DEF Numbers!Init, Numbers!Accounted
<1> QED BY <1>1, ChainStart, StartNumbers DEF SoundLog

LEMMA SoundStep == SoundLog /\ [Next]_vars => SoundLog'
<1>1. ChainInv /\ Upgraded /\ [Next]_vars => [Numbers!Next]_(Numbers!log)
  BY StepNumbers
<1>2. Numbers!Accounted /\ [Numbers!Next]_(Numbers!log) => Numbers!Accounted'
  BY AccountedKept
<1>3. ChainInv /\ [Next]_vars => ChainInv'
  BY ChainStep
<1>4. ChainInv /\ Upgraded /\ [Next]_vars => Upgraded'
  BY UpgradedStep
<1> QED BY <1>1, <1>2, <1>3, <1>4 DEF SoundLog

\* A number with no row, up to the head or below some row, is owed.
LEMMA RowlessIsOwed ==
    ASSUME TypeOK, SoundLog, NEW n \in Nat \ {0}, \A r \in rows : r.seq # n,
           n <= head.seq \/ \E r \in rows : n < r.seq
    PROVE  n \in Owed
<1>1. NoUnexplainedGap
  BY GapOwed DEF SoundLog
<1>2. head.seq \in Nat /\ \A r \in rows : r.seq \in Nat
  BY DEF TypeOK, Config, Row
<1>3. n \in 1..head.seq
  <2>1. CASE n <= head.seq
    BY <1>2, <2>1
  <2>2. CASE head.present /\ \E r \in rows : n < r.seq
    BY <1>2, <2>2 DEF SoundLog, ChainInv, Placed, Live
  <2>3. CASE ~head.present /\ \E r \in rows : n < r.seq
    <3>1. rows = Legacy(minted) /\ minted \in Nat
      BY <2>3 DEF SoundLog, Upgraded, TypeOK
    <3>2. PICK r \in rows : n < r.seq
      BY <2>3
    <3>3. n \in 1..minted
      BY <1>2, <3>1, <3>2 DEF Legacy
    <3>4. \E x \in rows : x.seq = n
      <4> DEFINE x == [seq |-> n, prev |-> n - 1, hash |-> n, kind |-> "legacy"]
      <4>1. x \in rows /\ x.seq = n
        BY <3>1, <3>3 DEF Legacy
      <4> QED BY <4>1
    <3> QED BY <3>4
  <2> QED BY <2>1, <2>2, <2>3
<1> QED BY <1>1, <1>3 DEF NoUnexplainedGap, Owed

\* A page leaves out no row below its end, and none at all if the store had no more.
LEMMA PageHolds ==
    ASSUME IsFiniteSet(rows), UniqueSequence, \A r \in rows : r.seq \in Nat,
           NEW from \in Nat, NEW limit \in Int, NEW page \in Pages(from, limit)
    PROVE  /\ page \in Seq(rows)
           /\ \A k \in 1..Len(page) : page[k] \in rows /\ page[k].seq >= from
           /\ \A i, j \in 1..Len(page) : i < j => page[i].seq < page[j].seq
           /\ \A r \in rows : r.seq >= from =>
                 \/ \E i \in 1..Len(page) : page[i] = r
                 \/ \A i \in 1..Len(page) : page[i].seq < r.seq
           /\ Len(page) < limit /\ limit <= MaxAuditLimit =>
                 \A r \in rows : r.seq >= from => \E i \in 1..Len(page) : page[i] = r
<1> DEFINE later == {r \in rows : r.seq >= from}
           size  == IF Cardinality(later) < Clamped(limit)
                    THEN Cardinality(later) ELSE Clamped(limit)
<1>1. IsFiniteSet(later)
  BY FS_Subset
<1>2. Cardinality(later) \in Nat
  BY <1>1, FS_CardinalityType
<1>3. Clamped(limit) \in Nat
  BY VerifyAssumption DEF Clamped
<1>4. size \in Nat
  BY <1>2, <1>3
<1>5. /\ page \in [1..size -> later]
      /\ \A i, j \in 1..size : i < j => page[i] # page[j] /\ page[i].seq <= page[j].seq
      /\ \A r \in later : \/ \E i \in 1..size : page[i] = r
                          \/ \A i \in 1..size : page[i].seq <= r.seq
  BY DEF Pages
<1>6. Len(page) < limit /\ limit <= MaxAuditLimit => size = Cardinality(later)
  <2>1. page \in [1..size -> later] => Len(page) = size
    BY <1>4
  <2> QED BY <1>2, <1>5, <2>1, VerifyAssumption DEF Clamped
<1>10. size = Cardinality(later) => \A r \in later : \E i \in 1..size : page[i] = r
  <2> SUFFICES ASSUME size = Cardinality(later)
               PROVE  \A r \in later : \E i \in 1..size : page[i] = r
    OBVIOUS
  <2> HIDE DEF size
  <2>1. page \in Injection(1..size, later)
    BY <1>4, <1>5 DEF Injection, IsInjective
  <2>2. /\ IsFiniteSet(1..size) /\ Cardinality(1..size) = size
        /\ Cardinality(1..size) = Cardinality(later)
    BY <1>4, FS_Interval
  <2> HIDE DEF later
  <2>4. page \in Surjection(1..size, later)
    BY ONLY <1>1, <2>1, <2>2, FS_Injection
  <2> QED BY <2>4 DEF Surjection
<1> HIDE DEF size
<1>7. page \in Seq(later) /\ Len(page) = size
  BY <1>4, <1>5
<1>8. page \in Seq(rows)
  BY <1>7, SeqMonotonic
<1>9. \A i \in 1..size : page[i] \in rows /\ page[i].seq >= from
  BY <1>5
<1>11. \A i, j \in 1..size : i < j => page[i].seq < page[j].seq
  BY <1>5, <1>9 DEF UniqueSequence
<1>12. \A r \in rows : r.seq >= from =>
          \/ \E i \in 1..size : page[i] = r
          \/ \A i \in 1..size : page[i].seq < r.seq
  BY <1>5, <1>9 DEF UniqueSequence
<1> QED BY <1>6, <1>7, <1>8, <1>9, <1>10, <1>11, <1>12

\* What a page read from a sound log says: every number it passes over was owed, no
\* link is broken but next to one, and, once the page is known to be the last, every
\* later number up to the head of then was owed as well.
PageSound(w) ==
    \A k \in 1..Len(w.records) :
        LET before == Before(w.records, w.previous, k)  x == w.records[k]
        IN  /\ before.seq < x.seq
            /\ \A n \in Nat : before.seq < n /\ n < x.seq => n \in w.owed
            /\ x.seq = before.seq + 1 => x.prev = before.hash

TailSound(w) ==
    /\ w.end \in Nat
    /\ ~Partial(w) /\ w.limit <= MaxAuditLimit =>
           \A n \in Nat : (w.previous.seq < n /\ To(w.records) < n /\ n <= w.end) => n \in w.owed

\* What the anchor read after it says of the page.
AnchorSound(w) ==
    /\ w.anchor.present => \A k \in 1..Len(w.records) : w.records[k].seq <= w.anchor.seq
    /\ ~w.anchor.present => \A k \in 1..Len(w.records) : w.records[k].kind = "legacy"

WalkSound ==
    /\ walk.at \in {"anchor", "done"} => PageSound(walk) /\ TailSound(walk)
    /\ walk.at = "done" => AnchorSound(walk)

\* The record a page follows is in the table, or there is none before the page.
LEMMA ScanSound ==
    ASSUME TypeOK, TableInv, WalkInv, HashesName, SoundLog, VerifyScan
    PROVE  PageSound(walk') /\ TailSound(walk')
<1> DEFINE prior == walk.previous
           from  == prior.seq + 1
<1>1. PICK page \in Pages(from, walk.limit) :
         walk' = [walk EXCEPT !.at = "anchor", !.records = page,
                              !.owed = Owed, !.end = head.seq]
  BY DEF VerifyScan
<1>2. /\ walk.limit \in Int /\ prior \in rows \cup {NoRow}
      /\ walk'.limit = walk.limit /\ walk'.previous = prior /\ walk'.records = page
      /\ walk'.owed = Owed /\ walk'.end = head.seq
  <2>1. walk \in [at : {"none", "scan", "anchor"}, limit : Int, previous : rows \cup {NoRow},
                  records : Seq(rows), anchor : {NoConfig}, findings : {{}},
                  owed : SUBSET Nat, end : Nat]
    BY DEF VerifyScan, WalkInv
  <2> QED BY <1>1, <2>1
<1>3. /\ \A r \in rows : r.seq \in Nat /\ r.seq # 0 /\ r.hash \in Nat /\ r.prev \in Nat
      /\ prior.seq \in Nat /\ head.seq \in Nat
  BY <1>2, ZeroTypes DEF TypeOK, TableInv, Row, Config
<1>4. IsFiniteSet(rows) /\ UniqueSequence /\ from \in Nat
  BY <1>3 DEF TableInv, SoundLog, ChainInv
<1> HIDE DEF from, prior
<1>5. /\ page \in Seq(rows)
      /\ \A k \in 1..Len(page) : page[k] \in rows /\ page[k].seq >= from
      /\ \A i, j \in 1..Len(page) : i < j => page[i].seq < page[j].seq
      /\ \A r \in rows : r.seq >= from =>
            \/ \E i \in 1..Len(page) : page[i] = r
            \/ \A i \in 1..Len(page) : page[i].seq < r.seq
      /\ Len(page) < walk.limit /\ walk.limit <= MaxAuditLimit =>
            \A r \in rows : r.seq >= from => \E i \in 1..Len(page) : page[i] = r
  BY <1>2, <1>3, <1>4, PageHolds
<1>6. Len(page) \in Nat
  BY <1>5
<1>7. ASSUME NEW x \in rows, x.seq = prior.seq + 1 PROVE x.prev = prior.hash
  <2>1. CASE prior \in rows
    BY <1>7, <2>1 DEF SoundLog, ChainInv, LiveLinked, Live
  <2>2. CASE prior = NoRow
    <3>1. <<x.seq - 1, x.prev>> \in Ends
      BY DEF Ends, Live
    <3>2. x.seq - 1 = 0
      BY <1>3, <1>7, <2>2 DEF NoRow
    <3> QED BY <2>2, <3>1, <3>2 DEF HashesName, NoRow
  <2> QED BY <1>2, <2>1, <2>2
<1>8. ASSUME NEW k \in 1..Len(page)
      PROVE  LET before == Before(page, prior, k)  x == page[k]
             IN  /\ before.seq < x.seq
                 /\ \A n \in Nat : before.seq < n /\ n < x.seq => n \in Owed
                 /\ x.seq = before.seq + 1 => x.prev = before.hash
  <2> DEFINE before == Before(page, prior, k)
             x == page[k]
  <2>1. x \in rows /\ x.seq \in Nat
    BY <1>3, <1>5
  <2>2. /\ before.seq \in Nat /\ prior.seq <= before.seq /\ before.seq < x.seq
        /\ k = 1 => before = prior
        /\ k # 1 => before = page[k - 1] /\ k - 1 \in 1..Len(page) /\ before \in rows
    <3>1. CASE k = 1
      BY <1>3, <1>5, <2>1, <3>1 DEF Before, from
    <3>2. CASE k # 1
      <4>1. k - 1 \in 1..Len(page) /\ k - 1 < k /\ before = page[k - 1]
        BY <1>6, <3>2 DEF Before
      <4> QED BY <1>3, <1>5, <2>1, <3>2, <4>1 DEF from
    <3> QED BY <3>1, <3>2
  <2>3. ASSUME NEW n \in Nat, before.seq < n, n < x.seq PROVE n \in Owed
    <3>1. ASSUME NEW r \in rows, r.seq = n PROVE FALSE
      <4>1. r.seq >= from
        BY <1>3, <2>2, <2>3, <3>1 DEF from
      <4>2. PICK i \in 1..Len(page) : page[i] = r
        BY <1>5, <2>1, <2>3, <3>1, <4>1
      <4>3. i < k
        <5>1. ~(k < i) /\ k # i
          BY <1>5, <2>1, <2>3, <3>1, <4>2
        <5> QED BY <1>6, <5>1
      <4>4. k # 1 /\ i <= k - 1
        BY <1>6, <4>3
      <4>5. page[i].seq <= before.seq
        <5>1. before = page[k - 1] /\ k - 1 \in 1..Len(page) /\ before.seq \in Nat
          BY <2>2, <4>4
        <5>2. CASE i = k - 1
          BY <5>1, <5>2
        <5>3. CASE i < k - 1
          <6>1. page[i].seq < page[k - 1].seq
            BY <1>5, <5>1, <5>3
          <6>2. page[i].seq \in Nat
            BY <1>3, <1>5
          <6> QED BY <5>1, <6>1, <6>2
        <5> QED BY <1>6, <4>4, <5>2, <5>3
      <4> QED BY <1>3, <2>2, <2>3, <3>1, <4>2, <4>5
    <3>2. n # 0
      BY <2>2, <2>3
    <3> QED BY <2>1, <2>3, <3>1, <3>2, RowlessIsOwed
  <2>4. x.seq = before.seq + 1 => x.prev = before.hash
    BY <1>7, <2>1, <2>2 DEF SoundLog, ChainInv, LiveLinked, Live
  <2> QED BY <2>2, <2>3, <2>4
<1>9. PageSound(walk')
  BY <1>2, <1>8 DEF PageSound
<1>10. TailSound(walk')
  <2> SUFFICES ASSUME ~Partial(walk'), walk.limit <= MaxAuditLimit, NEW n \in Nat,
                      prior.seq < n, To(page) < n, n <= head.seq
               PROVE  n \in Owed
    BY <1>2, <1>3 DEF TailSound
  <2>1. Len(page) < walk.limit
    BY <1>2, <1>6 DEF Partial
  <2>2. ASSUME NEW r \in rows, r.seq = n PROVE FALSE
    <3>1. r.seq >= from
      BY <1>3, <2>2 DEF from
    <3>2. PICK i \in 1..Len(page) : page[i] = r
      BY <1>5, <2>1, <3>1
    <3>3. page # << >> /\ To(page) = page[Len(page)].seq
      BY <1>6, <3>2 DEF To
    <3>4. page[i].seq <= page[Len(page)].seq
      BY <1>3, <1>5, <1>6, <3>2
    <3> QED BY <1>3, <1>5, <2>2, <3>2, <3>3, <3>4
  <2>3. n # 0
    BY <1>3
  <2> QED BY <2>2, <2>3, RowlessIsOwed
<1> QED BY <1>9, <1>10

\* The anchor is at or past every row, and is missing only while all are older than it.
LEMMA AnchorReadSound ==
    ASSUME TypeOK, WalkInv, SoundLog, VerifyAnchor
    PROVE  AnchorSound(walk')
<1>1. walk'.anchor = head /\ walk'.records = walk.records /\ walk.records \in Seq(rows)
  <2>1. walk \in [at : {"none", "scan", "anchor"}, limit : Int, previous : rows \cup {NoRow},
                  records : Seq(rows), anchor : {NoConfig}, findings : {{}},
                  owed : SUBSET Nat, end : Nat]
    BY DEF VerifyAnchor, WalkInv
  <2> QED BY <2>1 DEF VerifyAnchor
<1>2. \A k \in 1..Len(walk.records) : walk.records[k] \in rows
  BY <1>1
<1> QED BY <1>1, <1>2 DEF AnchorSound, SoundLog, ChainInv, Placed, Unseeded, Live

\* What the verdict finds in such a page is explained.
LEMMA VerdictExplained ==
    ASSUME TypeOK, WalkInv, WalkSound, walk.at = "done", walk.limit <= MaxAuditLimit,
           walk.records # << >> \/ walk.previous = NoRow,
           NEW f \in walk.findings
    PROVE  Explained(f)
<1> DEFINE recs == walk.records
           B(k) == Before(recs, walk.previous, k)
<1>1. /\ walk.findings = Verify(recs, walk.previous)
                         \cup AgainstAnchor(recs, walk.anchor, Partial(walk))
      /\ recs \in Seq(Row) /\ walk.previous \in Row /\ walk.anchor \in Config
      /\ PageSound(walk) /\ TailSound(walk) /\ AnchorSound(walk)
  BY SeqMonotonic, ZeroTypes DEF WalkInv, WalkSound, TypeOK, Verdict
<1>2. Len(recs) \in Nat /\ DOMAIN recs = 1..Len(recs)
  BY <1>1
<1>3. \A k \in 1..Len(recs) : recs[k].seq \in Nat /\ B(k).seq \in Nat
  <2> SUFFICES ASSUME NEW k \in 1..Len(recs) PROVE recs[k].seq \in Nat /\ B(k).seq \in Nat
    OBVIOUS
  <2>1. recs[k] \in Row /\ B(k) \in Row
    BY <1>1, <1>2 DEF Before
  <2> QED BY <2>1 DEF Row
<1>4. ASSUME NEW k \in 1..Len(recs), recs[k].seq # B(k).seq + 1,
             f = Finding(B(k).seq + 1, "missing")
      PROVE  Explained(f)
  <2>1. B(k).seq < recs[k].seq
    BY <1>1 DEF PageSound
  <2>2. B(k).seq + 1 \in Nat /\ B(k).seq < B(k).seq + 1 /\ B(k).seq + 1 < recs[k].seq
    BY <1>3, <1>4, <2>1
  <2>3. B(k).seq + 1 \in walk.owed
    BY <1>1, <2>2 DEF PageSound
  <2> QED BY <1>4, <2>3 DEF Explained, Finding
<1>5. ASSUME NEW k \in 1..Len(recs), recs[k].prev # B(k).hash,
             f = Finding(recs[k].seq, "unlinked")
      PROVE  Explained(f)
  <2>1. B(k).seq < recs[k].seq /\ recs[k].seq # B(k).seq + 1
    BY <1>1, <1>5 DEF PageSound
  <2>2. recs[k].seq - 1 \in Nat /\ B(k).seq < recs[k].seq - 1 /\ recs[k].seq - 1 < recs[k].seq
    BY <1>3, <2>1
  <2>3. recs[k].seq - 1 \in walk.owed
    BY <1>1, <2>2 DEF PageSound
  <2> QED BY <1>5, <2>3 DEF Explained, Finding
<1>6. /\ To(recs) \in Nat
      /\ recs # << >> => Len(recs) \in 1..Len(recs) /\ To(recs) = recs[Len(recs)].seq
      /\ recs = << >> => To(recs) = 0
  BY <1>1, <1>2, <1>3 DEF To
<1>7. walk.previous.seq \in Nat /\ walk.previous.seq <= To(recs)
  <2>1. walk.previous.seq \in Nat
    BY <1>1 DEF Row
  <2>2. CASE recs = << >>
    BY <1>6, <2>2, <2>1 DEF NoRow
  <2>3. CASE recs # << >>
    <3>1. 1 \in 1..Len(recs) /\ walk.previous.seq < recs[1].seq
      BY <1>1, <1>2, <1>6, <2>3 DEF PageSound, Before
    <3>2. recs[1].seq <= recs[Len(recs)].seq
      BY <1>2, <1>3, <1>6, <2>3, <3>1 DEF WalkInv, InOrder
    <3> QED BY <1>3, <1>6, <2>1, <2>3, <3>1, <3>2
  <2> QED BY <2>2, <2>3
<1>8. ASSUME walk.anchor.present, ~Partial(walk), walk.anchor.seq > To(recs),
             f = Finding(To(recs) + 1, "truncated")
      PROVE  Explained(f)
  <2>1. CASE To(recs) + 1 <= walk.end
    <3>1. To(recs) + 1 \in walk.owed
      BY <1>1, <1>6, <1>7, <1>8, <2>1 DEF TailSound
    <3> QED BY <1>8, <3>1 DEF Explained, Finding
  <2>2. CASE To(recs) + 1 > walk.end
    BY <1>8, <2>2 DEF Explained, Finding
  <2>3. walk.end \in Nat
    BY <1>1 DEF TailSound
  <2> QED BY <1>6, <2>1, <2>2, <2>3
<1>9. ASSUME walk.anchor.present, walk.anchor.seq < To(recs) PROVE FALSE
  <2>1. walk.anchor.seq \in Nat
    BY <1>1 DEF Config
  <2>2. recs # << >>
    BY <1>6, <1>9, <2>1
  <2> QED BY <1>1, <1>6, <1>9, <2>1, <2>2 DEF AnchorSound
<1>10. ASSUME ~walk.anchor.present, f = Finding(To(recs), "unanchored")
       PROVE  Explained(f)
  BY <1>1, <1>2, <1>10 DEF Explained, Finding, AnchorSound
<1>11. CASE f \in Verify(recs, walk.previous)
  BY <1>2, <1>4, <1>5, <1>11 DEF Verify
<1>12. CASE f \in AgainstAnchor(recs, walk.anchor, Partial(walk))
  BY <1>8, <1>9, <1>10, <1>12 DEF AgainstAnchor
<1> QED BY <1>1, <1>11, <1>12

\* Verify's and AgainstAnchor's findings on a log no reply was lost on and no head
\* deleted from are all accounted for: by a number some append still held or had lost
\* when the run was read, or by one claimed before the anchor was.
THEOREM FindingsHold == VerifySpec => []FindingsExplained
<1> DEFINE I == /\ TypeOK /\ TableInv /\ WalkInv /\ HashesName
                /\ harmed \in BOOLEAN
                /\ harmed = FALSE => SoundLog /\ WalkSound
<1>1. VerifyInit => I
  <2>1. VerifyInit => WalkSound
    BY DEF VerifyInit, NoWalk, WalkSound
  <2>2. VerifyInit => Init /\ harmed = FALSE
    BY DEF VerifyInit
  <2> QED BY <2>1, <2>2, WalkStart, EndsStart, SoundStart
<1>2. I /\ [VerifyNext]_allVars => I'
  <2> SUFFICES ASSUME I, [VerifyNext]_allVars PROVE I'
    OBVIOUS
  <2>1. TypeOK' /\ TableInv' /\ WalkInv'
    BY WalkStep
  <2>2. HashesName'
    BY VerifyStep, EndsStep
  <2>3. CASE harmed' = TRUE
    BY <2>1, <2>2, <2>3
  <2>4. CASE harmed' = harmed /\ [Next]_vars
    <3> SUFFICES ASSUME harmed = FALSE PROVE SoundLog' /\ WalkSound'
      BY <2>1, <2>2, <2>4
    <3>1. SoundLog /\ WalkSound /\ SoundLog'
      BY <2>4, SoundStep
    <3>2. CASE UNCHANGED walk
      BY <3>1, <3>2 DEF WalkSound, PageSound, TailSound, AnchorSound, Partial
    <3>3. CASE \E limit \in Limits : VerifyBegin(limit)
      BY <3>1, <3>3 DEF VerifyBegin, NoWalk, WalkSound
    <3>4. CASE VerifyScan
      <4>1. walk'.at = "anchor"
        <5>1. walk \in [at : {"none", "scan", "anchor"}, limit : Int,
                        previous : rows \cup {NoRow}, records : Seq(rows),
                        anchor : {NoConfig}, findings : {{}}, owed : SUBSET Nat, end : Nat]
          BY <3>4 DEF VerifyScan, WalkInv
        <5> QED BY <3>4, <5>1 DEF VerifyScan
      <4>2. PageSound(walk') /\ TailSound(walk')
        BY <3>1, <3>4, ScanSound
      <4> QED BY <3>1, <4>1, <4>2 DEF WalkSound, PageSound, TailSound, Partial
    <3>5. CASE VerifyAnchor
      <4>1. /\ walk'.records = walk.records /\ walk'.previous = walk.previous
            /\ walk'.limit = walk.limit /\ walk'.owed = walk.owed /\ walk'.end = walk.end
            /\ walk.at = "anchor"
        <5>1. walk \in [at : {"none", "scan", "anchor"}, limit : Int,
                        previous : rows \cup {NoRow}, records : Seq(rows),
                        anchor : {NoConfig}, findings : {{}}, owed : SUBSET Nat, end : Nat]
          BY <3>5 DEF VerifyAnchor, WalkInv
        <5> QED BY <3>5, <5>1 DEF VerifyAnchor
      <4>2. PageSound(walk') /\ TailSound(walk')
        BY <3>1, <4>1 DEF WalkSound, PageSound, TailSound, Partial
      <4>3. AnchorSound(walk')
        BY <3>1, <3>5, AnchorReadSound
      <4> QED BY <3>1, <4>2, <4>3 DEF WalkSound, PageSound, TailSound, AnchorSound, Partial
    <3> QED BY <3>2, <3>3, <3>4, <3>5, VerifyStep
  <2> QED BY <2>3, <2>4, VerifyStep
<1>3. I => FindingsExplained
  BY VerdictExplained DEF FindingsExplained
<1> HIDE DEF I
<1> QED BY <1>1, <1>2, <1>3, PTL DEF VerifySpec
=============================================================================
