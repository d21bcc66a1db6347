---------------------------- MODULE DeliveryProofs ----------------------------
(***************************************************************************)
(* What Delivery guarantees for every pipeline, every set of releases and  *)
(* every bound: a promotion moves an environment only after its own        *)
(* evaluation allowed it; what an environment with requirements serves was *)
(* allowed for it, whoever moved it there, an automatic rollback included; *)
(* a promotion that reports Applied was served, the stages are climbed in  *)
(* order, and pruning keeps the newest releases.                           *)
(***************************************************************************)
EXTENDS Delivery, TLAPS, SequenceTheorems, FiniteSetTheorems, WellFoundedInduction


\* What the argument reads; the other variables may change as they like.
judgement == <<promotion, prm, judged, moved>>

\* The phase a promotion is re-entered by, and the place a pass has reached,
\* both vouch for the verdict: without them MovedWasJudged is not inductive.
JudgedTypes ==
    /\ promotion \in [Promotion -> Phase]
    /\ prm.pc # "idle" => prm.p \in Promotion
    /\ prm.verdict \in Phase

Vouched ==
    /\ \A p \in Promotion :
          promotion[p] \in {"Allowed", "AllowedWithException"} => p \in judged
    /\ prm.pc \in {"apply", "history", "next", "applied"} => prm.p \in judged
    /\ MovedWasJudged

JudgedInv == JudgedTypes /\ Vouched

\* A step that touches none of them preserves the invariant.
LEMMA JudgedStutter ==
    ASSUME JudgedInv, UNCHANGED judgement
    PROVE  JudgedInv'
BY DEF JudgedInv, JudgedTypes, Vouched, MovedWasJudged, judgement

\* The initial state: nothing is promoted, nothing is under way.
LEMMA JudgedInit == Init => JudgedInv
<1> SUFFICES ASSUME Init PROVE JudgedInv
  OBVIOUS
<1>2. JudgedTypes
  BY DEF Init, JudgedTypes, Phase, NoPromoting, Promoting
<1>3. Vouched
  BY DEF Init, Vouched, MovedWasJudged, NoPromoting, Promoting
<1> QED
  BY <1>2, <1>3 DEF JudgedInv

\* Dropping a pass keeps it: an idle pass vouches for nothing.
LEMMA JudgedIdle ==
    ASSUME JudgedInv, prm' = NoPromoting, UNCHANGED <<promotion, judged, moved>>
    PROVE  JudgedInv'
<1>1. NoPromoting.pc = "idle" /\ NoPromoting.verdict \in Phase
  BY DEF NoPromoting, Promoting, Phase
<1> QED
  BY <1>1 DEF JudgedInv, JudgedTypes, Vouched, MovedWasJudged

\* A promotion is created Pending, by a build, a stage or a person.
LEMMA JudgedCreate ==
    ASSUME JudgedInv, UNCHANGED <<prm, judged, moved>>,
           promotion' \in [Promotion -> Phase],
           \A p \in Promotion : promotion'[p] # promotion[p] => promotion'[p] = "Pending"
    PROVE  JudgedInv'
BY DEF JudgedInv, JudgedTypes, Vouched, MovedWasJudged

\* The steps of the promotion reconciler's own pass.
LEMMA JudgedPromotion ==
    ASSUME JudgedInv, PromotionNext
    PROVE  JudgedInv'
<1>1. ASSUME NEW p \in Promotion, Resolve(p) PROVE JudgedInv'
  <2>1. prm'.pc = Entry(p) /\ prm'.p = p /\ prm'.verdict = "none"
    BY <1>1 DEF Resolve, Promoting
  <2>2. Entry(p) = "apply" => promotion[p] \in {"Allowed", "AllowedWithException"}
    BY DEF Entry
  <2>3. Entry(p) \in {"fail", "apply", "evaluate"}
    BY DEF Entry
  <2>4. UNCHANGED <<promotion, judged, moved>>
    BY <1>1 DEF Resolve, records, ghosts
  <2> QED
    BY <1>1, <2>1, <2>2, <2>3, <2>4
    DEF JudgedInv, JudgedTypes, Vouched, MovedWasJudged, Phase
<1>2. CASE Evaluate
  <2>1. prm'.pc \in {"fail", "settle"} /\ prm'.p = prm.p
    BY <1>2 DEF Evaluate, Promoting
  <2>2. prm'.verdict = Verdict(prm.p[1], prm.p[2], prm.bar)
    BY <1>2 DEF Evaluate, Promoting
  <2>3. prm'.verdict \in Phase
    BY <2>2 DEF Verdict, Phase, Open, Terminal
  <2>4. promotion' = [promotion EXCEPT ![prm.p] = "Evaluating"] /\ prm.pc = "evaluate"
    BY <1>2 DEF Evaluate
  <2>5. UNCHANGED <<judged, moved>>
    BY <1>2 DEF Evaluate, ghosts
  <2> QED
    BY <2>1, <2>3, <2>4, <2>5
    DEF JudgedInv, JudgedTypes, Vouched, MovedWasJudged, Phase, Open
<1>3. CASE Fail
  <2>1. promotion' = [promotion EXCEPT ![prm.p] = "Failed"] /\ prm' = NoPromoting
    BY <1>3 DEF Fail
  <2>2. NoPromoting.pc = "idle" /\ NoPromoting.verdict \in Phase
    BY DEF NoPromoting, Promoting, Phase
  <2>3. UNCHANGED <<judged, moved>>
    BY <1>3 DEF Fail, ghosts
  <2> QED
    BY <2>1, <2>2, <2>3
    DEF JudgedInv, JudgedTypes, Vouched, MovedWasJudged, Phase, Terminal
<1>4. CASE Settle
  <2>1. prm.pc = "settle" /\ promotion' = [promotion EXCEPT ![prm.p] = prm.verdict]
    BY <1>4 DEF Settle
  <2>2. UNCHANGED moved
    BY <1>4 DEF Settle
  <2>3. prm.p \in Promotion /\ promotion' \in [Promotion -> Phase]
    BY <2>1 DEF JudgedInv, JudgedTypes
  <2>4. CASE prm.verdict = "Blocked"
    <3>1. prm' = NoPromoting /\ UNCHANGED judged
      BY <1>4, <2>4 DEF Settle
    <3>2. NoPromoting.pc = "idle" /\ NoPromoting.verdict \in Phase
      BY DEF NoPromoting, Promoting, Phase
    <3> QED
      BY <2>1, <2>2, <2>3, <2>4, <3>1, <3>2
      DEF JudgedInv, JudgedTypes, Vouched, MovedWasJudged, Phase
  <2>5. CASE prm.verdict # "Blocked"
    <3>1. prm'.p = prm.p /\ prm'.verdict = "none"
      BY <1>4, <2>5 DEF Settle, Promoting
    <3>2. judged' = judged \cup {prm.p}
      BY <1>4, <2>5 DEF Settle
    <3> QED
      BY <2>1, <2>2, <2>3, <3>1, <3>2
      DEF JudgedInv, JudgedTypes, Vouched, MovedWasJudged, Phase
  <2> QED
    BY <2>4, <2>5
<1>5. CASE AlreadyThere
  <2>1. prm.pc = "apply" /\ prm'.p = prm.p /\ prm'.verdict = "none"
    BY <1>5 DEF AlreadyThere, Promoting
  <2>2. UNCHANGED <<promotion, judged, moved>>
    BY <1>5 DEF AlreadyThere, records, ghosts
  <2> QED
    BY <2>1, <2>2 DEF JudgedInv, JudgedTypes, Vouched, MovedWasJudged, Phase
<1>6. CASE Apply
  <2>1. prm.pc = "apply" /\ prm'.p = prm.p /\ prm'.verdict = "none"
    BY <1>6 DEF Apply, Promoting
  <2>2. moved' = moved \cup {prm.p}
    BY <1>6 DEF Apply
  <2>3. UNCHANGED <<promotion, judged>>
    BY <1>6 DEF Apply, records
  <2> QED
    BY <2>1, <2>2, <2>3 DEF JudgedInv, JudgedTypes, Vouched, MovedWasJudged, Phase
<1>7. CASE PromotionRecords
  <2>1. prm.pc = "history" /\ prm'.p = prm.p /\ prm'.verdict = "none"
    BY <1>7 DEF PromotionRecords, Promoting
  <2>2. UNCHANGED <<promotion, judged, moved>>
    BY <1>7 DEF PromotionRecords, records, ghosts
  <2> QED
    BY <2>1, <2>2 DEF JudgedInv, JudgedTypes, Vouched, MovedWasJudged, Phase
<1>8. CASE PromotionConflict
  <2>1. prm' = NoPromoting /\ UNCHANGED <<promotion, judged, moved>>
    BY <1>8 DEF PromotionConflict, records, ghosts
  <2> QED
    BY <2>1, JudgedIdle
<1>9. CASE Chain
  <2>1. prm.pc = "next" /\ prm'.p = prm.p /\ prm'.verdict = "none"
    BY <1>9 DEF Chain, Promoting
  <2>2. \A q \in Promotion : promotion'[q] \in {promotion[q], "Pending"}
    BY <1>9 DEF Chain
  <2>3. promotion' \in [Promotion -> Phase]
    <3>1. "Pending" \in Phase
      BY DEF Phase, Open
    <3>2. \A q \in Promotion : promotion[q] \in Phase
      BY DEF JudgedInv, JudgedTypes
    <3> QED
      BY <1>9, <2>2, <3>1, <3>2 DEF Chain
  <2>4. UNCHANGED <<judged, moved>>
    BY <1>9 DEF Chain, ghosts
  <2> QED
    BY <2>1, <2>2, <2>3, <2>4 DEF JudgedInv, JudgedTypes, Vouched, MovedWasJudged, Phase
<1>10. CASE Applied
  <2>1. promotion' = [promotion EXCEPT ![prm.p] = "Applied"] /\ prm' = NoPromoting
    BY <1>10 DEF Applied
  <2>2. NoPromoting.pc = "idle" /\ NoPromoting.verdict \in Phase
    BY DEF NoPromoting, Promoting, Phase
  <2>3. UNCHANGED <<judged, moved>>
    BY <1>10 DEF Applied, ghosts
  <2> QED
    BY <2>1, <2>2, <2>3
    DEF JudgedInv, JudgedTypes, Vouched, MovedWasJudged, Phase, Terminal
<1> QED
  BY <1>1, <1>2, <1>3, <1>4, <1>5, <1>6, <1>7, <1>8, <1>9, <1>10 DEF PromotionNext

\* The build reconciler only ever creates a promotion.
LEMMA JudgedBuild ==
    ASSUME JudgedInv, BuildNext
    PROVE  JudgedInv'
<1>1. CASE BuildPromotes
  <2>1. promotion' = [promotion EXCEPT ![<<Target, bld.rel, "automatic">>] =
             IF promotion[<<Target, bld.rel, "automatic">>] = "none" THEN "Pending"
             ELSE promotion[<<Target, bld.rel, "automatic">>]]
    BY <1>1 DEF BuildPromotes, CreatePromotion
  <2>2. UNCHANGED <<prm, judged, moved>>
    BY <1>1 DEF BuildPromotes, ghosts
  <2>3. "Pending" \in Phase /\ promotion \in [Promotion -> Phase]
    BY DEF Phase, Open, JudgedInv, JudgedTypes
  <2>4. promotion' \in [Promotion -> Phase]
    BY <2>1, <2>3
  <2>5. \A p \in Promotion : promotion'[p] # promotion[p] => promotion'[p] = "Pending"
    BY <2>1, <2>3
  <2> QED
    BY <2>2, <2>4, <2>5, JudgedCreate
<1>2. CASE ~BuildPromotes
  <2>1. UNCHANGED judgement
    BY <1>2 DEF BuildNext, Succeed, BuildFails, PromoteOrFlip, EnsureEnvironment,
       CreateEnvironment, BuildFlips, BuildRecords, BuildConflict, BuildSucceeded,
       judgement, records, workers, ghosts
  <2> QED
    BY <2>1, JudgedStutter
<1> QED
  BY <1>1, <1>2

\* So does the API; the sweep and the pruner leave promotions alone.
LEMMA JudgedOthers ==
    ASSUME JudgedInv, ApiNext \/ RescanNext \/ PruneNext
    PROVE  JudgedInv'
<1>1. ASSUME NEW e \in Env, NEW r \in Release, RequestPromotion(e, r) PROVE JudgedInv'
  <2>1. promotion' = [promotion EXCEPT ![<<e, r, "manual">>] = "Pending"]
    BY <1>1 DEF RequestPromotion
  <2>2. UNCHANGED <<prm, judged, moved>>
    BY <1>1 DEF RequestPromotion, workers, ghosts
  <2>3. "Pending" \in Phase /\ promotion \in [Promotion -> Phase]
    BY DEF Phase, Open, JudgedInv, JudgedTypes
  <2>4. /\ promotion' \in [Promotion -> Phase]
        /\ \A p \in Promotion : promotion'[p] # promotion[p] => promotion'[p] = "Pending"
    BY <2>1, <2>3
  <2> QED
    BY <2>2, <2>4, JudgedCreate
<1>2. ASSUME ~\E e \in Env, r \in Release : RequestPromotion(e, r) PROVE JudgedInv'
  <2>1. CASE ApiNext
    <3>1. UNCHANGED judgement
      BY <1>2, <2>1 DEF ApiNext, PatchEnvironment, PointEnvironmentAt, PatchHistory,
         DeclareEnvironment, PatchRequirements, judgement, records, workers, ghosts
    <3> QED
      BY <3>1, JudgedStutter
  <2>2. CASE RescanNext
    <3>1. UNCHANGED judgement
      BY <2>2 DEF RescanNext, RollBackForExpiry, RollBack, RollbackRecords,
         RollbackDropped, judgement, records, ghosts
    <3> QED
      BY <3>1, JudgedStutter
  <2>3. CASE PruneNext
    <3>1. UNCHANGED judgement
      BY <2>3 DEF PruneNext, ListEnvironments, ListReleases, DeleteRelease,
         judgement, records, ghosts
    <3> QED
      BY <3>1, JudgedStutter
  <2> QED
    BY <2>1, <2>2, <2>3
<1> QED
  BY <1>1, <1>2

\* One step of any actor.
LEMMA JudgedNext == JudgedInv /\ [Next]_vars => JudgedInv'
<1> SUFFICES ASSUME JudgedInv, [Next]_vars PROVE JudgedInv'
  OBVIOUS
<1>1. CASE BuildNext
  BY <1>1, JudgedBuild
<1>2. CASE PromotionNext
  BY <1>2, JudgedPromotion
<1>3. CASE ApiNext \/ RescanNext \/ PruneNext
  BY <1>3, JudgedOthers
<1>4. ASSUME NEW e \in Env, Observe(e) PROVE JudgedInv'
  <2>1. UNCHANGED judgement
    BY <1>4 DEF Observe, judgement, records, workers, ghosts
  <2> QED
    BY <2>1, JudgedStutter
<1>5. ASSUME NEW e \in Env, NEW r \in Release, ExceptionExpires(e, r) PROVE JudgedInv'
  <2>1. UNCHANGED judgement
    BY <1>5 DEF ExceptionExpires, judgement, workers, ghosts
  <2> QED
    BY <2>1, JudgedStutter
<1>6. CASE Drop
  <2>1. prm' = NoPromoting \/ UNCHANGED prm
    BY <1>6 DEF Drop
  <2>2. UNCHANGED <<promotion, judged, moved>>
    BY <1>6 DEF Drop, records, ghosts
  <2> QED
    BY <2>1, <2>2, JudgedIdle, JudgedStutter DEF judgement
<1>7. CASE UNCHANGED vars
  <2>1. UNCHANGED judgement
    BY <1>7 DEF vars, judgement, records, workers, ghosts
  <2> QED
    BY <2>1, JudgedStutter
<1> QED
  BY <1>1, <1>2, <1>3, <1>4, <1>5, <1>6, <1>7 DEF Next

\* Whatever the pipeline, the bar changes, the dropped passes and the grants:
\* apply runs only for a promotion whose own evaluation allowed it.
THEOREM JudgedBeforeMoved == Spec => []MovedWasJudged
<1>1. JudgedInv => MovedWasJudged
  BY DEF JudgedInv, Vouched
<1> QED
  BY JudgedInit, JudgedNext, <1>1, PTL DEF Spec

-----------------------------------------------------------------------------
(* Types                                                                   *)

\* A pass that is under way names what it works on.
Named ==
    /\ bld.pc # "idle" => bld.rel \in Release
    /\ bld.pc = "history" => bld.out \in Release
    /\ prm.pc # "idle" => prm.p \in Promotion
    /\ prm.pc = "history" => prm.out \in Release
    /\ rsc.pc # "idle" => rsc.rel \in Release /\ rsc.target \in Release
    /\ \A u \in User : /\ usr[u].pc # "idle" => usr[u].rel \in Release
                       /\ usr[u].pc = "history" => usr[u].out \in Release

TypeInv == TypeOK /\ Named

LEMMA RecordedIn ==
    ASSUME NEW S, NEW hist \in Seq(S), NEW out \in S
    PROVE  Recorded(hist, out) \in Seq(S)
<1> DEFINE longer == <<out>> \o hist
           n == IF Len(longer) < MaxReleaseHistory THEN Len(longer) ELSE MaxReleaseHistory
<1>1. <<out>> \in Seq(S)
  OBVIOUS
<1>2. longer \in Seq(S)
  BY <1>1, ConcatProperties
<1>3. Len(longer) \in Nat /\ \A i \in 1..Len(longer) : longer[i] \in S
  BY <1>2, LenProperties, ElementOfSeq
<1>4. n \in Int /\ n <= Len(longer)
  BY <1>3, DeliveryAssumption
<1> HIDE DEF longer, n
<1>5. \A i \in 1..n : longer[i] \in S
  BY <1>3, <1>4
<1>6. SubSeq(longer, 1, n) \in Seq(S)
  BY <1>4, <1>5, SubSeqProperties
<1> QED BY <1>6 DEF Recorded, longer, n

\* The newest entry that is another release is one of the entries.
LEMMA TargetIn ==
    ASSUME NEW S, NEW hist \in Seq(S), NEW r
    PROVE  RollbackTarget(hist, r) \in S \cup {None}
<1> DEFINE others == {i \in 1..Len(hist) : hist[i] # r}
<1>1. CASE others = {}
  BY <1>1 DEF RollbackTarget
<1>2. CASE others # {}
  <2>1. others \subseteq Nat
    BY LenProperties
  <2>2. \E i \in others : \A j \in others : i <= j
    <3> DEFINE R == OpToRel(<, Nat)
    <3>1. IsWellFoundedOn(R, Nat)
      BY NatLessThanWellFounded
    <3>2. \A x, y \in Nat : <<x, y>> \in R <=> x < y
      BY DEF OpToRel
    <3> HIDE DEF R, others
    <3>3. \E i \in others : \A j \in others : <<j, i>> \notin R
      BY <1>2, <2>1, <3>1, WFMin
    <3>4. PICK i \in others : \A j \in others : <<j, i>> \notin R
      BY <3>3
    <3>5. ASSUME NEW j \in others PROVE i <= j
      <4>1. i \in Nat /\ j \in Nat /\ ~(j < i)
        BY <2>1, <3>2, <3>4
      <4> QED BY <4>1
    <3> QED BY <3>5
  <2>3. (CHOOSE i \in others : \A j \in others : i <= j) \in others
    BY <2>2
  <2>4. \A i \in others : hist[i] \in S
    BY ElementOfSeq
  <2> HIDE DEF others
  <2> QED BY <1>2, <2>3, <2>4 DEF RollbackTarget, others
<1> QED BY <1>1, <1>2

LEMMA Names ==
    /\ Stages[1] \in Env /\ None \notin Release /\ Release \subseteq Name
    /\ NoBuild \in BuildPass /\ NoPromoting \in PromotionPass /\ NoRollback \in RescanPass
    /\ NoPrune \in PrunePass /\ NoRequest \in ApiPass
    /\ Target \in Env
<1>1. Stages[1] \in Env
  <2>1. Len(Stages) \in Nat /\ Len(Stages) > 0
    <3>1. Stages \in Seq(Env) /\ Len(Stages) > 0
      BY DeliveryAssumption
    <3>2. Len(Stages) \in Nat
      BY <3>1, LenProperties
    <3> QED BY <3>1, <3>2
  <2> QED BY <2>1 DEF Env
<1>2. None \notin Release /\ Release \subseteq Name /\ None \in Name
  BY DeliveryAssumption DEF Name
<1>3. NoBuild \in BuildPass
  BY <1>2 DEF NoBuild, Build, BuildPass
<1>4. NoPromoting \in PromotionPass
  BY <1>1, <1>2 DEF NoPromoting, Promoting, PromotionPass
<1>5. NoRollback \in RescanPass
  BY <1>1, <1>2 DEF NoRollback, Rollback, RescanPass
<1>6. NoPrune \in PrunePass
  BY DEF NoPrune, Prune, PrunePass
<1>7. NoRequest \in ApiPass
  BY <1>1, <1>2 DEF NoRequest, Request, ApiPass
<1> QED BY <1>1, <1>2, <1>3, <1>4, <1>5, <1>6, <1>7 DEF Target

LEMMA StagesFacts ==
    /\ Len(Stages) \in Nat
    /\ \A i \in 1..(Len(Stages) - 1) : Stages[i] \in Env /\ Stages[i + 1] \in Env
    /\ \A i \in 1..(Len(Stages) - 1) : Stages[i + 1] # Target
    /\ \A i, j \in 1..(Len(Stages) - 1) : Stages[i + 1] = Stages[j + 1] => i = j
<1>1. Stages \in Seq(Env) /\ Len(Stages) > 0
  BY DeliveryAssumption
<1>2. Len(Stages) \in Nat
  BY <1>1, LenProperties
<1>3. \A i, j \in 1..Len(Stages) : Stages[i] = Stages[j] => i = j
  BY DeliveryAssumption
<1>4. \A i \in 1..(Len(Stages) - 1) : i \in 1..Len(Stages) /\ i + 1 \in 1..Len(Stages)
  BY <1>2
<1>5. \A i \in 1..(Len(Stages) - 1) : Stages[i] \in Env /\ Stages[i + 1] \in Env
  BY <1>4 DEF Env
<1>6. \A i \in 1..(Len(Stages) - 1) : Stages[i + 1] # Target
  BY <1>1, <1>2, <1>3, <1>4 DEF Target
<1>7. \A i, j \in 1..(Len(Stages) - 1) : Stages[i + 1] = Stages[j + 1] => i = j
  BY <1>3, <1>4
<1> QED BY <1>2, <1>5, <1>6, <1>7

LEMMA InitTyped == Init => TypeInv
<1> SUFFICES ASSUME Init PROVE TypeInv
  OBVIOUS
<1>1. \A e \in Env : Initially(e) \in Name
  BY DeliveryAssumption DEF Initially, Name
<1>2. FirstRelease \in Name
  BY DeliveryAssumption DEF Name
<1>3. <<>> \in Seq(Release)
  OBVIOUS
<1>4. TypeOK
  BY <1>1, <1>2, <1>3, Names DEF Init, TypeOK, Phase, Name
<1>5. Named
  BY DEF Init, Named, NoBuild, Build, NoPromoting, Promoting, NoRollback, Rollback,
     NoRequest, Request
<1> QED BY <1>4, <1>5 DEF TypeInv

\* The build reconciler keeps the types.
LEMMA BuildTyped == TypeInv /\ BuildNext => TypeInv'
<1> SUFFICES ASSUME TypeInv, BuildNext PROVE TypeInv'
  OBVIOUS
<1> USE Names DEF TypeInv, TypeOK, Named, object, records, workers, bounds, ghosts, Name
<1>1. ASSUME NEW r \in Release, Succeed(r) PROVE TypeInv'
  BY <1>1 DEF Succeed, CreateRelease, Exists, Build, BuildPass
<1>2. ASSUME NEW r \in Release, BuildFails(r) PROVE TypeInv'
  BY <1>2 DEF BuildFails
<1>3. CASE PromoteOrFlip
  BY <1>3 DEF PromoteOrFlip, Door, Build, BuildPass
<1>4. CASE BuildPromotes
  BY <1>4 DEF BuildPromotes, CreatePromotion, Build, BuildPass, Phase, Open
<1>5. CASE EnsureEnvironment
  BY <1>5 DEF EnsureEnvironment, Read, Reader, Build, BuildPass
<1>6. CASE CreateEnvironment
  BY <1>6 DEF CreateEnvironment, MoveTo, Write, Reader, Build, BuildPass
<1>7. CASE BuildFlips
  BY <1>7 DEF BuildFlips, MoveTo, Write, Reader, Records, Build, BuildPass
<1>8. CASE BuildRecords
  BY <1>8, RecordedIn DEF BuildRecords, WriteHistory, Write, Reader, Build, BuildPass
<1>9. CASE BuildConflict
  BY <1>9 DEF BuildConflict, NoBuild, Build
<1>10. CASE BuildSucceeded
  BY <1>10 DEF BuildSucceeded, NoBuild, Build, BuildPass
<1> QED BY <1>1, <1>2, <1>3, <1>4, <1>5, <1>6, <1>7, <1>8, <1>9, <1>10 DEF BuildNext

\* So does the promotion reconciler.
LEMMA PromotionTyped == TypeInv /\ PromotionNext => TypeInv'
<1> SUFFICES ASSUME TypeInv, PromotionNext PROVE TypeInv'
  OBVIOUS
<1> USE Names DEF TypeInv, TypeOK, Named, object, records, workers, bounds, ghosts, Name
<1>1. ASSUME NEW p \in Promotion, Resolve(p) PROVE TypeInv'
  BY <1>1 DEF Resolve, Read, Reader, Entry, Promotion, Promoting, PromotionPass
<1>2. CASE Evaluate
  BY <1>2 DEF Evaluate, Verdict, Phase, Open, Promoting, PromotionPass
<1>3. CASE Fail
  BY <1>3 DEF Fail, Phase, Terminal, NoPromoting, Promoting
<1>4. CASE Settle
  <2>1. promotion' \in [Promotion -> Phase]
    BY <1>4 DEF Settle, PromotionPass, Phase, Open, Terminal
  <2>2. CASE prm.verdict = "Blocked"
    <3>1. prm' = NoPromoting /\ NoPromoting.pc = "idle" /\ judged' = judged
      BY <1>4, <2>2 DEF Settle, NoPromoting, Promoting
    <3> QED BY <1>4, <2>1, <3>1 DEF Settle
  <2>3. CASE prm.verdict # "Blocked"
    <3>1. prm' = Promoting("apply", prm.p, prm.out, FALSE, "none") /\ judged' = judged \cup {prm.p}
      BY <1>4, <2>3 DEF Settle
    <3>2. prm.p \in Promotion /\ prm' \in PromotionPass /\ prm'.pc = "apply" /\ prm'.p = prm.p
      BY <1>4, <3>1 DEF Settle, Promoting, PromotionPass
    <3> QED BY <1>4, <2>1, <3>1, <3>2 DEF Settle
  <2> QED BY <2>2, <2>3
<1>5. CASE AlreadyThere
  BY <1>5 DEF AlreadyThere, Promoting, PromotionPass
<1>6. CASE Apply
  BY <1>6 DEF Apply, MoveTo, Write, Reader, Records, Promotion, Promoting, PromotionPass
<1>7. CASE PromotionRecords
  BY <1>7, RecordedIn DEF PromotionRecords, WriteHistory, Write, Reader, Promotion, Promoting, PromotionPass
<1>8. CASE PromotionConflict
  BY <1>8 DEF PromotionConflict, NoPromoting, Promoting
<1>9. CASE Chain
  BY <1>9 DEF Chain, Phase, Open, Promoting, PromotionPass
<1>10. CASE Applied
  BY <1>10 DEF Applied, Phase, Terminal, NoPromoting, Promoting
<1> QED BY <1>1, <1>2, <1>3, <1>4, <1>5, <1>6, <1>7, <1>8, <1>9, <1>10 DEF PromotionNext

\* And the sweep.
LEMMA RescanTyped == TypeInv /\ RescanNext => TypeInv'
<1> SUFFICES ASSUME TypeInv, RescanNext PROVE TypeInv'
  OBVIOUS
<1> USE Names DEF TypeInv, TypeOK, Named, object, records, workers, bounds, ghosts, Name
<1>1. ASSUME NEW e \in Env, RollBackForExpiry(e) PROVE TypeInv'
  BY <1>1, TargetIn DEF RollBackForExpiry, Rollback, RescanPass, Exists
<1>2. CASE RollBack
  BY <1>2 DEF RollBack, MoveTo, Write, Reader, Rollback, RescanPass, NoRollback
<1>3. CASE RollbackRecords
  BY <1>3, RecordedIn DEF RollbackRecords, WriteHistory, Write, Reader, RescanPass, NoRollback, Rollback
<1>4. CASE RollbackDropped
  BY <1>4 DEF RollbackDropped, NoRollback, Rollback
<1> QED BY <1>1, <1>2, <1>3, <1>4 DEF RescanNext

\* And the pruner.
LEMMA PruneTyped == TypeInv /\ PruneNext => TypeInv'
<1> SUFFICES ASSUME TypeInv, PruneNext PROVE TypeInv'
  OBVIOUS
<1> USE Names DEF TypeInv, TypeOK, Named, object, records, workers, bounds, ghosts, Name
<1>1. CASE ListEnvironments
  BY <1>1 DEF ListEnvironments, Prune, PrunePass
<1>2. CASE ListReleases
  BY <1>2 DEF ListReleases, Outgrown, Prune, PrunePass
<1>3. ASSUME NEW r \in Release, DeleteRelease(r) PROVE TypeInv'
  BY <1>3 DEF DeleteRelease, Prune, PrunePass
<1> QED BY <1>1, <1>2, <1>3 DEF PruneNext

\* And the API.
LEMMA ApiTyped == TypeInv /\ ApiNext => TypeInv'
<1> SUFFICES ASSUME TypeInv, ApiNext PROVE TypeInv'
  OBVIOUS
<1> USE Names DEF TypeInv, TypeOK, Named, object, records, workers, bounds, ghosts, Name
<1>1. ASSUME NEW u \in User, NEW e \in Env, NEW r \in Release, PatchEnvironment(u, e, r) PROVE TypeInv'
  <2> DEFINE q == Request("point", e, r, release[e], <<>>)
  <2>1. usr' = [usr EXCEPT ![u] = q]
    BY <1>1 DEF PatchEnvironment
  <2>2. q \in ApiPass /\ q.rel \in Release /\ q.pc = "point"
    BY DEF Request, ApiPass
  <2> HIDE DEF q
  <2> QED BY <1>1, <2>1, <2>2 DEF PatchEnvironment
<1>2. ASSUME NEW e \in Env, NEW r \in Release, RequestPromotion(e, r) PROVE TypeInv'
  <2>1. promotion' \in [Promotion -> Phase]
    BY <1>2 DEF RequestPromotion, Phase, Open
  <2> QED BY <1>2, <2>1 DEF RequestPromotion
<1>3. ASSUME NEW u \in User, PointEnvironmentAt(u) PROVE TypeInv'
  <2>1. /\ usr[u].env \in Env /\ usr[u].rel \in Release /\ usr[u].out \in Name
        /\ history[usr[u].env] \in Seq(Release)
    BY <1>3 DEF PointEnvironmentAt, ApiPass
  <2>2. /\ release' \in [Env -> Name] /\ holders' \in [Env -> SUBSET Reader]
        /\ served' \in [Env -> SUBSET Release]
    <3>1. CASE release[usr[u].env] = usr[u].rel
      BY <1>3, <3>1 DEF PointEnvironmentAt
    <3>2. CASE release[usr[u].env] # usr[u].rel
      <4>1. /\ release' = [release EXCEPT ![usr[u].env] = usr[u].rel]
            /\ served' = [served EXCEPT ![usr[u].env] = @ \cup {usr[u].rel}]
            /\ holders' = [holders EXCEPT ![usr[u].env] = {}]
        BY <1>3, <3>2 DEF PointEnvironmentAt, MoveTo, Write
      <4> QED BY <2>1, <4>1
    <3> QED BY <3>1, <3>2
  <2>3. CASE Records(history[usr[u].env], usr[u].out)
    <3> DEFINE q == Request("history", usr[u].env, usr[u].rel, usr[u].out, history[usr[u].env])
    <3>1. usr' = [usr EXCEPT ![u] = q]
      BY <1>3, <2>3 DEF PointEnvironmentAt
    <3>2. q \in ApiPass /\ q.rel \in Release /\ q.out \in Release
      BY <2>1, <2>3 DEF Request, ApiPass, Records
    <3> HIDE DEF q
    <3> QED BY <1>3, <2>2, <3>1, <3>2 DEF PointEnvironmentAt
  <2>4. CASE ~Records(history[usr[u].env], usr[u].out)
    <3>1. usr' = [usr EXCEPT ![u] = NoRequest]
      BY <1>3, <2>4 DEF PointEnvironmentAt
    <3>2. NoRequest.pc = "idle"
      BY DEF NoRequest, Request
    <3> QED BY <1>3, <2>2, <3>1, <3>2 DEF PointEnvironmentAt
  <2> QED BY <2>3, <2>4
<1>4. ASSUME NEW u \in User, PatchHistory(u) PROVE TypeInv'
  <2>1. usr[u].env \in Env /\ usr[u].hist \in Seq(Release) /\ usr[u].out \in Release
    BY <1>4 DEF PatchHistory, ApiPass
  <2>2. Recorded(usr[u].hist, usr[u].out) \in Seq(Release)
    BY <2>1, RecordedIn
  <2>3. history' \in [Env -> Seq(Release)] /\ holders' \in [Env -> SUBSET Reader]
    BY <1>4, <2>1, <2>2 DEF PatchHistory, Write
  <2>4. usr' = [usr EXCEPT ![u] = NoRequest] /\ NoRequest.pc = "idle"
    BY <1>4 DEF PatchHistory, NoRequest, Request
  <2> QED BY <1>4, <2>3, <2>4 DEF PatchHistory
<1>5. ASSUME NEW e \in Env, NEW bar \in BOOLEAN, DeclareEnvironment(e, bar) PROVE TypeInv'
  BY <1>5 DEF DeclareEnvironment, Write
<1>6. ASSUME NEW e \in Env, PatchRequirements(e) PROVE TypeInv'
  BY <1>6 DEF PatchRequirements, Write
<1> QED BY <1>1, <1>2, <1>3, <1>4, <1>5, <1>6 DEF ApiNext

LEMMA TypeStep == TypeInv /\ [Next]_vars => TypeInv'
<1> SUFFICES ASSUME TypeInv, [Next]_vars PROVE TypeInv'
  OBVIOUS
<1>1. ASSUME NEW e \in Env, Observe(e) PROVE TypeInv'
  <2> USE Names DEF TypeInv, TypeOK, Named, object, records, workers, bounds, ghosts, Name
  <2>1. history' \in [Env -> Seq(Release)]
    BY <1>1, RecordedIn DEF Observe, RecordUnrecorded, Records
  <2> QED BY <1>1, <2>1 DEF Observe, Write
<1>2. ASSUME NEW e \in Env, NEW r \in Release, ExceptionExpires(e, r) PROVE TypeInv'
  BY <1>2 DEF ExceptionExpires, TypeInv, TypeOK, Named, object, workers, bounds, ghosts
<1>3. CASE Drop
  <2> USE Names DEF TypeInv, TypeOK, Named, object, records, ghosts
  <2>1. CASE bld' = NoBuild /\ UNCHANGED <<prm, rsc, prn, usr>>
    BY <1>3, <2>1 DEF Drop, NoBuild, Build
  <2>2. CASE prm' = NoPromoting /\ UNCHANGED <<bld, rsc, prn, usr>>
    BY <1>3, <2>2 DEF Drop, NoPromoting, Promoting
  <2>3. CASE rsc' = NoRollback /\ UNCHANGED <<bld, prm, prn, usr>>
    BY <1>3, <2>3 DEF Drop, NoRollback, Rollback
  <2>4. CASE prn' = NoPrune /\ UNCHANGED <<bld, prm, rsc, usr>>
    BY <1>3, <2>4 DEF Drop
  <2>5. ASSUME NEW u \in User, usr' = [usr EXCEPT ![u] = NoRequest], UNCHANGED <<bld, prm, rsc, prn>>
        PROVE  TypeInv'
    BY <1>3, <2>5 DEF Drop, NoRequest, Request
  <2> QED BY <1>3, <2>1, <2>2, <2>3, <2>4, <2>5 DEF Drop
<1>4. CASE UNCHANGED vars
  BY <1>4 DEF vars, TypeInv, TypeOK, Named, object, records, workers, bounds, ghosts
<1> QED BY <1>1, <1>2, <1>3, <1>4, BuildTyped, PromotionTyped, RescanTyped, PruneTyped, ApiTyped
        DEF Next

\* Every object, record and pass keeps its type, and no history ever names the
\* empty release.
THEOREM TypeCorrect == Spec => []TypeOK
<1>1. TypeInv => TypeOK
  BY DEF TypeInv
<1> QED BY <1>1, InitTyped, TypeStep, PTL DEF Spec

-----------------------------------------------------------------------------
(* The bar                                                                 *)

\* What may stand on an environment with requirements.
Cleared(e) ==
    {r \in Name : r \in {None, Initially(e)} \/ \E p \in judged : p[1] = e /\ p[2] = r}

\* Every place a move could take its release from holds only such releases: the
\* object, its history, and the copies in the hands of the passes.  A pass that
\* writes without asking is nowhere near it.
BarOf(e) ==
    /\ exists[e] /\ release[e] \in Cleared(e) /\ observed[e] \in Cleared(e)
    /\ history[e] \in Seq(Cleared(e))
    /\ bld.pc \in {"ensure", "create", "flip", "history"} => e # Target
    /\ prm.p[1] = e => prm.out \in Cleared(e)
    /\ rsc.env = e => rsc.rel \in Cleared(e) /\ rsc.target \in Cleared(e)
    /\ \A u \in User : usr[u].pc # "idle" => usr[u].env # e

BarInv == barChanges = 0 => \A e \in Env : gated[e] => BarOf(e)

\* Nobody judged is forgotten, so what is cleared stays cleared.
LEMMA ClearedGrows ==
    ASSUME judged \subseteq judged', NEW e
    PROVE  /\ Cleared(e) \subseteq Cleared(e)'
           /\ \A hist \in Seq(Cleared(e)) : hist \in Seq(Cleared(e)')
<1>1. Cleared(e) \subseteq Cleared(e)'
  BY DEF Cleared, Initially
<1> QED BY <1>1, SeqMonotonic

LEMMA JudgedGrows == [Next]_vars => judged \subseteq judged'
<1> SUFFICES ASSUME [Next]_vars PROVE judged \subseteq judged'
  OBVIOUS
<1>1. CASE BuildNext
  BY <1>1 DEF BuildNext, Succeed, BuildFails, PromoteOrFlip, BuildPromotes, EnsureEnvironment,
     CreateEnvironment, BuildFlips, BuildRecords, BuildConflict, BuildSucceeded, ghosts
<1>2. CASE PromotionNext
  BY <1>2 DEF PromotionNext, Resolve, Evaluate, Fail, Settle, AlreadyThere, Apply,
     PromotionRecords, PromotionConflict, Chain, Applied, ghosts
<1>3. CASE RescanNext \/ PruneNext
  BY <1>3 DEF RescanNext, RollBackForExpiry, RollBack, RollbackRecords, RollbackDropped,
     PruneNext, ListEnvironments, ListReleases, DeleteRelease, ghosts
<1>4. CASE ApiNext
  BY <1>4 DEF ApiNext, PatchEnvironment, RequestPromotion, PointEnvironmentAt, PatchHistory,
     DeclareEnvironment, PatchRequirements, ghosts
<1>5. CASE (\E e \in Env : Observe(e)) \/ Drop
            \/ \E e \in Env, r \in Release : ExceptionExpires(e, r)
  BY <1>5 DEF Observe, Drop, ExceptionExpires, ghosts
<1> QED BY <1>1, <1>2, <1>3, <1>4, <1>5 DEF Next, vars, ghosts

\* Requirements change only by a request that is counted.
LEMMA GatedKept ==
    ASSUME TypeInv, [Next]_vars, barChanges' = 0
    PROVE  barChanges = 0 /\ gated' = gated
<1> USE DEF object, bounds, TypeInv, TypeOK
<1>1. CASE BuildNext
  BY <1>1 DEF BuildNext, Succeed, BuildFails, PromoteOrFlip, BuildPromotes, EnsureEnvironment,
     CreateEnvironment, BuildFlips, BuildRecords, BuildConflict, BuildSucceeded
<1>2. CASE PromotionNext
  BY <1>2 DEF PromotionNext, Resolve, Evaluate, Fail, Settle, AlreadyThere, Apply,
     PromotionRecords, PromotionConflict, Chain, Applied
<1>3. CASE RescanNext \/ PruneNext
  BY <1>3 DEF RescanNext, RollBackForExpiry, RollBack, RollbackRecords, RollbackDropped,
     PruneNext, ListEnvironments, ListReleases, DeleteRelease
<1>4. CASE ApiNext
  <2>1. barChanges \in Nat
    OBVIOUS
  <2> HIDE DEF TypeInv
  <2>2. CASE \E e \in Env, bar \in BOOLEAN : DeclareEnvironment(e, bar)
    BY <2>1, <2>2 DEF DeclareEnvironment
  <2>3. CASE \E e \in Env : PatchRequirements(e)
    BY <2>1, <2>3 DEF PatchRequirements
  <2>4. CASE \E u \in User, e \in Env, r \in Release : PatchEnvironment(u, e, r)
    BY <2>4 DEF PatchEnvironment
  <2>5. CASE \E e \in Env, r \in Release : RequestPromotion(e, r)
    BY <2>5 DEF RequestPromotion
  <2>6. CASE \E u \in User : PointEnvironmentAt(u) \/ PatchHistory(u)
    BY <2>6 DEF PointEnvironmentAt, PatchHistory
  <2> QED BY <1>4, <2>2, <2>3, <2>4, <2>5, <2>6 DEF ApiNext
<1>5. CASE (\E e \in Env : Observe(e)) \/ Drop
            \/ \E e \in Env, r \in Release : ExceptionExpires(e, r)
  BY <1>5 DEF Observe, Drop, ExceptionExpires
<1> QED BY <1>1, <1>2, <1>3, <1>4, <1>5 DEF Next, vars

LEMMA NoneCleared ==
    ASSUME NEW e \in Env
    PROVE  None \in Cleared(e) /\ Initially(e) \in Cleared(e)
  BY DeliveryAssumption DEF Cleared, Initially, Name

LEMMA BarInit == Init => BarInv
<1> SUFFICES ASSUME Init, NEW e \in Env, gated[e] PROVE BarOf(e)
  BY DEF BarInv
<1>1. exists[e]
  BY DeliveryAssumption DEF Init
<1>2. release[e] = Initially(e) /\ observed[e] = Initially(e) /\ history[e] = <<>>
  BY DEF Init
<1>3. <<>> \in Seq(Cleared(e))
  OBVIOUS
<1>4. bld.pc = "idle" /\ prm.out = None /\ rsc.rel = None /\ rsc.target = None
  BY DEF Init, NoBuild, Build, NoPromoting, Promoting, NoRollback, Rollback
<1>5. \A u \in User : usr[u].pc = "idle"
  BY DEF Init, NoRequest, Request
<1> QED BY <1>1, <1>2, <1>3, <1>4, <1>5, NoneCleared DEF BarOf

\* What a step leaves at e, against what was cleared before it.
Stays(e) ==
    /\ exists'[e] /\ release'[e] \in Cleared(e) /\ observed'[e] \in Cleared(e)
    /\ history'[e] \in Seq(Cleared(e))
    /\ bld'.pc \in {"ensure", "create", "flip", "history"} => e # Target
    /\ prm'.p[1] = e => prm'.out \in Cleared(e)
    /\ rsc'.env = e => rsc'.rel \in Cleared(e) /\ rsc'.target \in Cleared(e)
    /\ \A u \in User : usr'[u].pc # "idle" => usr'[u].env # e

LEMMA StaysBarred ==
    ASSUME judged \subseteq judged', NEW e \in Env, Stays(e)
    PROVE  BarOf(e)'
<1>1. Cleared(e) \subseteq Cleared(e)' /\ history'[e] \in Seq(Cleared(e)')
  BY ClearedGrows DEF Stays
<1> QED BY <1>1 DEF Stays, BarOf, Target

\* A build finds the bar and asks, or works on another environment.
LEMMA BuildBarred ==
    ASSUME TypeInv, JudgedInv, BuildNext, NEW e \in Env, gated[e], BarOf(e)
    PROVE  Stays(e)
<1>0. /\ exists \in [Env -> BOOLEAN] /\ release \in [Env -> Name]
      /\ observed \in [Env -> Name] /\ history \in [Env -> Seq(Release)]
      /\ usr \in [User -> ApiPass] /\ None \in Cleared(e)
  BY NoneCleared DEF TypeInv, TypeOK
<1> USE <1>0 DEF BarOf, Stays, object
<1>1. ASSUME NEW r \in Release, Succeed(r) PROVE Stays(e)
  BY <1>1 DEF Succeed, Build
<1>2. ASSUME NEW r \in Release, BuildFails(r) PROVE Stays(e)
  BY <1>2 DEF BuildFails, workers
<1>3. CASE PromoteOrFlip
  BY <1>3 DEF PromoteOrFlip, Door, Build
<1>4. CASE BuildPromotes
  BY <1>4 DEF BuildPromotes, Build
<1>5. CASE EnsureEnvironment
  BY <1>5 DEF EnsureEnvironment, Build
<1>6. CASE CreateEnvironment
  BY <1>6 DEF CreateEnvironment, MoveTo, Build
<1>7. CASE BuildFlips
  BY <1>7 DEF BuildFlips, MoveTo, Build
<1>8. CASE BuildRecords
  BY <1>8 DEF BuildRecords, WriteHistory, Build
<1>9. CASE BuildConflict
  BY <1>9 DEF BuildConflict, NoBuild, Build
<1>10. CASE BuildSucceeded
  BY <1>10 DEF BuildSucceeded, NoBuild, Build
<1> QED BY <1>1, <1>2, <1>3, <1>4, <1>5, <1>6, <1>7, <1>8, <1>9, <1>10 DEF BuildNext

\* A promotion moves what was judged.
LEMMA PromotionBarred ==
    ASSUME TypeInv, JudgedInv, PromotionNext, NEW e \in Env, gated[e], BarOf(e)
    PROVE  Stays(e)
<1>0. /\ exists \in [Env -> BOOLEAN] /\ release \in [Env -> Name]
      /\ observed \in [Env -> Name] /\ history \in [Env -> Seq(Release)]
      /\ usr \in [User -> ApiPass] /\ None \in Cleared(e)
  BY NoneCleared DEF TypeInv, TypeOK
<1> USE <1>0 DEF BarOf, Stays, object
<1>1. ASSUME NEW p \in Promotion, Resolve(p) PROVE Stays(e)
  BY <1>1 DEF Resolve, Promoting
<1>2. CASE Evaluate
  BY <1>2 DEF Evaluate, Promoting
<1>3. CASE Fail
  BY <1>3 DEF Fail, NoPromoting, Promoting
<1>4. CASE Settle
  BY <1>4 DEF Settle, NoPromoting, Promoting
<1>5. CASE AlreadyThere
  BY <1>5 DEF AlreadyThere, Promoting
<1>6. CASE Apply
  <2>1. prm.p \in judged /\ prm.p \in Promotion
    BY <1>6 DEF Apply, JudgedInv, JudgedTypes, Vouched
  <2>2. prm.p[1] = e => prm.p[2] \in Cleared(e)
    BY <2>1 DEF Cleared, Promotion, Name
  <2> QED BY <1>6, <2>2 DEF Apply, MoveTo, Promoting
<1>7. CASE PromotionRecords
  <2>1. prm.p[1] = e => Recorded(history[e], prm.out) \in Seq(Cleared(e))
    BY RecordedIn
  <2> QED BY <1>7, <2>1 DEF PromotionRecords, WriteHistory, Promoting
<1>8. CASE PromotionConflict
  BY <1>8 DEF PromotionConflict, NoPromoting, Promoting
<1>9. CASE Chain
  BY <1>9 DEF Chain, Promoting
<1>10. CASE Applied
  BY <1>10 DEF Applied, NoPromoting, Promoting
<1> QED BY <1>1, <1>2, <1>3, <1>4, <1>5, <1>6, <1>7, <1>8, <1>9, <1>10 DEF PromotionNext

\* A rollback goes back to what was there.
LEMMA RescanBarred ==
    ASSUME TypeInv, JudgedInv, RescanNext, NEW e \in Env, gated[e], BarOf(e)
    PROVE  Stays(e)
<1>0. /\ exists \in [Env -> BOOLEAN] /\ release \in [Env -> Name]
      /\ observed \in [Env -> Name] /\ history \in [Env -> Seq(Release)]
      /\ usr \in [User -> ApiPass] /\ None \in Cleared(e)
  BY NoneCleared DEF TypeInv, TypeOK
<1> USE <1>0 DEF BarOf, Stays, object
<1>1. ASSUME NEW d \in Env, RollBackForExpiry(d) PROVE Stays(e)
  <2>1. RollbackTarget(history[e], release[e]) \in Cleared(e)
    BY TargetIn DEF Cleared
  <2> QED BY <1>1, <2>1 DEF RollBackForExpiry, Rollback
<1>2. CASE RollBack
  BY <1>2 DEF RollBack, MoveTo, NoRollback, Rollback
<1>3. CASE RollbackRecords
  <2>1. rsc.env = e => Recorded(history[e], rsc.rel) \in Seq(Cleared(e))
    BY RecordedIn
  <2> QED BY <1>3, <2>1 DEF RollbackRecords, WriteHistory, NoRollback, Rollback
<1>4. CASE RollbackDropped
  BY <1>4 DEF RollbackDropped, NoRollback, Rollback
<1> QED BY <1>1, <1>2, <1>3, <1>4 DEF RescanNext

\* A request moves only what has no requirements.
LEMMA ApiBarred ==
    ASSUME TypeInv, JudgedInv, ApiNext, NEW e \in Env, gated[e], BarOf(e)
    PROVE  Stays(e)
<1>0. /\ exists \in [Env -> BOOLEAN] /\ release \in [Env -> Name]
      /\ observed \in [Env -> Name] /\ history \in [Env -> Seq(Release)]
      /\ usr \in [User -> ApiPass] /\ None \in Cleared(e)
  BY NoneCleared DEF TypeInv, TypeOK
<1> USE <1>0 DEF BarOf, Stays, object
<1>1. ASSUME NEW u \in User, NEW d \in Env, NEW r \in Release, PatchEnvironment(u, d, r) PROVE Stays(e)
  BY <1>1 DEF PatchEnvironment, Request
<1>2. ASSUME NEW d \in Env, NEW r \in Release, RequestPromotion(d, r) PROVE Stays(e)
  BY <1>2 DEF RequestPromotion, workers
<1>3. ASSUME NEW u \in User, PointEnvironmentAt(u) PROVE Stays(e)
  <2>1. usr[u].env # e
    BY <1>3 DEF PointEnvironmentAt
  <2>2. release'[e] = release[e] /\ \A v \in User : usr'[v].pc # "idle" => usr'[v].env # e
    BY <1>3, <2>1 DEF PointEnvironmentAt, MoveTo, NoRequest, Request
  <2> QED BY <1>3, <2>2 DEF PointEnvironmentAt
<1>4. ASSUME NEW u \in User, PatchHistory(u) PROVE Stays(e)
  BY <1>4 DEF PatchHistory, NoRequest, Request
<1>5. ASSUME NEW d \in Env, NEW bar \in BOOLEAN, DeclareEnvironment(d, bar) PROVE Stays(e)
  BY <1>5 DEF DeclareEnvironment, workers
<1>6. ASSUME NEW d \in Env, PatchRequirements(d) PROVE Stays(e)
  BY <1>6 DEF PatchRequirements, workers
<1> QED BY <1>1, <1>2, <1>3, <1>4, <1>5, <1>6 DEF ApiNext

LEMMA BarStep == TypeInv /\ JudgedInv /\ BarInv /\ [Next]_vars => BarInv'
<1> SUFFICES ASSUME TypeInv, JudgedInv, BarInv, [Next]_vars, barChanges' = 0,
                    NEW e \in Env, gated'[e]
             PROVE  BarOf(e)'
  BY DEF BarInv
<1>1. gated' = gated /\ judged \subseteq judged' /\ JudgedInv' /\ BarOf(e) /\ gated[e]
  BY GatedKept, JudgedGrows, JudgedNext DEF BarInv
<1>2. CASE PruneNext
  BY <1>1, <1>2, StaysBarred
     DEF Stays, PruneNext, ListEnvironments, ListReleases, DeleteRelease, BarOf, object
<1>3. ASSUME NEW d \in Env, Observe(d) PROVE BarOf(e)'
  <2>1. history'[e] \in Seq(Cleared(e)) /\ observed'[e] \in Cleared(e)
    BY <1>1, <1>3, RecordedIn DEF Observe, RecordUnrecorded, BarOf, TypeInv, TypeOK
  <2> QED BY <1>1, <1>3, <2>1, StaysBarred DEF Stays, Observe, workers, BarOf
<1>4. ASSUME NEW d \in Env, NEW r \in Release, ExceptionExpires(d, r) PROVE BarOf(e)'
  BY <1>1, <1>4, StaysBarred DEF Stays, ExceptionExpires, object, workers, BarOf
<1>5. CASE Drop
  <2>1. None \in Cleared(e)
    BY NoneCleared
  <2>2. UNCHANGED object
    BY <1>5 DEF Drop
  <2>3. bld' \in {bld, NoBuild} /\ NoBuild.pc = "idle"
    BY <1>5 DEF Drop, NoBuild, Build
  <2>4. prm' \in {prm, NoPromoting} /\ NoPromoting.out = None
    BY <1>5 DEF Drop, NoPromoting, Promoting
  <2>5. rsc' \in {rsc, NoRollback} /\ NoRollback.rel = None /\ NoRollback.target = None
    BY <1>5 DEF Drop, NoRollback, Rollback
  <2>6. \A u \in User : usr'[u] \in {usr[u], NoRequest} /\ NoRequest.pc = "idle"
    BY <1>5 DEF Drop, NoRequest, Request, TypeInv, TypeOK
  <2>7. Stays(e)
    BY <1>1, <2>1, <2>2, <2>3, <2>4, <2>5, <2>6 DEF Stays, BarOf, object
  <2> QED BY <1>1, <2>7, StaysBarred
<1>6. CASE UNCHANGED vars
  BY <1>1, <1>6, StaysBarred DEF Stays, vars, object, workers, BarOf
<1> QED BY <1>1, <1>2, <1>3, <1>4, <1>5, <1>6, BuildBarred, PromotionBarred, RescanBarred, ApiBarred,
        StaysBarred
        DEF Next

\* BarHolds, for every instance: patchEnvironment, promoteOrFlip, apply and rollBack
\* all keep the bar, through dropped passes, stale reads and expired exceptions.
THEOREM OneDoor == Spec => []BarHolds
<1>1. BarInv => BarHolds
  BY DEF BarInv, BarOf, BarHolds, Cleared
<1> QED BY <1>1, InitTyped, JudgedInit, BarInit, TypeStep, JudgedNext, BarStep, PTL DEF Spec

-----------------------------------------------------------------------------
(* What was served                                                         *)

\* Neither property is inductive without what a pass has seen served, and without
\* the promotion it works on existing.
Served ==
    /\ \A e \in Env : release[e] \in served[e] \cup {None}
    /\ prm.out \in served[prm.p[1]] \cup {None}
    /\ prm.pc \in {"history", "next", "applied"} => prm.p[2] \in served[prm.p[1]]
    /\ prm.pc # "idle" => promotion[prm.p] # "none"
    /\ prm.pc = "settle" => prm.verdict # "none"
    /\ AppliedWasServed /\ StagesInOrder

\* Every release an environment is pointed at is remembered.
LEMMA ServedGrows ==
    ASSUME TypeInv, Served, [Next]_vars
    PROVE  \A e \in Env : /\ served[e] \subseteq served'[e]
                          /\ release'[e] \in served'[e] \cup {None}
<1>1. ASSUME NEW d, NEW r, MoveTo(d, r)
      PROVE  \A e \in Env : /\ served[e] \subseteq served'[e]
                            /\ release'[e] \in served'[e] \cup {None}
  BY <1>1 DEF MoveTo, Served, TypeInv, TypeOK
<1>2. CASE UNCHANGED <<release, served>>
  BY <1>2 DEF Served
<1>3. CASE BuildNext
  BY <1>1, <1>2, <1>3 DEF BuildNext, Succeed, BuildFails, PromoteOrFlip, BuildPromotes,
     EnsureEnvironment, CreateEnvironment, BuildFlips, BuildRecords, BuildConflict,
     BuildSucceeded, object, ghosts
<1>4. CASE PromotionNext
  BY <1>1, <1>2, <1>4 DEF PromotionNext, Resolve, Evaluate, Fail, Settle, AlreadyThere, Apply,
     PromotionRecords, PromotionConflict, Chain, Applied, object, ghosts
<1>5. CASE RescanNext \/ PruneNext
  BY <1>1, <1>2, <1>5 DEF RescanNext, RollBackForExpiry, RollBack, RollbackRecords,
     RollbackDropped, PruneNext, ListEnvironments, ListReleases, DeleteRelease, object, ghosts
<1>6. CASE ApiNext
  BY <1>1, <1>2, <1>6 DEF ApiNext, PatchEnvironment, RequestPromotion, PointEnvironmentAt,
     PatchHistory, DeclareEnvironment, PatchRequirements, object, ghosts
<1>7. CASE (\E e \in Env : Observe(e)) \/ Drop
            \/ \E e \in Env, r \in Release : ExceptionExpires(e, r)
  BY <1>2, <1>7 DEF Observe, Drop, ExceptionExpires, object, ghosts
<1> QED BY <1>2, <1>3, <1>4, <1>5, <1>6, <1>7 DEF Next, vars, object, ghosts

\* A step that neither applies a promotion nor creates an automatic one for a
\* later stage.
LEMMA ServedKept ==
    ASSUME TypeInv, Served,
           \A e \in Env : served[e] \subseteq served'[e] /\ release'[e] \in served'[e] \cup {None},
           UNCHANGED prm \/ prm' = NoPromoting,
           \A p \in Promotion : promotion'[p] = "Applied" => promotion[p] = "Applied",
           \A p \in Promotion : promotion[p] # "none" => promotion'[p] # "none",
           \A i \in 1..(Len(Stages) - 1), r \in Release :
               promotion'[<<Stages[i + 1], r, "automatic">>] # "none" =>
                   promotion[<<Stages[i + 1], r, "automatic">>] # "none"
    PROVE  Served'
<1>1. \A i \in 1..(Len(Stages) - 1) : Stages[i] \in Env
  BY StagesFacts
<1>2. StagesInOrder' /\ AppliedWasServed'
  BY <1>1 DEF Served, StagesInOrder, AppliedWasServed, Promotion
<1>3. CASE UNCHANGED prm
  BY <1>2, <1>3 DEF Served, TypeInv, TypeOK, Named, PromotionPass
<1>4. CASE prm' = NoPromoting
  BY <1>2, <1>4 DEF Served, NoPromoting, Promoting
<1> QED BY <1>3, <1>4

LEMMA ServedInit == Init => Served
<1> SUFFICES ASSUME Init PROVE Served
  OBVIOUS
<1>1. \A e \in Env : release[e] \in served[e] \cup {None}
  BY DEF Init
<1>2. prm.out = None /\ prm.pc = "idle"
  BY DEF Init, NoPromoting, Promoting
<1>3. \A p \in Promotion : promotion[p] = "none"
  BY DEF Init
<1>4. AppliedWasServed
  BY <1>3 DEF AppliedWasServed
<1>5. StagesInOrder
  BY <1>3, StagesFacts DEF StagesInOrder, Promotion
<1> QED BY <1>1, <1>2, <1>4, <1>5 DEF Served

\* The same for a step of the promotion reconciler, with what it must leave behind.
LEMMA ServedMoved ==
    ASSUME TypeInv, Served,
           \A e \in Env : served[e] \subseteq served'[e] /\ release'[e] \in served'[e] \cup {None},
           prm'.p = prm.p, prm'.out \in served'[prm.p[1]] \cup {None},
           prm'.pc \in {"history", "next", "applied"} => prm.p[2] \in served'[prm.p[1]],
           prm'.pc # "settle",
           promotion' = promotion \/ promotion' = [promotion EXCEPT ![prm.p] = prm.verdict],
           prm.pc \notin {"idle", "settle"} => promotion' = promotion,
           prm.pc # "idle", prm.verdict # "Applied"
    PROVE  Served'
<1>1. \A p \in Promotion : promotion'[p] = "Applied" => promotion[p] = "Applied"
  BY DEF TypeInv, TypeOK, Named
<1>2. \A p \in Promotion : promotion[p] # "none" => promotion'[p] # "none"
  BY DEF Served, TypeInv, TypeOK, Named
<1>3. \A p \in Promotion : promotion'[p] # "none" => promotion[p] # "none"
  BY DEF Served, TypeInv, TypeOK, Named
<1>4. StagesInOrder'
  BY <1>3, StagesFacts DEF Served, StagesInOrder, Promotion
<1>5. AppliedWasServed'
  BY <1>1 DEF Served, AppliedWasServed, Promotion
<1>6. prm.p \in Promotion
  BY DEF TypeInv, Named
<1> QED BY <1>2, <1>4, <1>5, <1>6 DEF Served

LEMMA ServedPromotion ==
    ASSUME TypeInv, Served, PromotionNext, [Next]_vars
    PROVE  Served'
<1> USE ServedGrows
<1> DEFINE p == prm.p
<1>0. /\ prm.pc # "idle" => p \in Promotion /\ p[1] \in Env /\ p[2] \in Release
      /\ promotion \in [Promotion -> Phase]
      /\ prm.verdict \in {"none", "Allowed", "AllowedWithException", "Blocked"}
  BY DEF TypeInv, TypeOK, Named, PromotionPass, Promotion
<1>1. ASSUME NEW q \in Promotion, Resolve(q) PROVE Served'
  <2>1. prm'.pc \in {"fail", "apply", "evaluate"} /\ prm'.p = q /\ prm'.out = release[q[1]]
          /\ UNCHANGED <<promotion, served>> /\ promotion[q] # "none" /\ q[1] \in Env
    BY <1>1 DEF Resolve, Entry, Promoting, records, ghosts, Open, Promotion
  <2>2. StagesInOrder' /\ AppliedWasServed'
    BY <2>1 DEF Served, StagesInOrder, AppliedWasServed
  <2> QED BY <2>1, <2>2 DEF Served
<1>2. CASE Evaluate
  <2>1. prm.pc = "evaluate" /\ promotion' = [promotion EXCEPT ![p] = "Evaluating"]
          /\ prm'.p = p /\ prm'.out = prm.out /\ prm'.pc \in {"fail", "settle"}
          /\ prm'.verdict # "none" /\ UNCHANGED served
    BY <1>2 DEF Evaluate, Verdict, Promoting, ghosts
  <2>2. \A q \in Promotion : /\ promotion'[q] = "Applied" => promotion[q] = "Applied"
                             /\ promotion'[q] # "none" => promotion[q] # "none"
    BY <1>0, <2>1 DEF Served
  <2>3. StagesInOrder' /\ AppliedWasServed'
    BY <2>1, <2>2, StagesFacts DEF Served, StagesInOrder, AppliedWasServed, Promotion
  <2> QED BY <1>0, <2>1, <2>3 DEF Served
<1>3. CASE Fail
  <2>1. prm.pc = "fail" /\ promotion' = [promotion EXCEPT ![p] = "Failed"] /\ prm' = NoPromoting
    BY <1>3 DEF Fail
  <2>2. \A q \in Promotion : /\ promotion'[q] = "Applied" => promotion[q] = "Applied"
                             /\ promotion'[q] # "none" => promotion[q] # "none"
                             /\ promotion[q] # "none" => promotion'[q] # "none"
    BY <1>0, <2>1 DEF Served
  <2> QED BY <2>1, <2>2, ServedKept, StagesFacts DEF Promotion
<1>4. CASE Settle
  <2>1. prm.pc = "settle" /\ promotion' = [promotion EXCEPT ![p] = prm.verdict] /\ UNCHANGED served
    BY <1>4 DEF Settle
  <2>2. \A q \in Promotion : /\ promotion'[q] = "Applied" => promotion[q] = "Applied"
                             /\ promotion'[q] # "none" => promotion[q] # "none"
                             /\ promotion[q] # "none" => promotion'[q] # "none"
    BY <1>0, <2>1 DEF Served
  <2>3. CASE prm.verdict = "Blocked"
    BY <1>4, <2>2, <2>3, ServedKept, StagesFacts DEF Settle, Promotion
  <2>4. CASE prm.verdict # "Blocked"
    <3>1. prm'.p = p /\ prm'.out = prm.out /\ prm'.pc = "apply"
      BY <1>4, <2>4 DEF Settle, Promoting
    <3> QED BY <1>0, <2>1, <3>1, ServedMoved DEF Served
  <2> QED BY <2>3, <2>4
<1>5. CASE AlreadyThere
  <2>1. prm.pc = "apply" /\ prm.out = p[2] /\ prm'.p = p /\ prm'.out = None /\ prm'.pc = "next"
          /\ UNCHANGED <<promotion, served>>
    BY <1>5 DEF AlreadyThere, Promoting, records, ghosts
  <2>2. p[2] \in served[p[1]]
    BY <1>0, <2>1, Names DEF Served
  <2> QED BY <1>0, <2>1, <2>2, ServedMoved
<1>6. CASE Apply
  <2>1. prm.pc = "apply" /\ prm'.p = p /\ prm'.out = prm.out /\ prm'.pc \in {"history", "next"}
          /\ UNCHANGED promotion /\ served' = [served EXCEPT ![p[1]] = @ \cup {p[2]}]
    BY <1>6 DEF Apply, MoveTo, Promoting, records
  <2>2. p[2] \in served'[p[1]] /\ prm.out \in served'[p[1]] \cup {None}
    BY <1>0, <2>1 DEF Served, TypeInv, TypeOK
  <2> QED BY <1>0, <2>1, <2>2, ServedMoved
<1>7. CASE PromotionRecords
  <2>1. prm.pc = "history" /\ prm'.p = p /\ prm'.out = None /\ prm'.pc = "next"
          /\ UNCHANGED <<promotion, served>>
    BY <1>7 DEF PromotionRecords, Promoting, records, ghosts
  <2>2. p[2] \in served[p[1]]
    BY <2>1 DEF Served
  <2> QED BY <1>0, <2>1, <2>2, ServedMoved
<1>8. CASE PromotionConflict
  <2>1. prm' = NoPromoting /\ UNCHANGED promotion
    BY <1>8 DEF PromotionConflict, records
  <2> QED BY <2>1, ServedKept
<1>9. CASE Chain
  <2>1. prm.pc = "next" /\ prm'.p = p /\ prm'.out = None /\ prm'.pc = "applied" /\ UNCHANGED served
    BY <1>9 DEF Chain, Promoting, ghosts
  <2>2. p[2] \in served[p[1]]
    BY <2>1 DEF Served
  <2>3. \A q \in Promotion :
           \/ promotion'[q] = promotion[q]
           \/ /\ promotion'[q] = "Pending" /\ promotion[q] = "none"
              /\ q[1] \in Chained(p[1]) /\ q[2] = p[2]
    BY <1>9 DEF Chain
  <2>4. ASSUME NEW i \in 1..(Len(Stages) - 1), NEW r \in Release,
               promotion'[<<Stages[i + 1], r, "automatic">>] # "none"
        PROVE  r \in served'[Stages[i]]
    <3> DEFINE q == <<Stages[i + 1], r, "automatic">>
    <3>1. q \in Promotion
      BY StagesFacts DEF Promotion
    <3>2. CASE promotion'[q] = promotion[q]
      BY <2>1, <2>4, <3>2 DEF Served, StagesInOrder
    <3>3. CASE Stages[i + 1] \in Chained(p[1]) /\ r = p[2]
      <4>1. PICK j \in 1..(Len(Stages) - 1) : Stages[j] = p[1] /\ Stages[i + 1] = Stages[j + 1]
        BY <3>3 DEF Chained
      <4>2. i = j
        BY <4>1, StagesFacts
      <4> QED BY <2>1, <2>2, <3>3, <4>1, <4>2
    <3> QED BY <2>3, <3>1, <3>2, <3>3
  <2>5. AppliedWasServed'
    BY <2>1, <2>3 DEF Served, AppliedWasServed
  <2>6. promotion'[p] # "none"
    BY <1>0, <2>1, <2>3 DEF Served
  <2> QED BY <1>0, <2>1, <2>2, <2>4, <2>5, <2>6 DEF Served, StagesInOrder
<1>10. CASE Applied
  <2>1. prm.pc = "applied" /\ promotion' = [promotion EXCEPT ![p] = "Applied"]
          /\ prm' = NoPromoting /\ UNCHANGED served
    BY <1>10 DEF Applied, ghosts
  <2>2. p[2] \in served[p[1]] /\ promotion[p] # "none"
    BY <2>1 DEF Served
  <2>3. AppliedWasServed'
    BY <1>0, <2>1, <2>2 DEF Served, AppliedWasServed
  <2>4. \A q \in Promotion : promotion'[q] # "none" => promotion[q] # "none"
    BY <1>0, <2>1, <2>2
  <2>5. StagesInOrder'
    BY <2>1, <2>4, StagesFacts DEF Served, StagesInOrder, Promotion
  <2> QED BY <2>1, <2>3, <2>5 DEF Served, NoPromoting, Promoting
<1> QED BY <1>1, <1>2, <1>3, <1>4, <1>5, <1>6, <1>7, <1>8, <1>9, <1>10 DEF PromotionNext

\* Every other actor leaves the promotions alone, or adds one that no stage after
\* another enters on its own.
LEMMA ServedStep == TypeInv /\ Served /\ [Next]_vars => Served'
<1> SUFFICES ASSUME TypeInv, Served, [Next]_vars PROVE Served'
  OBVIOUS
<1>1. \A e \in Env : served[e] \subseteq served'[e] /\ release'[e] \in served'[e] \cup {None}
  BY ServedGrows
<1>2. CASE UNCHANGED promotion /\ (UNCHANGED prm \/ prm' = NoPromoting)
  BY <1>1, <1>2, ServedKept
<1>3. CASE PromotionNext
  BY <1>3, ServedPromotion
<1>4. CASE BuildNext
  <2>1. CASE BuildPromotes
    <3>1. promotion' = [promotion EXCEPT ![<<Target, bld.rel, "automatic">>] =
                            IF @ = "none" THEN "Pending" ELSE @] /\ UNCHANGED prm
      BY <2>1 DEF BuildPromotes, CreatePromotion
    <3>2. /\ \A p \in Promotion : promotion'[p] = "Applied" => promotion[p] = "Applied"
          /\ \A p \in Promotion : promotion[p] # "none" => promotion'[p] # "none"
      BY <3>1 DEF TypeInv, TypeOK
    <3>3. \A i \in 1..(Len(Stages) - 1), r \in Release :
             promotion'[<<Stages[i + 1], r, "automatic">>] =
                 promotion[<<Stages[i + 1], r, "automatic">>]
      BY <3>1, StagesFacts DEF TypeInv, TypeOK
    <3> QED BY <1>1, <3>1, <3>2, <3>3, ServedKept
  <2>2. CASE ~BuildPromotes
    <3>1. UNCHANGED promotion
      BY <1>4, <2>2 DEF BuildNext, Succeed, BuildFails, PromoteOrFlip, EnsureEnvironment,
         CreateEnvironment, BuildFlips, BuildRecords, BuildConflict, BuildSucceeded, records
    <3>2. UNCHANGED prm
      BY <1>4, <2>2 DEF BuildNext, Succeed, BuildFails, PromoteOrFlip, EnsureEnvironment,
         CreateEnvironment, BuildFlips, BuildRecords, BuildConflict, BuildSucceeded, workers
    <3> QED BY <1>2, <3>1, <3>2
  <2> QED BY <2>1, <2>2
<1>5. CASE RescanNext \/ PruneNext
  BY <1>2, <1>5 DEF RescanNext, RollBackForExpiry, RollBack, RollbackRecords, RollbackDropped,
     PruneNext, ListEnvironments, ListReleases, DeleteRelease, records
<1>6. CASE ApiNext
  <2>1. ASSUME NEW e \in Env, NEW r \in Release, RequestPromotion(e, r) PROVE Served'
    <3>1. promotion' = [promotion EXCEPT ![<<e, r, "manual">>] = "Pending"]
            /\ promotion[<<e, r, "manual">>] = "none" /\ UNCHANGED prm
      BY <2>1 DEF RequestPromotion, workers
    <3>2. /\ \A p \in Promotion : promotion'[p] = "Applied" => promotion[p] = "Applied"
          /\ \A p \in Promotion : promotion[p] # "none" => promotion'[p] # "none"
      BY <3>1 DEF TypeInv, TypeOK
    <3>3. \A i \in 1..(Len(Stages) - 1), s \in Release :
             promotion'[<<Stages[i + 1], s, "automatic">>] =
                 promotion[<<Stages[i + 1], s, "automatic">>]
      BY <3>1, StagesFacts DEF TypeInv, TypeOK
    <3> QED BY <1>1, <3>1, <3>2, <3>3, ServedKept
  <2>2. CASE ~\E e \in Env, r \in Release : RequestPromotion(e, r)
    BY <1>2, <1>6, <2>2 DEF ApiNext, PatchEnvironment, PointEnvironmentAt, PatchHistory,
       DeclareEnvironment, PatchRequirements, records, workers
  <2> QED BY <2>1, <2>2
<1>7. CASE (\E e \in Env : Observe(e)) \/ Drop
            \/ \E e \in Env, r \in Release : ExceptionExpires(e, r)
  BY <1>2, <1>7 DEF Observe, Drop, ExceptionExpires, records, workers
<1>8. CASE UNCHANGED vars
  BY <1>2, <1>8 DEF vars, records, workers
<1> QED BY <1>3, <1>4, <1>5, <1>6, <1>7, <1>8 DEF Next

\* AppliedWasServed, for every instance: apply is never taken for done while the
\* environment was not moved, across refused writes, dropped passes and re-entries.
THEOREM AppliedMeansServed == Spec => []AppliedWasServed
<1>1. Served => AppliedWasServed
  BY DEF Served
<1> QED BY <1>1, InitTyped, ServedInit, TypeStep, ServedStep, PTL DEF Spec

\* StagesInOrder, for every instance: chainNext and promoteOrFlip never let a release
\* into a later stage that the stage before it has not served.
THEOREM ClimbedInOrder == Spec => []StagesInOrder
<1>1. Served => StagesInOrder
  BY DEF Served
<1> QED BY <1>1, InitTyped, ServedInit, TypeStep, ServedStep, PTL DEF Spec

-----------------------------------------------------------------------------
(***************************************************************************)
(* Pruning                                                                 *)
(***************************************************************************)

\* The releases stand in the order they were created in.
Line ==
    /\ releases \subseteq Release /\ IsFiniteSet(releases)
    /\ newer \in [Release -> SUBSET releases]
    /\ \A r \in Release : r \notin newer[r]
    /\ \A r \in Release : \A s \in newer[r] : newer[s] \subseteq newer[r]

\* Of what is to be deleted, each leaves enough newer releases that are not.
Outnumbered ==
    /\ prn.victims \subseteq releases
    /\ \A v \in prn.victims : Cardinality(newer[v] \ prn.victims) >= Retention

PruneInv == Line /\ Outnumbered

\* The newest of those outgrown has enough newer ones, and none of them is outgrown.
LEMMA OutgrownOutnumbered ==
    ASSUME Line, NEW refs, NEW v \in Outgrown(refs)
    PROVE  Cardinality(newer[v] \ Outgrown(refs)) >= Retention
<1> DEFINE V == Outgrown(refs)
           W == V \cap ({v} \cup newer[v])
           T == {newer[w] : w \in W}
<1>1. /\ V \subseteq Release /\ v \in V
      /\ \A w \in V : Cardinality(newer[w]) >= Retention
      /\ IsFiniteSet(releases)
  BY DEF Outgrown, Line
<1>2. \A w \in W : newer[w] \subseteq newer[v] /\ w \in Release
  BY <1>1 DEF Line
<1>3. PICK t \in T : \A u \in T : ~(u \subseteq t /\ u # t)
  <2> DEFINE R == StrictSubsetOrdering(releases)
  <2>1. T \subseteq FiniteSubsetsOf(releases) /\ T \subseteq SUBSET releases
    <3>1. \A w \in W : newer[w] \in SUBSET releases
      BY <1>2 DEF Line
    <3> QED BY <1>1, <3>1, FS_FiniteSubsetsOfFinite
  <2>2. newer[v] \in T /\ T # {}
    BY <1>1
  <2>3. IsWellFoundedOn(R, FiniteSubsetsOf(releases))
    BY FS_StrictSubsetOrderingWellFounded
  <2>4. \A u, t \in SUBSET releases : u \subseteq t /\ u # t => <<u, t>> \in R
    BY DEF StrictSubsetOrdering
  <2> HIDE DEF T, R
  <2>5. \E t \in T : \A u \in T : ~(<<u, t>> \in R)
    BY <2>1, <2>2, <2>3, WFMin
  <2> QED BY <2>1, <2>4, <2>5
<1>4. PICK w \in W : t = newer[w]
  BY <1>3
<1>5. newer[w] \cap V = {}
  <2> SUFFICES ASSUME NEW x \in newer[w], x \in V PROVE FALSE
    OBVIOUS
  <2>1. x \in W
    BY <1>2
  <2>2. newer[x] \subseteq newer[w] /\ newer[x] # newer[w]
    BY <1>1, <1>2, <2>1 DEF Line
  <2> QED BY <1>3, <1>4, <2>1, <2>2
<1>6. newer[w] \subseteq newer[v] \ V
  BY <1>2, <1>5
<1> HIDE DEF V, W
<1>7. IsFiniteSet(newer[v] \ V)
  <2>1. newer[v] \ V \in SUBSET releases
    BY <1>1 DEF Line
  <2> QED BY <1>1, <2>1, FS_Subset
<1>8. /\ IsFiniteSet(newer[w]) /\ Cardinality(newer[w]) <= Cardinality(newer[v] \ V)
  BY <1>6, <1>7, FS_Subset
<1>9. Cardinality(newer[w]) >= Retention
  BY <1>1 DEF W
<1>10. /\ Cardinality(newer[w]) \in Nat /\ Cardinality(newer[v] \ V) \in Nat /\ Retention \in Nat
  BY <1>7, <1>8, FS_CardinalityType, DeliveryAssumption
<1> QED BY <1>8, <1>9, <1>10 DEF V

LEMMA PruneInit == Init => PruneInv
<1> SUFFICES ASSUME Init PROVE PruneInv
  OBVIOUS
<1>1. releases \subseteq {FirstRelease} /\ releases \subseteq Release
  BY DeliveryAssumption DEF Init
<1>2. IsFiniteSet(releases)
  BY <1>1, FS_Singleton, FS_Subset
<1>3. prn.victims = {}
  BY DEF Init, NoPrune, Prune
<1> QED BY <1>1, <1>2, <1>3 DEF Init, PruneInv, Line, Outnumbered

\* A release is created behind nobody: what is to be deleted only gets further behind.
LEMMA PruneSucceed ==
    ASSUME PruneInv, NEW r \in Release, CreateRelease(r), prn' = prn
    PROVE  PruneInv'
<1>1. CASE Exists(r)
  <2>1. releases' = releases /\ newer' = newer
    BY <1>1 DEF CreateRelease, Exists
  <2> QED BY <2>1 DEF PruneInv, Line, Outnumbered
<1>2. CASE ~Exists(r)
  <2>1. /\ releases' = releases \cup {r} /\ r \notin releases
        /\ \A s \in Release : newer'[s] = IF s \in releases THEN newer[s] \cup {r} ELSE {}
        /\ newer' \in [Release -> SUBSET releases']
    BY <1>2 DEF CreateRelease, Exists, PruneInv, Line
  <2>2. IsFiniteSet(releases')
    BY <2>1, FS_AddElement DEF PruneInv, Line
  <2>3. \A s \in Release : s \notin newer'[s]
    BY <2>1 DEF PruneInv, Line
  <2>4. \A s \in Release : \A t \in newer'[s] : newer'[t] \subseteq newer'[s]
    BY <2>1 DEF PruneInv, Line
  <2>5. Line'
    BY <2>1, <2>2, <2>3, <2>4 DEF PruneInv, Line
  <2>6. ASSUME NEW v \in prn.victims PROVE Cardinality(newer'[v] \ prn.victims) >= Retention
    <3>1. /\ v \in Release /\ v \in releases /\ r \notin prn.victims /\ r \notin newer[v]
          /\ newer[v] \subseteq releases
      BY <2>1 DEF PruneInv, Line, Outnumbered
    <3>2. newer'[v] \ prn.victims = (newer[v] \ prn.victims) \cup {r}
      BY <2>1, <3>1
    <3>3. IsFiniteSet(newer[v] \ prn.victims)
      <4>1. newer[v] \ prn.victims \in SUBSET releases
        BY <3>1
      <4> QED BY <4>1, FS_Subset DEF PruneInv, Line
    <3>4. Cardinality(newer'[v] \ prn.victims) = Cardinality(newer[v] \ prn.victims) + 1
      BY <3>1, <3>2, <3>3, FS_AddElement
    <3>5. Cardinality(newer[v] \ prn.victims) >= Retention
      BY DEF PruneInv, Outnumbered
    <3> QED BY <3>3, <3>4, <3>5, FS_CardinalityType, DeliveryAssumption
  <2> QED BY <2>1, <2>5, <2>6 DEF PruneInv, Outnumbered
<1> QED BY <1>1, <1>2

\* One delete takes a release and its place among those to be deleted.
LEMMA PruneDelete ==
    ASSUME PruneInv, NEW r \in Release, DeleteRelease(r)
    PROVE  PruneInv'
<1>1. /\ r \in prn.victims /\ releases' = releases \ {r} /\ prn.victims \subseteq releases
      /\ \A s \in Release : newer'[s] = IF s = r THEN {} ELSE newer[s] \ {r}
      /\ newer' \in [Release -> SUBSET releases']
  BY DEF DeleteRelease, PruneInv, Line, Outnumbered
<1>2. prn'.victims = prn.victims \ {r}
  BY DEF DeleteRelease, NoPrune, Prune
<1>3. Line'
  <2>1. IsFiniteSet(releases')
    BY <1>1, FS_RemoveElement DEF PruneInv, Line
  <2>2. \A s \in Release : \A t \in newer'[s] : newer'[t] \subseteq newer'[s]
    BY <1>1 DEF PruneInv, Line
  <2> QED BY <1>1, <2>1, <2>2 DEF PruneInv, Line
<1>4. ASSUME NEW v \in prn'.victims PROVE Cardinality(newer'[v] \ prn'.victims) >= Retention
  <2>1. v \in Release /\ v # r /\ v \in prn.victims
    BY <1>1, <1>2 DEF PruneInv, Line
  <2>2. newer'[v] \ prn'.victims = newer[v] \ prn.victims
    BY <1>1, <1>2, <2>1
  <2> QED BY <2>1, <2>2 DEF PruneInv, Outnumbered
<1> QED BY <1>1, <1>2, <1>3, <1>4 DEF PruneInv, Outnumbered

\* Only a build creates releases, only the pruner deletes them.
LEMMA PruneOthers ==
    ASSUME [Next]_vars,
           ~ \E r \in Release : Succeed(r),
           ~ \E r \in Release : DeleteRelease(r),
           ~ListEnvironments, ~ListReleases
    PROVE  releases' = releases /\ newer' = newer /\ (prn' = prn \/ prn' = NoPrune)
<1> USE DEF object, records, workers, bounds, ghosts
<1>1. CASE BuildNext
  BY <1>1 DEF BuildNext, BuildFails, PromoteOrFlip, BuildPromotes, EnsureEnvironment,
     CreateEnvironment, BuildFlips, BuildRecords, BuildConflict, BuildSucceeded
<1>2. CASE PromotionNext
  BY <1>2 DEF PromotionNext, Resolve, Evaluate, Fail, Settle, AlreadyThere, Apply,
     PromotionRecords, PromotionConflict, Chain, Applied
<1>3. CASE RescanNext
  BY <1>3 DEF RescanNext, RollBackForExpiry, RollBack, RollbackRecords, RollbackDropped
<1>4. CASE PruneNext
  BY <1>4 DEF PruneNext
<1>5. CASE ApiNext
  BY <1>5 DEF ApiNext, PatchEnvironment, RequestPromotion, PointEnvironmentAt, PatchHistory,
     DeclareEnvironment, PatchRequirements
<1>6. CASE \/ \E e \in Env : Observe(e)
           \/ \E e \in Env, r \in Release : ExceptionExpires(e, r)
  BY <1>6 DEF Observe, ExceptionExpires
<1>7. CASE Drop
  BY <1>7 DEF Drop
<1>8. CASE UNCHANGED vars
  BY <1>8 DEF vars
<1> QED BY <1>1, <1>2, <1>3, <1>4, <1>5, <1>6, <1>7, <1>8 DEF Next

LEMMA PruneStep == PruneInv /\ [Next]_vars => PruneInv'
<1> SUFFICES ASSUME PruneInv, [Next]_vars PROVE PruneInv'
  OBVIOUS
<1>1. ASSUME NEW r \in Release, Succeed(r) PROVE PruneInv'
  BY <1>1, PruneSucceed DEF Succeed
<1>2. ASSUME NEW r \in Release, DeleteRelease(r) PROVE PruneInv'
  BY <1>2, PruneDelete
<1>3. NoPrune.victims = {} /\ \A pc, refs, vs : Prune(pc, refs, vs).victims = vs
  BY DEF NoPrune, Prune
<1>4. ASSUME releases' = releases, newer' = newer, prn'.victims = {} PROVE PruneInv'
  BY <1>4 DEF PruneInv, Line, Outnumbered
<1>5. CASE ListEnvironments
  <2>1. UNCHANGED records /\ prn'.victims = {}
    BY <1>3, <1>5 DEF ListEnvironments
  <2> QED BY <1>4, <2>1 DEF records
<1>6. CASE ListReleases
  <2>1. releases' = releases /\ newer' = newer
    BY <1>6 DEF ListReleases, records
  <2>2. prn'.victims = Outgrown(prn.refs)
    BY <1>3, <1>6 DEF ListReleases
  <2>3. \A v \in Outgrown(prn.refs) : Cardinality(newer[v] \ Outgrown(prn.refs)) >= Retention
    BY OutgrownOutnumbered DEF PruneInv
  <2>4. Outgrown(prn.refs) \subseteq releases
    BY DEF Outgrown, Exists
  <2> QED BY <2>1, <2>2, <2>3, <2>4 DEF PruneInv, Line, Outnumbered
<1>7. CASE /\ ~ \E r \in Release : Succeed(r)
           /\ ~ \E r \in Release : DeleteRelease(r)
           /\ ~ListEnvironments /\ ~ListReleases
  <2>1. releases' = releases /\ newer' = newer /\ (prn' = prn \/ prn' = NoPrune)
    BY <1>7, PruneOthers
  <2>2. CASE prn' = prn
    BY <2>1, <2>2 DEF PruneInv, Line, Outnumbered
  <2> QED BY <1>3, <1>4, <2>1, <2>2
<1> QED BY <1>1, <1>2, <1>5, <1>6, <1>7

\* RetentionKept, for every retention and every number of releases, builds and dropped
\* passes: prune deletes a release only while Retention newer ones are left, though it
\* deletes from a list that builds have outdated.
THEOREM NewestKept == Spec => RetentionKept
<1>1. ASSUME PruneInv, [Next]_vars
      PROVE  [\A r \in Release : Exists(r) /\ ~Exists(r)' =>
                 Cardinality(newer[r]) >= Retention]_vars
  <2> SUFFICES ASSUME NEW r \in Release, Exists(r), ~Exists(r)'
               PROVE  Cardinality(newer[r]) >= Retention
    OBVIOUS
  <2>1. DeleteRelease(r)
    <3>1. r \in releases /\ r \notin releases'
      BY DEF Exists
    <3>2. ~ \E s \in Release : Succeed(s)
      BY <3>1 DEF Succeed, CreateRelease
    <3>3. ~ListEnvironments /\ ~ListReleases
      BY <3>1 DEF ListEnvironments, ListReleases, records
    <3>4. PICK s \in Release : DeleteRelease(s)
      BY <1>1, <3>1, <3>2, <3>3, PruneOthers
    <3>5. s = r
      BY <3>1, <3>4 DEF DeleteRelease
    <3> QED BY <3>4, <3>5
  <2>2. r \in prn.victims /\ newer[r] \ prn.victims = newer[r]
    BY <2>1 DEF DeleteRelease
  <2> QED BY <1>1, <2>2 DEF PruneInv, Outnumbered
<1> QED BY <1>1, PruneInit, PruneStep, PTL DEF Spec, RetentionKept
=============================================================================
