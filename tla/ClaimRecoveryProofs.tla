------------------------ MODULE ClaimRecoveryProofs ------------------------
(***************************************************************************)
(* What ClaimRecovery guarantees for any names, moments and policies, any  *)
(* requests in any order and passes that end at any call: every state is   *)
(* well typed, the binding names a database that is there, no request is   *)
(* met twice and what is Ready holds its moment, the claim forgets nothing *)
(* it has listed, and what a promotion displaced is on record.             *)
(***************************************************************************)
EXTENDS ClaimRecovery, TLAPS

Copies  == [db : Dbs, at : Moment \cup {None}, state : {"none", "filling", "serving", "broken"}]
Asked   == [Name -> Moment \cup {None}]
Listing == [Name -> Entries]
Kept    == SUBSET ((Name \cup {None}) \X Name)
Passes  ==
    [at : {"idle", "provision", "siblings", "promote", "bind"},
     asked : Asked, promoted : Name \cup {None}, listed : Listing, old : Listing,
     retained : Kept, todo : SUBSET Name, swept : SUBSET Name,
     failed : BOOLEAN, fresh : BOOLEAN]

-----------------------------------------------------------------------------
(***************************************************************************)
(* Types                                                                   *)
(***************************************************************************)
World ==
    /\ claim \in {"live", "deleting", "gone", "orphaned"}
    /\ asked \in Asked /\ promoted \in Name \cup {None}
    /\ listed \in Listing /\ retained \in Kept
    /\ instance \in BOOLEAN /\ made \in [Name -> Nat] /\ copies \in [Name -> Copies]
    /\ binding \in Dbs /\ secret \in [Name -> Dbs]
    /\ policy \in Policy
    /\ requests \in 0..MaxRequests /\ upsets \in 0..MaxUpsets
    /\ uses \in [Name -> Nat] /\ astray \subseteq Name /\ displaced \subseteq Dbs

LEMMA TypeParts == TypeOK <=> World /\ pass \in Passes
BY DEF TypeOK, World, Passes, Asked, Listing, Copies, Kept

LEMMA TypePartsNext ==
    ASSUME World', pass' \in Passes
    PROVE  TypeOK'
BY DEF TypeOK, World, Passes, Asked, Listing, Copies, Kept

LEMMA Numbers ==
    /\ MaxRequests \in Nat /\ MaxUpsets \in Nat
    /\ None \in Nat /\ NoDb \in Dbs /\ Instance \in Dbs /\ NoDb # Instance
    /\ NoDb[1] = None /\ Instance[1] = None
    /\ \A n \in Name : n \in Nat /\ n # None
BY ClaimRecoveryAssumption DEF ClaimRecoveryAssumption, None, NoDb, Instance, Dbs

LEMMA Nothing ==
    /\ Unlisted \in Entries /\ ~Unlisted.has /\ ~Unlisted.bound /\ Unlisted.phase = "none"
    /\ NoCopy \in Copies /\ NoCopy.state = "none" /\ NoCopy.db = NoDb
    /\ Idle \in Passes /\ Idle.at = "idle" /\ ~Idle.fresh
<1>1. Unlisted \in Entries /\ ~Unlisted.has /\ ~Unlisted.bound /\ Unlisted.phase = "none"
  BY DEF Unlisted, Entries, Phases
<1>2. NoCopy \in Copies /\ NoCopy.state = "none" /\ NoCopy.db = NoDb
  BY Numbers DEF NoCopy, Copies
<1>3. Idle \in Passes /\ Idle.at = "idle" /\ ~Idle.fresh
  BY <1>1 DEF Idle, Passes, Asked, Listing, Kept
<1> QED BY <1>1, <1>2, <1>3

LEMMA Bounded ==
    ASSUME World
    PROVE  /\ Request => requests' \in 0..MaxRequests /\ upsets' = upsets
           /\ Upset => upsets' \in 0..MaxUpsets /\ requests' = requests
BY Numbers DEF World, Request, Upset

\* What a pass lists for a name, and what it has left to do.
LEMMA ListsFields ==
    ASSUME pass \in Passes, NEW n \in Name, NEW entry \in Entries
    PROVE  LET p == Lists(n, entry)
           IN  /\ p \in Passes /\ p.listed = [pass.listed EXCEPT ![n] = entry]
               /\ p.todo = pass.todo \ {n} /\ p.old = pass.old /\ p.asked = pass.asked
               /\ p.promoted = pass.promoted /\ p.at = pass.at /\ p.fresh = pass.fresh
               /\ p.retained = pass.retained /\ p.swept = pass.swept
               /\ [p EXCEPT !.failed = TRUE] \in Passes
<1> DEFINE ls == [pass.listed EXCEPT ![n] = entry]
           td == pass.todo \ {n}
<1>1. ls \in Listing /\ td \in SUBSET Name
  BY DEF Passes, Listing
<1>2. Lists(n, entry) = [pass EXCEPT !.listed = ls, !.todo = td]
  BY DEF Lists, Passes
<1> HIDE DEF ls, td
<1>3. LET p == [pass EXCEPT !.listed = ls, !.todo = td]
      IN  /\ p \in Passes /\ p.listed = ls
          /\ p.todo = td /\ p.old = pass.old /\ p.asked = pass.asked
          /\ p.promoted = pass.promoted /\ p.at = pass.at /\ p.fresh = pass.fresh
          /\ p.retained = pass.retained /\ p.swept = pass.swept
          /\ [p EXCEPT !.failed = TRUE] \in Passes
  BY <1>1 DEF Passes
<1> QED BY <1>2, <1>3 DEF ls, td

LEMMA EntryFields ==
    ASSUME pass \in Passes, NEW n \in Name, NEW phase \in Phases
    PROVE  /\ Entry(n, phase) \in Entries /\ Entry(n, phase).phase = phase
           /\ Entry(n, phase).at = pass.asked[n] /\ Entry(n, phase).has = pass.listed[n].has
           /\ Entry(n, phase).bound = pass.listed[n].bound
           /\ LET e == [Entry(n, phase) EXCEPT !.has = TRUE]
              IN  /\ e \in Entries /\ e.phase = phase /\ e.at = pass.asked[n] /\ e.has
                  /\ e.bound = pass.listed[n].bound
<1>1. pass.listed[n] \in Entries /\ pass.asked[n] \in Moment \cup {None}
  BY DEF Passes, Listing, Asked
<1> QED BY <1>1 DEF Entry, Entries, Listed

\* Fields a step of the pass may change one at a time.
LEMMA PassFields ==
    ASSUME pass \in Passes
    PROVE  /\ \A at \in {"provision", "siblings", "promote", "bind"} :
                 [pass EXCEPT !.at = at] \in Passes
           /\ [pass EXCEPT !.at = "bind", !.listed = pass.old] \in Passes
           /\ [pass EXCEPT !.fresh = FALSE] \in Passes
           /\ \A n \in Name : /\ [pass EXCEPT !.todo = @ \ {n}] \in Passes
                              /\ [pass EXCEPT !.swept = @ \cup {n}] \in Passes
BY DEF Passes

LEMMA SiblingType ==
    ASSUME TypeOK, NEW n \in Name, Sibling(n)
    PROVE  TypeOK'
<1> USE DEF spec, recorded, provider, secrets, bounds, history
<1>1. World /\ pass \in Passes
  BY TypeParts
<1>2. CASE Keep(n)
  <2>1. pass' \in Passes
    BY <1>1, <1>2, PassFields DEF Keep, Goes
  <2>2. World'
    BY <1>1, <1>2 DEF Keep, Goes, World
  <2> QED BY <2>1, <2>2, TypePartsNext
<1>3. CASE WriteCopySecret(n)
  <2>1. pass' \in Passes
    BY <1>1, <1>3, EntryFields, ListsFields DEF WriteCopySecret, Goes, Phases
  <2>2. copies[n].db \in Dbs
    BY <1>1 DEF World, Copies
  <2>3. World'
    BY <1>1, <1>3, <2>2 DEF WriteCopySecret, Goes, World
  <2> QED BY <2>1, <2>3, TypePartsNext
<1>4. CASE Await(n) \/ RecoveryFails(n)
  <2>1. pass' \in Passes
    <3>1. PICK phase \in {"Pending", "Failed"} :
             pass' = [Lists(n, Entry(n, phase)) EXCEPT !.failed = TRUE]
      BY <1>4 DEF Await, RecoveryFails, Goes
    <3>2. Entry(n, phase) \in Entries
      BY <1>1, EntryFields DEF Phases
    <3> QED BY <1>1, <3>1, <3>2, ListsFields
  <2>2. World'
    BY <1>1, <1>4, Bounded DEF Await, RecoveryFails, Goes, World
  <2> QED BY <2>1, <2>2, TypePartsNext
<1>5. ASSUME NEW state \in {"filling", "serving"}, RecoverTo(n, state) PROVE TypeOK'
  <2>1. /\ made' \in [Name -> Nat] /\ <<n, made'[n]>> \in Dbs
        /\ pass.asked[n] \in Moment \cup {None}
    BY <1>1, <1>5 DEF RecoverTo, World, Dbs, Passes, Asked
  <2>2. copies' \in [Name -> Copies]
    BY <1>1, <1>5, <2>1 DEF RecoverTo, World, Copies, Dbs
  <2>3. World'
    BY <1>1, <1>5, <2>1, <2>2 DEF RecoverTo, Goes, World, Dbs
  <2>4. pass' = pass
    BY <1>5 DEF RecoverTo, Goes
  <2> QED BY <1>1, <2>3, <2>4, TypePartsNext
<1>6. CASE DeleteBranch(n)
  <2>1. pass' \in Passes
    BY <1>1, <1>6, PassFields DEF DeleteBranch, Goes
  <2>2. World'
    BY <1>1, <1>6, Nothing DEF DeleteBranch, Goes, World
  <2> QED BY <2>1, <2>2, TypePartsNext
<1>7. CASE DeleteBranchFails(n)
  <2>1. EntryKept(n) \in Entries
    BY <1>1 DEF EntryKept, Listed, Passes, Listing
  <2>2. pass' \in Passes
    BY <1>1, <1>7, <2>1, ListsFields DEF DeleteBranchFails, Goes
  <2>3. World'
    BY <1>1, <1>7, Bounded DEF DeleteBranchFails, Goes, World
  <2> QED BY <2>2, <2>3, TypePartsNext
<1>8. CASE DeleteCopySecret(n)
  <2>1. pass' \in Passes
    BY <1>1, <1>8, Nothing, ListsFields DEF DeleteCopySecret, Goes
  <2>2. secret' \in [Name -> Dbs]
    BY <1>1, <1>8, Numbers DEF DeleteCopySecret, World, Dbs
  <2>3. World'
    BY <1>1, <1>8, <2>2 DEF DeleteCopySecret, Goes, World
  <2> QED BY <2>1, <2>3, TypePartsNext
<1> QED BY <1>2, <1>3, <1>4, <1>5, <1>6, <1>7, <1>8 DEF Sibling

\* A promotion names one of the other copies, or the original.
LEMMA DisplacedFields ==
    ASSUME pass \in Passes, NEW n \in Name
    PROVE  /\ Displaced(n) \in Name \cup {None}
           /\ Marks(n) \in Listing
           /\ \A m \in Name : /\ Marks(n)[m].bound = (m = n)
                              /\ Marks(n)[m].phase = pass.listed[m].phase
                              /\ Marks(n)[m].at = pass.listed[m].at
                              /\ Marks(n)[m].has = pass.listed[m].has
<1>1. Displaced(n) \in Name \cup {None}
  BY DEF Displaced
<1>2. ASSUME NEW m \in Name
      PROVE  /\ Marks(n)[m] \in Entries
             /\ Marks(n)[m].bound = (m = n) /\ Marks(n)[m].phase = pass.listed[m].phase
             /\ Marks(n)[m].at = pass.listed[m].at /\ Marks(n)[m].has = pass.listed[m].has
  <2>1. pass.listed[m] \in Entries
    BY DEF Passes, Listing
  <2>2. Marks(n)[m] = [pass.listed[m] EXCEPT !.bound = (m = n)]
    BY DEF Marks, Listed
  <2>3. \A b \in BOOLEAN : LET e == [pass.listed[m] EXCEPT !.bound = b]
                           IN  /\ e \in Entries /\ e.bound = b
                               /\ e.phase = pass.listed[m].phase
                               /\ e.at = pass.listed[m].at /\ e.has = pass.listed[m].has
    BY <2>1 DEF Entries
  <2> QED BY <2>2, <2>3
<1>3. Marks(n) \in Listing
  BY <1>2 DEF Marks, Listing
<1> QED BY <1>1, <1>2, <1>3

\* What PromoteRecovery leaves in the pass.
LEMMA PromotedFields ==
    ASSUME TypeOK, PromoteRecovery
    PROVE  /\ pass.promoted \in Name /\ pass' \in Passes /\ pass'.at = "bind"
           /\ pass'.listed = IF pass.listed[pass.promoted].bound THEN pass.listed
                             ELSE Marks(pass.promoted)
           /\ pass'.retained = IF pass.listed[pass.promoted].bound THEN pass.retained
                               ELSE pass.retained \cup {<<Displaced(pass.promoted), pass.promoted>>}
           /\ pass'.asked = pass.asked /\ pass'.promoted = pass.promoted
           /\ pass'.old = pass.old /\ pass'.fresh = pass.fresh /\ pass'.todo = pass.todo
           /\ pass'.swept = pass.swept
<1>1. pass \in Passes /\ pass.promoted \in Name
  BY TypeParts DEF PromoteRecovery, Promotable, Passes
<1> DEFINE n == pass.promoted
           rt == IF pass.listed[n].bound THEN pass.retained
                 ELSE pass.retained \cup {<<Displaced(n), n>>}
           ls == IF pass.listed[n].bound THEN pass.listed ELSE Marks(n)
<1>2. rt \in Kept /\ ls \in Listing
  <2>1. pass.retained \in Kept
    BY <1>1 DEF Passes
  <2>2. <<Displaced(n), n>> \in (Name \cup {None}) \X Name
    BY <1>1, DisplacedFields
  <2>3. ls \in Listing
    BY <1>1, DisplacedFields DEF Passes
  <2> QED BY <2>1, <2>2, <2>3 DEF Kept
<1>3. pass' = [pass EXCEPT !.at = "bind", !.listed = ls, !.retained = rt]
  BY <1>1 DEF PromoteRecovery, Recorded, Retains, Listed, Passes
<1> HIDE DEF rt, ls
<1>4. /\ pass' \in Passes /\ pass'.at = "bind" /\ pass'.listed = ls /\ pass'.retained = rt
      /\ pass'.asked = pass.asked /\ pass'.promoted = pass.promoted
      /\ pass'.old = pass.old /\ pass'.fresh = pass.fresh /\ pass'.todo = pass.todo
      /\ pass'.swept = pass.swept
  BY <1>1, <1>2, <1>3 DEF Passes
<1> QED BY <1>1, <1>4 DEF rt, ls

LEMMA PassType ==
    ASSUME TypeOK, Pass
    PROVE  TypeOK'
<1> USE DEF spec, recorded, provider, secrets, bounds, history
<1>1. World /\ pass \in Passes
  BY TypeParts
<1>2. CASE Begin
  <2>1. pass' \in Passes
    BY <1>1, <1>2 DEF Begin, Goes, World, Passes
  <2>2. World'
    BY <1>1, <1>2 DEF Begin, Goes, World
  <2> QED BY <2>1, <2>2, TypePartsNext
<1>3. CASE Provision
  <2>1. pass' \in Passes
    BY <1>1, <1>3, PassFields DEF Provision, Goes
  <2>2. World'
    BY <1>1, <1>3, Numbers DEF Provision, Goes, World, Dbs
  <2> QED BY <2>1, <2>2, TypePartsNext
<1>4. CASE SecretRefused \/ PromotionRefused \/ PassEnds
  <2>1. pass' \in Passes
    BY <1>1, <1>4, PassFields, Nothing DEF SecretRefused, PromotionRefused, PassEnds, Goes
  <2>2. World'
    BY <1>1, <1>4, Bounded DEF SecretRefused, PromotionRefused, PassEnds, Goes, World
  <2> QED BY <2>1, <2>2, TypePartsNext
<1>5. CASE SiblingsDone \/ NotPromoted
  <2>1. pass' \in Passes
    BY <1>1, <1>5, PassFields DEF SiblingsDone, NotPromoted, Goes
  <2>2. World'
    BY <1>1, <1>5 DEF SiblingsDone, NotPromoted, Goes, World
  <2> QED BY <2>1, <2>2, TypePartsNext
<1>6. CASE PromoteRecovery
  <2>1. pass' \in Passes /\ pass.promoted \in Name
    BY <1>6, PromotedFields
  <2>2. binding' \in Dbs
    BY <1>1, <1>6, <2>1 DEF PromoteRecovery, World
  <2>3. displaced' \subseteq Dbs
    BY <1>1, <1>6 DEF PromoteRecovery, World
  <2>4. World'
    BY <1>1, <1>6, <2>2, <2>3 DEF PromoteRecovery, World
  <2> QED BY <2>1, <2>4, TypePartsNext
<1>7. CASE Bind
  <2>1. pass' \in Passes
    BY <1>7, Nothing DEF Bind
  <2>2. World'
    BY <1>1, <1>7 DEF Bind, World, Passes
  <2> QED BY <2>1, <2>2, TypePartsNext
<1>8. ASSUME NEW n \in Name, Sibling(n) PROVE TypeOK'
  BY <1>8, SiblingType
<1> QED BY <1>2, <1>3, <1>4, <1>5, <1>6, <1>7, <1>8 DEF Pass

LEMMA FinalizeType ==
    ASSUME TypeOK, Finalize
    PROVE  TypeOK'
<1> USE DEF spec, recorded, provider, secrets, bounds, history
<1>1. World /\ pass \in Passes
  BY TypeParts
<1>2. pass' = pass
  BY DEF Finalize, Deprovision, Release, ReleaseAlone, FinalizeCopy, FinalizeSecret
<1>3. CASE Deprovision
  BY <1>1, <1>2, <1>3, TypePartsNext DEF Deprovision, World
<1>4. CASE Release \/ ReleaseAlone
  <2>1. World'
    BY <1>1, <1>4, Numbers, Bounded DEF Release, ReleaseAlone, World
  <2> QED BY <1>1, <1>2, <2>1, TypePartsNext
<1>5. ASSUME NEW n \in Name, FinalizeCopy(n) PROVE TypeOK'
  BY <1>1, <1>2, <1>5, Nothing, TypePartsNext DEF FinalizeCopy, World
<1>6. ASSUME NEW n \in Name, FinalizeSecret(n) PROVE TypeOK'
  BY <1>1, <1>2, <1>6, Numbers, TypePartsNext DEF FinalizeSecret, World, Dbs
<1> QED BY <1>3, <1>4, <1>5, <1>6 DEF Finalize

\* A request edits the claim, and no pass under way is current any more.
LEMMA UserType ==
    ASSUME TypeOK,
           \/ \E n \in Name : \/ \E at \in Moment : CreateRecovery(n, at)
                              \/ DeleteRecovery(n) \/ PromoteClaimRecovery(n)
           \/ DeleteClaim
    PROVE  TypeOK'
<1> USE DEF spec, recorded, provider, secrets, bounds, history
<1>1. World /\ pass \in Passes
  BY TypeParts
<1>2. ASSUME NEW a \in Asked, NEW p \in Name \cup {None}, Edit(a, p),
             uses' \in [Name -> Nat], astray' \subseteq Name
      PROVE  TypeOK'
  <2>1. pass' \in Passes
    BY <1>1, <1>2, PassFields DEF Edit
  <2>2. World'
    BY <1>1, <1>2, Bounded DEF Edit, World
  <2> QED BY <2>1, <2>2, TypePartsNext
<1>3. ASSUME NEW n \in Name, NEW at \in Moment, CreateRecovery(n, at) PROVE TypeOK'
  <2>1. [asked EXCEPT ![n] = at] \in Asked /\ promoted \in Name \cup {None}
    BY <1>1 DEF World, Asked
  <2>2. uses' \in [Name -> Nat] /\ astray' \subseteq Name
    BY <1>1, <1>3 DEF CreateRecovery, Strays, World
  <2> QED BY <1>2, <1>3, <2>1, <2>2 DEF CreateRecovery
<1>4. ASSUME NEW n \in Name, DeleteRecovery(n) PROVE TypeOK'
  <2>1. [asked EXCEPT ![n] = None] \in Asked /\ promoted \in Name \cup {None}
    BY <1>1 DEF World, Asked
  <2>2. uses' \in [Name -> Nat] /\ astray' \subseteq Name
    BY <1>1, <1>4 DEF DeleteRecovery, Strays, World
  <2> QED BY <1>2, <1>4, <2>1, <2>2 DEF DeleteRecovery
<1>5. ASSUME NEW n \in Name, PromoteClaimRecovery(n) PROVE TypeOK'
  <2>1. uses' \in [Name -> Nat] /\ astray' \subseteq Name
    BY <1>1, <1>5 DEF PromoteClaimRecovery, Strays, World
  <2> QED BY <1>1, <1>2, <1>5, <2>1 DEF PromoteClaimRecovery, World
<1>6. CASE DeleteClaim
  <2>1. pass' \in Passes
    BY <1>1, <1>6, PassFields DEF DeleteClaim
  <2>2. World'
    BY <1>1, <1>6, Bounded DEF DeleteClaim, World
  <2> QED BY <2>1, <2>2, TypePartsNext
<1> QED BY <1>3, <1>4, <1>5, <1>6

LEMMA ClusterType ==
    ASSUME TypeOK, SecretLost \/ \E n \in Name : Filled(n) \/ Breaks(n)
    PROVE  TypeOK'
<1> USE DEF spec, recorded, provider, secrets, bounds, history
<1>1. World /\ pass \in Passes
  BY TypeParts
<1>2. CASE SecretLost
  <2>1. secret' \in [Name -> Dbs] /\ binding' \in Dbs
    BY <1>1, <1>2, Numbers DEF SecretLost, World, Dbs
  <2>2. World' /\ pass' \in Passes
    BY <1>1, <1>2, <2>1, Bounded DEF SecretLost, World
  <2> QED BY <2>2, TypePartsNext
<1>3. ASSUME NEW n \in Name, Filled(n) \/ Breaks(n) PROVE TypeOK'
  <2>1. copies[n] \in Copies
    BY <1>1 DEF World
  <2>2. \A s \in {"serving", "broken"} : [copies[n] EXCEPT !.state = s] \in Copies
    BY <2>1 DEF Copies
  <2>3. copies' \in [Name -> Copies]
    BY <1>1, <1>3, <2>2 DEF Filled, Breaks, World
  <2>4. World' /\ pass' \in Passes
    BY <1>1, <1>3, <2>3, Bounded DEF Filled, Breaks, World
  <2> QED BY <2>4, TypePartsNext
<1> QED BY <1>2, <1>3

LEMMA TypeInit == Init => TypeOK
<1> SUFFICES ASSUME Init PROVE TypeOK
  OBVIOUS
<1>1. World
  BY Nothing, Numbers DEF Init, World, Asked, Listing, Kept, Dbs
<1>2. pass \in Passes
  BY Nothing DEF Init
<1> QED BY <1>1, <1>2, TypeParts

LEMMA TypeNext == TypeOK /\ [Next]_vars => TypeOK'
<1>1. TypeOK /\ Next => TypeOK'
  BY PassType, FinalizeType, UserType, ClusterType DEF Next
<1>2. TypeOK /\ UNCHANGED vars => TypeOK'
  <2> SUFFICES ASSUME TypeOK, UNCHANGED vars PROVE TypeOK'
    OBVIOUS
  <2>1. World /\ pass \in Passes
    BY TypeParts
  <2>2. World' /\ pass' \in Passes
    BY <2>1 DEF World, vars, spec, recorded, provider, secrets, bounds, history
  <2> QED BY <2>2, TypePartsNext
<1> QED BY <1>1, <1>2

(***************************************************************************)
(* Whatever users ask for and in whatever order, every reachable state is  *)
(* well typed.                                                             *)
(***************************************************************************)
THEOREM TypeCorrect == Spec => []TypeOK
BY TypeInit, TypeNext, PTL DEF Spec

-----------------------------------------------------------------------------
(***************************************************************************)
(* What always holds of the records                                        *)
(***************************************************************************)
Active == pass.at # "idle"

\* A database of a name, or none, is one that was made.
Made(n, db) == db = NoDb \/ (db[1] = n /\ db[2] <= made[n])

\* An entry that is Ready or bound has its id.
Whole(entry) == entry.phase = "Ready" \/ entry.bound => entry.has

NameFacts(n) ==
    /\ copies[n] # NoCopy => copies[n].db = <<n, made[n]>> /\ copies[n].state # "none"
    /\ Made(n, secret[n])
    /\ Whole(listed[n])

PassFacts(n) ==
    /\ Whole(pass.listed[n])
    /\ n \in pass.swept => pass.asked[n] = None /\ copies[n] = NoCopy
    /\ n \in pass.todo /\ pass.asked[n] = None => listed[n] # Unlisted

Facts ==
    /\ \A n \in Name : NameFacts(n)
    /\ binding[1] = None => binding \in {NoDb, Instance}
    /\ \A n \in Name : binding[1] = n => Made(n, binding)
    /\ claim = "live" => instance
    /\ Active => pass.old = listed /\ \A n \in Name : PassFacts(n)

(***************************************************************************)
(* What the claim forgets is gone                                          *)
(***************************************************************************)
Forgotten(n) ==
    listed[n].has /\ ~pass.listed[n].has =>
        pass.asked[n] = None /\ copies[n] = NoCopy /\ secret[n] = NoDb

ForgetInv == Active => \A n \in Name : Forgotten(n)

(***************************************************************************)
(* No request is met twice: one that is not met yet leaves a copy to make  *)
(***************************************************************************)
Counted(n) ==
    /\ made[n] <= uses[n]
    /\ /\ \/ claim = "live" /\ asked[n] # None
          \/ Active /\ pass.asked[n] # None
       /\ copies[n] = NoCopy
       => made[n] < uses[n]
    /\ Active /\ claim = "live" /\ pass.asked[n] = None /\ asked[n] # None => made[n] < uses[n]

CountInv == \A n \in Name : Counted(n)

(***************************************************************************)
(* What is so of a name that was asked for, discarded and promoted in time *)
(***************************************************************************)

\* An entry of a copy asked for as of a moment.
Fits(entry, n) ==
    /\ entry.has => copies[n].state = "serving"
    /\ entry.phase = "Ready" => entry.at = asked[n]

Held(n) ==
    asked[n] # None =>
        /\ copies[n] # NoCopy => copies[n].at = asked[n]
        /\ secret[n] # NoDb => copies[n].state = "serving" /\ secret[n] = copies[n].db
        /\ Fits(listed[n], n)

PassHolds(n) ==
    asked[n] # None =>
        IF pass.asked[n] # None
        THEN pass.asked[n] = asked[n] /\ Fits(pass.listed[n], n)
        ELSE /\ pass.listed[n] = Unlisted /\ listed[n] = Unlisted /\ n \notin pass.todo

Fine(n) ==
    /\ Held(n)
    /\ promoted = n => asked[n] # None
    /\ binding[1] = n => asked[n] # None /\ copies[n].state = "serving"
                                          /\ binding = copies[n].db
    /\ Active => PassHolds(n)
    /\ Active /\ pass.promoted = n => asked[n] # None /\ pass.asked[n] # None

FineInv == claim = "live" => \A n \in Name \ astray : Fine(n)

(***************************************************************************)
(* What a promotion displaced                                              *)
(***************************************************************************)
Displacees(kept) == {r[1] : r \in kept}

\* One copy is listed as bound at most, and then the original as displaced.
Bound(ls, kept) ==
    /\ \A m, n \in Name : ls[m].bound /\ ls[n].bound => m = n
    /\ (\E m \in Name : ls[m].bound) => None \in Displacees(kept)

\* What the pass no longer lists as bound is recorded, or gone.
Replaced(n) ==
    listed[n].bound /\ ~pass.listed[n].bound =>
        \/ n \in Displacees(pass.retained)
        \/ pass.asked[n] = None /\ copies[n] = NoCopy

Told(db) ==
    db[1] # None =>
        /\ db[2] <= made[db[1]]
        /\ copies[db[1]].db = db => db[1] \in Displacees(retained) \/ listed[db[1]].bound

RecordInv ==
    /\ Bound(listed, retained)
    /\ promoted = None => displaced = {}
    /\ \A db \in displaced : Told(db)
    /\ Active =>
          /\ pass.promoted # None => promoted # None
          /\ Bound(pass.listed, pass.retained)
          /\ retained \subseteq pass.retained
          /\ \A n \in Name : Replaced(n)
          /\ pass.at # "bind" => \A n \in Name : pass.listed[n].bound => listed[n].bound

-----------------------------------------------------------------------------
(***************************************************************************)
(* What the steps do                                                       *)
(***************************************************************************)
Frame == UNCHANGED <<claim, asked, promoted, listed, retained, instance, policy, uses, astray>>

Header ==
    /\ pass'.asked = pass.asked /\ pass'.promoted = pass.promoted /\ pass'.old = pass.old
    /\ pass'.fresh = pass.fresh

SameCopy(n)   == copies'[n] = copies[n] /\ made'[n] = made[n]
SameSecret(n) == secret'[n] = secret[n]
SameEntry(n)  == pass'.listed[n] = pass.listed[n]
SameSwept(n)  == n \in pass'.swept <=> n \in pass.swept

\* A call for n.
Call(n) ==
    /\ pass.at = "siblings" /\ pass'.at = "siblings" /\ n \in pass.todo
    /\ Frame /\ Header /\ UNCHANGED <<binding, displaced>>
    /\ pass'.todo \subseteq pass.todo /\ pass'.retained = pass.retained
    /\ \A m \in Name \ {n} : SameCopy(m) /\ SameSecret(m) /\ SameEntry(m) /\ SameSwept(m)

Stays(n) == SameCopy(n) /\ SameSecret(n) /\ SameEntry(n) /\ SameSwept(n)

Writes(n) ==
    /\ pass.asked[n] # None /\ copies[n].state = "serving"
    /\ SameCopy(n) /\ SameSwept(n) /\ secret'[n] = copies[n].db
    /\ pass'.listed[n].phase = "Ready" /\ pass'.listed[n].at = pass.asked[n]
    /\ pass'.listed[n].has /\ (pass'.listed[n].bound <=> pass.listed[n].bound)

Waits(n) ==
    /\ pass.asked[n] # None
    /\ SameCopy(n) /\ SameSecret(n) /\ SameSwept(n)
    /\ pass'.listed[n].phase # "Ready" /\ (pass'.listed[n].has <=> pass.listed[n].has)
    /\ pass'.listed[n].bound <=> pass.listed[n].bound

Makes(n) ==
    /\ pass.asked[n] # None /\ copies[n] = NoCopy
    /\ made'[n] = made[n] + 1 /\ copies'[n].db = <<n, made'[n]>>
    /\ copies'[n].at = pass.asked[n] /\ copies'[n].state \in {"filling", "serving"}
    /\ copies'[n] # NoCopy
    /\ SameSecret(n) /\ SameEntry(n) /\ SameSwept(n)

Destroys(n) ==
    /\ pass.asked[n] = None /\ copies'[n] = NoCopy /\ made'[n] = made[n]
    /\ SameSecret(n) /\ SameEntry(n)

Drops(n) ==
    /\ pass.asked[n] = None /\ (n \in pass.swept \/ ~pass.listed[n].has)
    /\ SameCopy(n) /\ SameSwept(n)
    /\ secret'[n] = IF pass.listed[n].has THEN NoDb ELSE secret[n]
    /\ pass'.listed[n] = Unlisted

LEMMA SiblingDoes ==
    ASSUME TypeOK, Facts, NEW n \in Name, Sibling(n)
    PROVE  /\ Call(n)
           /\ Stays(n) \/ Writes(n) \/ Waits(n) \/ Makes(n) \/ Destroys(n) \/ Drops(n)
<1> USE DEF spec, recorded, provider, secrets, bounds, history
<1>1. World /\ pass \in Passes
  BY TypeParts
<1>2. At(n) /\ pass.at = "siblings" /\ Active
  BY DEF Sibling, Keep, WriteCopySecret, Await, RecoveryFails, RecoverTo, Recovering,
         DeleteBranch, DeleteBranchFails, DeleteCopySecret, Unasked, At, Active
<1>3. CASE Keep(n)
  <2>1. /\ pass' = [pass EXCEPT !.todo = @ \ {n}]
        /\ Frame /\ UNCHANGED <<copies, made, secret, binding, displaced>>
    BY <1>3 DEF Keep, Goes, Frame
  <2>2. /\ pass'.listed = pass.listed /\ pass'.swept = pass.swept /\ Header
        /\ pass'.at = pass.at /\ pass'.todo \subseteq pass.todo
        /\ pass'.retained = pass.retained
    BY <1>1, <2>1 DEF Passes, Header
  <2> QED BY <1>2, <2>1, <2>2
          DEF Call, Stays, At, SameCopy, SameSecret, SameEntry, SameSwept
<1>4. ASSUME NEW entry \in Entries,
             pass' = Lists(n, entry) \/ pass' = [Lists(n, entry) EXCEPT !.failed = TRUE]
      PROVE  /\ pass'.listed[n] = entry /\ \A m \in Name \ {n} : SameEntry(m)
             /\ \A m \in Name : SameSwept(m)
             /\ Header /\ pass'.at = pass.at /\ pass'.todo \subseteq pass.todo
             /\ pass'.retained = pass.retained
  <2> DEFINE p == Lists(n, entry)
  <2>1. /\ p \in Passes /\ p.listed = [pass.listed EXCEPT ![n] = entry]
        /\ p.todo = pass.todo \ {n} /\ p.old = pass.old /\ p.asked = pass.asked
        /\ p.promoted = pass.promoted /\ p.at = pass.at /\ p.fresh = pass.fresh
        /\ p.retained = pass.retained /\ p.swept = pass.swept
    BY <1>1, ListsFields
  <2> HIDE DEF p
  <2>2. pass' = p \/ pass' = [p EXCEPT !.failed = TRUE]
    BY <1>4 DEF p
  <2>3. /\ pass'.listed = [pass.listed EXCEPT ![n] = entry]
        /\ pass'.todo = pass.todo \ {n} /\ pass'.old = pass.old /\ pass'.asked = pass.asked
        /\ pass'.promoted = pass.promoted /\ pass'.at = pass.at /\ pass'.fresh = pass.fresh
        /\ pass'.retained = pass.retained /\ pass'.swept = pass.swept
    BY <2>1, <2>2 DEF Passes
  <2> QED BY <1>1, <2>3 DEF Passes, Listing, SameEntry, SameSwept, Header
<1>5. CASE WriteCopySecret(n)
  <2> DEFINE en == [Entry(n, "Ready") EXCEPT !.has = TRUE]
  <2>1. /\ en \in Entries /\ en.phase = "Ready" /\ en.at = pass.asked[n] /\ en.has
        /\ en.bound = pass.listed[n].bound
    BY <1>1, EntryFields DEF Phases
  <2>2. /\ pass' = Lists(n, en) /\ pass.asked[n] # None /\ copies[n].state = "serving"
        /\ secret' = [secret EXCEPT ![n] = copies[n].db]
        /\ Frame /\ UNCHANGED <<copies, made, binding, displaced>>
    BY <1>5 DEF WriteCopySecret, Goes, Recovering, Serves, Frame
  <2> HIDE DEF en
  <2>3. /\ secret'[n] = copies[n].db /\ \A m \in Name \ {n} : SameSecret(m)
        /\ \A m \in Name : SameCopy(m)
    BY <1>1, <2>2 DEF World, SameSecret, SameCopy
  <2> QED BY <1>2, <1>4, <2>1, <2>2, <2>3 DEF Call, Writes, At
<1>6. CASE Await(n) \/ RecoveryFails(n)
  <2>1. PICK phase \in {"Pending", "Failed"} :
           /\ pass' = [Lists(n, Entry(n, phase)) EXCEPT !.failed = TRUE]
           /\ pass.asked[n] # None
           /\ Frame /\ UNCHANGED <<copies, made, secret, binding, displaced>>
    BY <1>6 DEF Await, RecoveryFails, Goes, Recovering, Frame
  <2> DEFINE en == Entry(n, phase)
  <2>2. phase \in Phases /\ phase # "Ready"
    BY DEF Phases
  <2>3. /\ en \in Entries /\ en.phase # "Ready" /\ en.has = pass.listed[n].has
        /\ en.bound = pass.listed[n].bound
    BY <1>1, <2>2, EntryFields
  <2>4. pass' = [Lists(n, en) EXCEPT !.failed = TRUE]
    BY <2>1
  <2> HIDE DEF en
  <2>5. \A m \in Name : SameCopy(m) /\ SameSecret(m)
    BY <2>1 DEF SameCopy, SameSecret
  <2> QED BY <1>2, <1>4, <2>1, <2>3, <2>4, <2>5 DEF Call, Waits, At
<1>7. ASSUME NEW state \in {"filling", "serving"}, RecoverTo(n, state)
      PROVE  Call(n) /\ Makes(n)
  <2>1. /\ pass' = pass /\ pass.asked[n] # None /\ copies[n] = NoCopy
        /\ made' = [made EXCEPT ![n] = @ + 1]
        /\ copies' = [copies EXCEPT ![n] = [db |-> <<n, made'[n]>>, at |-> pass.asked[n],
                                            state |-> state]]
        /\ Frame /\ UNCHANGED <<secret, binding, displaced>>
    BY <1>7 DEF RecoverTo, Recovering, Absent, Goes, Frame
  <2>2. /\ made'[n] = made[n] + 1 /\ copies'[n].db = <<n, made'[n]>>
        /\ copies'[n].at = pass.asked[n] /\ copies'[n].state = state
        /\ \A m \in Name \ {n} : SameCopy(m)
    BY <1>1, <2>1 DEF World, SameCopy
  <2>3. copies'[n] # NoCopy
    BY <2>2, Nothing
  <2> QED BY <1>2, <2>1, <2>2, <2>3
          DEF Call, Makes, At, SameSecret, SameEntry, SameSwept, Header
<1>8. CASE DeleteBranch(n)
  <2>1. /\ pass' = [pass EXCEPT !.swept = @ \cup {n}] /\ pass.asked[n] = None
        /\ copies' = [copies EXCEPT ![n] = NoCopy]
        /\ Frame /\ UNCHANGED <<made, secret, binding, displaced>>
    BY <1>8 DEF DeleteBranch, Goes, Unasked, Frame
  <2>2. /\ pass'.listed = pass.listed /\ Header /\ pass'.at = pass.at
        /\ pass'.swept = pass.swept \cup {n} /\ pass'.todo = pass.todo
        /\ pass'.retained = pass.retained
    BY <1>1, <2>1 DEF Passes, Header
  <2>3. copies'[n] = NoCopy /\ made'[n] = made[n] /\ \A m \in Name \ {n} : SameCopy(m)
    BY <1>1, <2>1 DEF World, SameCopy
  <2> QED BY <1>2, <2>1, <2>2, <2>3
          DEF Call, Destroys, At, SameSecret, SameEntry, SameSwept
<1>9. CASE DeleteBranchFails(n)
  <2>1. /\ pass' = [Lists(n, pass.listed[n]) EXCEPT !.failed = TRUE]
        /\ Frame /\ UNCHANGED <<copies, made, secret, binding, displaced>>
    BY <1>9 DEF DeleteBranchFails, EntryKept, Listed, Goes, Frame
  <2>2. pass.listed[n] \in Entries
    BY <1>1 DEF Passes, Listing
  <2>3. /\ pass'.listed[n] = pass.listed[n] /\ \A m \in Name \ {n} : SameEntry(m)
        /\ \A m \in Name : SameSwept(m)
        /\ Header /\ pass'.at = pass.at /\ pass'.todo \subseteq pass.todo
        /\ pass'.retained = pass.retained
    BY <1>4, <2>1, <2>2
  <2> QED BY <1>2, <2>1, <2>3 DEF Call, Stays, At, SameCopy, SameSecret, SameEntry
<1>10. CASE DeleteCopySecret(n)
  <2>1. /\ pass' = Lists(n, Unlisted)
        /\ n \in pass.swept \/ (pass.asked[n] = None /\ ~pass.listed[n].has)
        /\ secret' = [secret EXCEPT ![n] = IF pass.listed[n].has THEN NoDb ELSE @]
        /\ Frame /\ UNCHANGED <<copies, made, binding, displaced>>
    BY <1>10 DEF DeleteCopySecret, Goes, Unasked, Listed, Frame
  <2>2. pass.asked[n] = None
    BY <1>2, <2>1 DEF Facts, PassFacts
  <2>3. /\ secret'[n] = IF pass.listed[n].has THEN NoDb ELSE secret[n]
        /\ \A m \in Name \ {n} : SameSecret(m)
        /\ \A m \in Name : SameCopy(m)
    BY <1>1, <2>1 DEF World, SameSecret, SameCopy
  <2> QED BY <1>2, <1>4, <2>1, <2>2, <2>3, Nothing DEF Call, Drops, At
<1> QED BY <1>3, <1>5, <1>6, <1>7, <1>8, <1>9, <1>10 DEF Sibling

\* The pass goes on to its next part.
Turns ==
    /\ Active /\ Active' /\ pass.at # "bind"
    /\ Frame /\ Header /\ UNCHANGED <<copies, made, secret, displaced>>
    /\ pass'.todo = pass.todo /\ pass'.swept = pass.swept /\ pass'.retained = pass.retained
    /\ pass'.listed = pass.listed \/ (pass'.listed = pass.old /\ pass'.at = "bind")
    /\ binding' \in {binding, Instance}

LEMMA TurnsDo ==
    ASSUME TypeOK,
           Provision \/ SecretRefused \/ SiblingsDone \/ NotPromoted \/ PromotionRefused
    PROVE  Turns
<1> USE DEF spec, recorded, provider, secrets, bounds, history
<1>1. pass \in Passes
  BY TypeParts
<1>2. /\ Frame /\ UNCHANGED <<copies, made, secret, displaced>>
      /\ binding' \in {binding, Instance} /\ pass.at \in {"provision", "siblings", "promote"}
  BY DEF Provision, SecretRefused, SiblingsDone, NotPromoted, PromotionRefused, Goes, Frame
<1>3. \/ \E at \in {"siblings", "promote", "bind"} : pass' = [pass EXCEPT !.at = at]
      \/ pass' = [pass EXCEPT !.at = "bind", !.listed = pass.old]
  BY DEF Provision, SecretRefused, SiblingsDone, NotPromoted, PromotionRefused, Goes
<1> QED BY <1>1, <1>2, <1>3 DEF Turns, Active, Header, Passes

LEMMA PromoteDoes ==
    ASSUME TypeOK, PromoteRecovery
    PROVE  /\ pass.at = "promote" /\ pass'.at = "bind" /\ pass.promoted \in Name
           /\ pass.listed[pass.promoted].phase = "Ready" /\ secret[pass.promoted] # NoDb
           /\ Frame /\ Header /\ UNCHANGED <<copies, made, secret>>
           /\ pass'.todo = pass.todo /\ pass'.swept = pass.swept
           /\ binding' = secret[pass.promoted]
           /\ displaced \subseteq displaced'
           /\ \A db \in displaced' \ displaced :
                 db = binding /\ (db = Instance \/ listed[db[1]].bound)
<1>1. /\ pass.at = "promote" /\ pass'.at = "bind" /\ pass.promoted \in Name
      /\ pass'.todo = pass.todo /\ pass'.swept = pass.swept
      /\ pass'.asked = pass.asked /\ pass'.promoted = pass.promoted
      /\ pass'.old = pass.old /\ pass'.fresh = pass.fresh
  BY PromotedFields DEF PromoteRecovery
<1>2. /\ pass.listed[pass.promoted].phase = "Ready" /\ secret[pass.promoted] # NoDb
      /\ Frame /\ UNCHANGED <<copies, made, secret>> /\ binding' = secret[pass.promoted]
  BY DEF PromoteRecovery, Promotable, Listed, Frame, spec, recorded, provider, bounds
<1>3. /\ displaced \subseteq displaced'
      /\ \A db \in displaced' \ displaced :
            db = binding /\ (db = Instance \/ listed[db[1]].bound)
  BY DEF PromoteRecovery
<1> QED BY <1>1, <1>2, <1>3 DEF Header

LEMMA BeginDoes ==
    ASSUME TypeOK, Begin
    PROVE  /\ ~Active /\ Active' /\ claim = "live"
           /\ Frame /\ UNCHANGED <<copies, made, secret, binding, displaced>>
           /\ pass'.asked = asked /\ pass'.promoted = promoted /\ pass'.listed = listed
           /\ pass'.old = listed /\ pass'.retained = retained /\ pass'.swept = {}
           /\ pass'.at = "provision"
           /\ \A n \in Name : n \in pass'.todo <=> asked[n] # None \/ listed[n] # Unlisted
BY DEF Begin, Goes, Active, Frame, spec, recorded, provider, secrets, history

LEMMA EndDoes ==
    ASSUME TypeOK, Bind \/ PassEnds
    PROVE  /\ Active /\ ~Active' /\ pass' = Idle
           /\ UNCHANGED <<claim, asked, promoted, instance, policy, uses, astray,
                          copies, made, secret, binding, displaced>>
           /\ \/ UNCHANGED <<listed, retained>>
              \/ listed' = pass.listed /\ retained' = pass.retained
BY Nothing DEF Bind, PassEnds, Goes, Active, spec, recorded, provider, secrets, history

\* A request leaves a pass under way as it is, but for being up to date.
Edited ==
    /\ claim = "live"
    /\ UNCHANGED <<listed, retained, instance, policy, copies, made, secret, binding, displaced>>
    /\ pass'.at = pass.at /\ pass'.asked = pass.asked /\ pass'.promoted = pass.promoted
    /\ pass'.listed = pass.listed /\ pass'.old = pass.old /\ pass'.retained = pass.retained
    /\ pass'.todo = pass.todo /\ pass'.swept = pass.swept

LEMMA EditDoes ==
    ASSUME TypeOK, NEW a, NEW p, Edit(a, p)
    PROVE  Edited /\ claim' = claim /\ asked' = a /\ promoted' = p
<1>1. pass' = [pass EXCEPT !.fresh = FALSE]
  BY DEF Edit
<1> QED BY <1>1, TypeParts DEF Edit, Edited, Passes, recorded, provider, secrets

LEMMA DeleteDoes ==
    ASSUME TypeOK, DeleteClaim
    PROVE  /\ Edited /\ claim' = "deleting"
           /\ UNCHANGED <<asked, promoted, uses, astray>>
<1>1. pass' = [pass EXCEPT !.fresh = FALSE]
  BY DEF DeleteClaim
<1> QED BY <1>1, TypeParts DEF DeleteClaim, Edited, Passes, recorded, provider, secrets, history

\* What one of a user's requests does to a name.
LEMMA CreateDoes ==
    ASSUME TypeOK, NEW n \in Name, NEW at \in Moment, CreateRecovery(n, at)
    PROVE  /\ Edited /\ claim' = claim /\ promoted' = promoted /\ asked[n] = None
           /\ asked'[n] = at /\ at # None
           /\ uses'[n] = uses[n] + 1
           /\ \A m \in Name \ {n} : asked'[m] = asked[m] /\ uses'[m] = uses[m]
           /\ astray \subseteq astray' /\ (n \notin astray' => ~Traces(n))
<1>1. World /\ at # None
  BY TypeParts, ClaimRecoveryAssumption
<1>2. Edited /\ claim' = claim /\ asked' = [asked EXCEPT ![n] = at] /\ promoted' = promoted
  BY EditDoes DEF CreateRecovery
<1> QED BY <1>1, <1>2 DEF CreateRecovery, Strays, World, Asked

LEMMA DiscardDoes ==
    ASSUME TypeOK, NEW n \in Name, DeleteRecovery(n)
    PROVE  /\ Edited /\ claim' = claim /\ promoted' = promoted /\ uses' = uses
           /\ promoted # n /\ asked'[n] = None
           /\ \A m \in Name \ {n} : asked'[m] = asked[m]
           /\ astray \subseteq astray'
           /\ n \notin astray' => binding[1] # n /\ pass.promoted # n
<1>1. Edited /\ claim' = claim /\ asked' = [asked EXCEPT ![n] = None] /\ promoted' = promoted
  BY EditDoes DEF DeleteRecovery
<1> QED BY <1>1, TypeParts DEF DeleteRecovery, MayDiscard, Strays, World, Asked

LEMMA PromotionDoes ==
    ASSUME TypeOK, NEW n \in Name, PromoteClaimRecovery(n)
    PROVE  /\ Edited /\ claim' = claim /\ asked' = asked /\ uses' = uses
           /\ promoted' = n
           /\ astray \subseteq astray' /\ (n \notin astray' => asked[n] # None)
<1>1. Edited /\ claim' = claim /\ asked' = asked /\ promoted' = n
  BY EditDoes DEF PromoteClaimRecovery
<1> QED BY <1>1, TypeParts DEF PromoteClaimRecovery, Strays, World

\* What is left to a claim that is being deleted.
LEMMA FinalizeDoes ==
    ASSUME TypeOK, Finalize
    PROVE  /\ claim # "live" /\ claim' # "live" /\ ~Active /\ ~Active' /\ pass' = pass
           /\ UNCHANGED <<asked, promoted, listed, retained, made, uses, astray, displaced>>
           /\ \A n \in Name : \/ copies'[n] = copies[n]
                              \/ copies'[n] = NoCopy
           /\ \A n \in Name : secret'[n] \in {secret[n], NoDb}
           /\ binding' \in {binding, NoDb}
<1> USE DEF spec, recorded, provider, secrets, bounds, history
<1>1. World /\ pass' = pass /\ claim = "deleting" /\ pass.at = "idle"
  BY TypeParts DEF Finalize, Deprovision, Release, ReleaseAlone, FinalizeCopy, FinalizeSecret,
                   Finalizing
<1>2. CASE Deprovision \/ Release \/ ReleaseAlone
  BY <1>1, <1>2 DEF Deprovision, Release, ReleaseAlone, Active
<1>3. ASSUME NEW n \in Name, FinalizeCopy(n) \/ FinalizeSecret(n)
      PROVE  /\ claim' # "live"
             /\ UNCHANGED <<asked, promoted, listed, retained, made, uses, astray, displaced,
                            binding>>
             /\ \A m \in Name : copies'[m] = copies[m] \/ copies'[m] = NoCopy
             /\ \A m \in Name : secret'[m] \in {secret[m], NoDb}
  BY <1>1, <1>3 DEF FinalizeCopy, FinalizeSecret, World
<1> QED BY <1>1, <1>2, <1>3 DEF Finalize, Active

\* What the provider and the cluster do.
LEMMA ClusterDoes ==
    ASSUME TypeOK, SecretLost \/ \E n \in Name : Filled(n) \/ Breaks(n)
    PROVE  /\ Frame /\ pass' = pass /\ UNCHANGED <<made, displaced>>
           /\ \A n \in Name :
                 \/ copies'[n] = copies[n]
                 \/ /\ copies[n].state = "filling" /\ copies'[n].state \in {"serving", "broken"}
                    /\ copies'[n].db = copies[n].db /\ copies'[n].at = copies[n].at
                    /\ copies[n] # NoCopy
           /\ \A n \in Name : secret'[n] \in {secret[n], NoDb}
           /\ binding' \in {binding, NoDb}
<1> USE DEF spec, recorded, provider, secrets, bounds, history
<1>1. World
  BY TypeParts
<1>2. CASE SecretLost
  BY <1>1, <1>2 DEF SecretLost, Frame, World
<1>3. ASSUME NEW n \in Name, Filled(n) \/ Breaks(n)
      PROVE  /\ Frame /\ pass' = pass /\ UNCHANGED <<made, displaced, secret, binding>>
             /\ \A m \in Name \ {n} : copies'[m] = copies[m]
             /\ copies[n].state = "filling" /\ copies'[n].state \in {"serving", "broken"}
             /\ copies'[n].db = copies[n].db /\ copies'[n].at = copies[n].at
  <2>1. copies[n] \in Copies
    BY <1>1 DEF World
  <2>2. \A st \in {"serving", "broken"} :
           LET c == [copies[n] EXCEPT !.state = st]
           IN  c.state = st /\ c.db = copies[n].db /\ c.at = copies[n].at
    BY <2>1 DEF Copies
  <2> QED BY <1>1, <1>3, <2>2 DEF Filled, Breaks, Frame, World
<1> QED BY <1>2, <1>3, Nothing

LEMMA SameDoes ==
    ASSUME UNCHANGED vars
    PROVE  /\ Frame /\ UNCHANGED <<copies, made, secret, binding, pass, displaced>>
BY DEF vars, Frame, spec, recorded, provider, secrets, bounds, history

-----------------------------------------------------------------------------
(***************************************************************************)
(* Every step, by what it does                                             *)
(***************************************************************************)
LEMMA Steps ==
    ASSUME TypeOK, Facts, [Next]_vars
    PROVE  \/ \E n \in Name :
                 /\ Call(n)
                 /\ Stays(n) \/ Writes(n) \/ Waits(n) \/ Makes(n) \/ Destroys(n) \/ Drops(n)
           \/ Turns \/ PromoteRecovery \/ Begin \/ Bind \/ PassEnds
           \/ \E n \in Name : \/ \E at \in Moment : CreateRecovery(n, at)
                              \/ DeleteRecovery(n) \/ PromoteClaimRecovery(n)
           \/ DeleteClaim \/ Finalize
           \/ SecretLost \/ \E n \in Name : Filled(n) \/ Breaks(n)
           \/ UNCHANGED vars
<1>1. CASE Pass
  <2>1. ASSUME NEW n \in Name, Sibling(n)
        PROVE  /\ Call(n)
               /\ Stays(n) \/ Writes(n) \/ Waits(n) \/ Makes(n) \/ Destroys(n) \/ Drops(n)
    BY <2>1, SiblingDoes
  <2> QED BY <1>1, <2>1, TurnsDo DEF Pass
<1> QED BY <1>1 DEF Next

\* A database made later is not one made before.
LEMMA MadeGrows ==
    ASSUME NEW n \in Name, made[n] \in Nat, made'[n] \in Nat, made[n] <= made'[n],
           NEW db \in Dbs, Made(n, db)
    PROVE  Made(n, db)'
BY DEF Made, Dbs

LEMMA CallFacts ==
    ASSUME TypeOK, TypeOK', Facts, NEW n \in Name, Call(n),
           Stays(n) \/ Writes(n) \/ Waits(n) \/ Makes(n) \/ Destroys(n) \/ Drops(n)
    PROVE  Facts'
<1>1. /\ pass.at = "siblings" /\ Active /\ Active' /\ n \in pass.todo
      /\ Frame /\ Header /\ binding' = binding /\ pass'.todo \subseteq pass.todo
      /\ \A m \in Name \ {n} : SameCopy(m) /\ SameSecret(m) /\ SameEntry(m) /\ SameSwept(m)
  BY DEF Call, Active
<1>2. /\ \A m \in Name : made[m] \in Nat /\ made'[m] \in Nat /\ secret[m] \in Dbs
      /\ binding \in Dbs
  BY TypeParts DEF TypeOK, World
<1>3. NameFacts(n) /\ PassFacts(n) /\ Whole(listed[n])
  BY <1>1 DEF Facts, NameFacts
<1>4. copies[n].state = "serving" => copies[n] # NoCopy
  BY Nothing
<1>5. made[n] <= made'[n]
  BY <1>2 DEF Stays, Writes, Waits, Makes, Destroys, Drops, SameCopy
<1>6. NameFacts(n)'
  <2>1. copies'[n] # NoCopy => copies'[n].db = <<n, made'[n]>> /\ copies'[n].state # "none"
    BY <1>3 DEF Stays, Writes, Waits, Makes, Destroys, Drops, SameCopy, NameFacts
  <2>2. secret'[n] = secret[n] \/ secret'[n] = NoDb \/ secret'[n] = <<n, made[n]>>
    BY <1>3, <1>4
       DEF Stays, Writes, Waits, Makes, Destroys, Drops, SameSecret, NameFacts
  <2>3. Made(n, secret[n])' 
    <3>1. CASE secret'[n] = secret[n]
      BY <1>2, <1>3, <1>5, <3>1, MadeGrows DEF NameFacts
    <3>2. CASE secret'[n] = NoDb \/ secret'[n] = <<n, made[n]>>
      BY <1>5, <3>2 DEF Made
    <3> QED BY <2>2, <3>1, <3>2
  <2> QED BY <1>1, <1>3, <2>1, <2>3 DEF NameFacts, Frame
<1>7. PassFacts(n)'
  <2>1. Whole(pass'.listed[n])
    BY <1>3, Nothing
       DEF Stays, Writes, Waits, Makes, Destroys, Drops, SameEntry, PassFacts, Whole
  <2>2. n \in pass'.swept => pass'.asked[n] = None /\ copies'[n] = NoCopy
    BY <1>1, <1>3 DEF Stays, Writes, Waits, Makes, Destroys, Drops, SameSwept, SameCopy,
                      PassFacts, Header
  <2>3. pass'.asked[n] = None => listed'[n] # Unlisted
    BY <1>1, <1>3 DEF PassFacts, Header, Frame
  <2> QED BY <2>1, <2>2, <2>3 DEF PassFacts
<1>8. ASSUME NEW m \in Name \ {n} PROVE NameFacts(m)' /\ PassFacts(m)'
  BY <1>1 DEF Facts, NameFacts, PassFacts, SameCopy, SameSecret, SameEntry, SameSwept,
              Made, Frame, Header
<1>9. \A m \in Name : binding'[1] = m => Made(m, binding)'
  <2> SUFFICES ASSUME NEW m \in Name, binding[1] = m PROVE Made(m, binding)'
    BY <1>1
  <2>1. Made(m, binding) /\ made[m] <= made'[m]
    BY <1>1, <1>2, <1>5 DEF Facts, SameCopy
  <2> QED BY <1>1, <1>2, <2>1, MadeGrows
<1> QED BY <1>1, <1>6, <1>7, <1>8, <1>9 DEF Facts, Frame, Header

LEMMA FactsInit == Init => Facts
BY Nothing, Numbers DEF Init, Facts, NameFacts, PassFacts, Made, Whole, Active

LEMMA FactsNext ==
    ASSUME TypeOK, TypeOK', Facts, [Next]_vars
    PROVE  Facts'
<1>1. /\ World /\ pass \in Passes
      /\ \A m \in Name : made[m] \in Nat /\ secret[m] \in Dbs /\ m # None
      /\ binding \in Dbs /\ NoDb[1] = None /\ Instance[1] = None
  BY TypeParts, Numbers DEF World
<1>2. CASE Turns
  <2>1. \A n \in Name : NameFacts(n)'
    BY <1>2 DEF Turns, Frame, Facts, NameFacts, Made
  <2>2. \A n \in Name : PassFacts(n)'
    BY <1>2 DEF Turns, Frame, Header, Facts, NameFacts, PassFacts
  <2>3. \A m \in Name : binding'[1] = m => binding' = binding
    BY <1>2, <1>1 DEF Turns
  <2> QED BY <1>1, <1>2, <2>1, <2>2, <2>3 DEF Turns, Frame, Header, Facts, Made
<1>3. CASE PromoteRecovery
  <2>1. /\ pass.promoted \in Name /\ Frame /\ Header /\ UNCHANGED <<copies, made, secret>>
        /\ binding' = secret[pass.promoted] /\ Active /\ secret[pass.promoted] # NoDb
        /\ pass'.todo = pass.todo /\ pass'.swept = pass.swept
    BY <1>3, PromoteDoes DEF Active
  <2>2. \A n \in Name : NameFacts(n)'
    BY <2>1 DEF Frame, Facts, NameFacts, Made
  <2>3. \A n \in Name : Whole(pass'.listed[n])
    <3>1. \A n \in Name : Whole(pass.listed[n])
      BY <2>1 DEF Facts, PassFacts
    <3>2. pass.listed[pass.promoted].phase = "Ready"
      BY <1>3, PromoteDoes
    <3>3. pass'.listed = pass.listed \/ pass'.listed = Marks(pass.promoted)
      BY <1>3, PromotedFields
    <3>4. \A n \in Name : /\ Marks(pass.promoted)[n].phase = pass.listed[n].phase
                          /\ Marks(pass.promoted)[n].has = pass.listed[n].has
                          /\ Marks(pass.promoted)[n].bound => n = pass.promoted
      BY <1>1, <2>1, DisplacedFields
    <3> QED BY <3>1, <3>2, <3>3, <3>4 DEF Whole
  <2>4. \A n \in Name : PassFacts(n)'
    BY <2>1, <2>3 DEF Facts, PassFacts, Frame, Header
  <2>5. binding'[1] = pass.promoted /\ Made(pass.promoted, binding)'
    <3>1. Made(pass.promoted, secret[pass.promoted])
      BY <2>1 DEF Facts, NameFacts
    <3>2. UNCHANGED made
      BY <2>1
    <3> QED BY <2>1, <3>1, <3>2 DEF Made, Header
  <2> QED BY <1>1, <2>1, <2>2, <2>4, <2>5 DEF Facts, Frame, Header
<1>4. CASE Begin
  BY <1>4, BeginDoes DEF Frame, Facts, NameFacts, PassFacts, Made
<1>5. CASE Bind \/ PassEnds
  <2>1. \A n \in Name : Whole(listed[n]) /\ Whole(pass.listed[n])
    BY <1>5, EndDoes DEF Facts, NameFacts, PassFacts
  <2>2. /\ ~Active' /\ UNCHANGED <<claim, instance, copies, made, secret, binding>>
        /\ listed' = listed \/ listed' = pass.listed
    BY <1>5, EndDoes
  <2> QED BY <2>1, <2>2 DEF Facts, NameFacts, Made
<1>6. CASE Edited
  BY <1>6 DEF Edited, Facts, NameFacts, PassFacts, Made, Active
<1>7. CASE Finalize
  <2>1. /\ claim' # "live" /\ ~Active' /\ UNCHANGED <<listed, made>>
        /\ \A n \in Name : copies'[n] = copies[n] \/ copies'[n] = NoCopy
        /\ \A n \in Name : secret'[n] \in {secret[n], NoDb}
        /\ binding' \in {binding, NoDb}
    BY <1>7, FinalizeDoes
  <2>2. \A n \in Name : NameFacts(n)'
    BY <2>1 DEF Facts, NameFacts, Made
  <2> QED BY <1>1, <2>1, <2>2 DEF Facts, Made
<1>8. CASE SecretLost \/ \E n \in Name : Filled(n) \/ Breaks(n)
  <2>1. /\ Frame /\ pass' = pass /\ made' = made
        /\ \A n \in Name :
              \/ copies'[n] = copies[n]
              \/ /\ copies'[n].state \in {"serving", "broken"} /\ copies[n] # NoCopy
                 /\ copies'[n].db = copies[n].db
        /\ \A n \in Name : secret'[n] \in {secret[n], NoDb}
        /\ binding' \in {binding, NoDb}
    BY <1>8, ClusterDoes
  <2>2. \A n \in Name : NameFacts(n)'
    BY <2>1 DEF Facts, NameFacts, Made, Frame
  <2>3. Active => \A n \in Name : PassFacts(n)'
    <3> SUFFICES ASSUME Active, NEW n \in Name PROVE PassFacts(n)'
      OBVIOUS
    <3>1. PassFacts(n)
      BY DEF Facts
    <3>2. copies[n] = NoCopy => copies'[n] = NoCopy
      BY <2>1
    <3> QED BY <2>1, <3>1, <3>2 DEF PassFacts, Frame
  <2> QED BY <1>1, <2>1, <2>2, <2>3 DEF Facts, Made, Frame, Active
<1>9. CASE UNCHANGED vars
  BY <1>9, SameDoes DEF Facts, NameFacts, PassFacts, Made, Active, Frame
<1>10. ASSUME NEW n \in Name, NEW at \in Moment, CreateRecovery(n, at) PROVE Edited
  BY <1>10, CreateDoes
<1> QED BY <1>2, <1>3, <1>4, <1>5, <1>6, <1>7, <1>8, <1>9, <1>10, Steps, CallFacts,
           DiscardDoes, PromotionDoes, DeleteDoes

-----------------------------------------------------------------------------
(***************************************************************************)
(* Nothing listed is forgotten                                             *)
(***************************************************************************)
LEMMA ForgetNext ==
    ASSUME TypeOK, TypeOK', Facts, ForgetInv, [Next]_vars
    PROVE  ForgetInv'
<1>1. ASSUME NEW n \in Name, Call(n),
             Stays(n) \/ Writes(n) \/ Waits(n) \/ Makes(n) \/ Destroys(n) \/ Drops(n)
      PROVE  ForgetInv'
  <2>1. Active /\ Frame /\ Header /\ Forgotten(n) /\ PassFacts(n)
    BY <1>1 DEF Call, Active, ForgetInv, Facts
  <2>2. Forgotten(n)'
    BY <1>1, <2>1 DEF Stays, Writes, Waits, Makes, Destroys, Drops, SameCopy, SameSecret,
                      SameEntry, Forgotten, PassFacts, Frame, Header
  <2>3. \A m \in Name \ {n} : Forgotten(m)'
    BY <1>1, <2>1 DEF Call, SameCopy, SameSecret, SameEntry, ForgetInv, Forgotten, Frame, Header
  <2> QED BY <2>2, <2>3 DEF ForgetInv
<1>2. CASE Turns
  BY <1>2 DEF Turns, Frame, Header, ForgetInv, Forgotten, Facts
<1>3. CASE PromoteRecovery
  <2>1. \A n \in Name : pass'.listed[n].has = pass.listed[n].has
    BY <1>3, PromotedFields, DisplacedFields, TypeParts
  <2> QED BY <1>3, <2>1, PromoteDoes DEF Active, Frame, Header, ForgetInv, Forgotten
<1>4. CASE Begin
  BY <1>4, BeginDoes DEF ForgetInv, Forgotten, Frame
<1>5. CASE Bind \/ PassEnds \/ Finalize
  BY <1>5, EndDoes, FinalizeDoes DEF ForgetInv
<1>6. CASE Edited
  BY <1>6 DEF Edited, ForgetInv, Forgotten, Active
<1>7. CASE SecretLost \/ \E n \in Name : Filled(n) \/ Breaks(n)
  <2>1. /\ listed' = listed /\ pass' = pass
        /\ \A n \in Name : copies[n] = NoCopy => copies'[n] = NoCopy
        /\ \A n \in Name : secret[n] = NoDb => secret'[n] = NoDb
    BY <1>7, ClusterDoes DEF Frame
  <2> QED BY <2>1 DEF ForgetInv, Forgotten, Active
<1>8. CASE UNCHANGED vars
  BY <1>8, SameDoes DEF ForgetInv, Forgotten, Active, Frame
<1>9. ASSUME NEW n \in Name, NEW at \in Moment, CreateRecovery(n, at) PROVE Edited
  BY <1>9, CreateDoes
<1> QED BY <1>1, <1>2, <1>3, <1>4, <1>5, <1>6, <1>7, <1>8, <1>9, Steps,
           DiscardDoes, PromotionDoes, DeleteDoes

\* The entries go with the write of a pass, and the claim with its last one.
Forgets ==
    \A n \in Name :
       /\ listed[n].has
       /\ \/ ~listed'[n].has
          \/ claim # "gone" /\ claim' = "gone" /\ policy = "Delete"
       => copies'[n] = NoCopy /\ secret'[n] = NoDb

LEMMA ForgetStep ==
    ASSUME TypeOK, Facts, ForgetInv, [Next]_vars
    PROVE  Forgets
<1>1. CASE UNCHANGED <<listed, claim>>
  BY <1>1 DEF Forgets
<1>2. CASE Bind \/ PassEnds
  BY <1>2, EndDoes DEF Forgets, ForgetInv, Forgotten
<1>3. CASE Finalize
  <2>1. CASE Release
    <3>1. /\ listed' = listed /\ copies' = copies /\ secret' = secret
          /\ policy = "Delete" => \A n \in Name : listed[n].has => copies[n] = NoCopy
          /\ \A n \in Name : listed[n].has => secret[n] = NoDb
      BY <2>1 DEF Release, CopiesSettled, ToDestroy, recorded, provider
    <3> QED BY <3>1 DEF Forgets
  <2>2. ~Release => (listed' = listed /\ claim' # "gone") \/ UNCHANGED <<listed, claim>>
    BY <1>3 DEF Finalize, Deprovision, ReleaseAlone, FinalizeCopy, FinalizeSecret, Finalizing,
                spec, recorded
  <2> QED BY <2>1, <2>2 DEF Forgets
<1>4. CASE DeleteClaim
  BY <1>4, DeleteDoes DEF Edited, Forgets
<1>5. ASSUME NEW n \in Name, NEW at \in Moment, CreateRecovery(n, at)
      PROVE  UNCHANGED <<listed, claim>>
  BY <1>5, CreateDoes DEF Edited
<1>6. Turns \/ PromoteRecovery \/ Begin \/ SecretLost
      \/ (\E n \in Name : Call(n) \/ Filled(n) \/ Breaks(n)) \/ UNCHANGED vars
      => UNCHANGED <<listed, claim>>
  BY PromoteDoes, BeginDoes, ClusterDoes, SameDoes DEF Turns, Call, Frame
<1> QED BY <1>1, <1>2, <1>3, <1>4, <1>5, <1>6, Steps, DiscardDoes, PromotionDoes DEF Edited

-----------------------------------------------------------------------------
(***************************************************************************)
(* No request is met twice                                                 *)
(***************************************************************************)
LEMMA CountNext ==
    ASSUME TypeOK, TypeOK', Facts, CountInv, [Next]_vars
    PROVE  CountInv'
<1>1. /\ \A n \in Name : made[n] \in Nat /\ uses[n] \in Nat /\ uses'[n] \in Nat
      /\ \A n \in Name : made'[n] \in Nat
  BY DEF TypeOK
<1>2. ASSUME NEW n \in Name, Call(n),
             Stays(n) \/ Writes(n) \/ Waits(n) \/ Makes(n) \/ Destroys(n) \/ Drops(n)
      PROVE  CountInv'
  <2>1. /\ Active /\ Active' /\ Frame /\ Header /\ Counted(n) /\ n \in pass.todo
        /\ \A m \in Name \ {n} : SameCopy(m) /\ Counted(m)
    BY <1>2 DEF Call, Active, CountInv
  <2>2. Counted(n)'
    BY <1>1, <1>2, <2>1 DEF Stays, Writes, Waits, Makes, Destroys, Drops, SameCopy, Counted,
                            Frame, Header
  <2>3. \A m \in Name \ {n} : Counted(m)'
    BY <2>1 DEF SameCopy, Counted, Frame, Header
  <2> QED BY <2>2, <2>3 DEF CountInv
<1>3. CASE Turns
  BY <1>3 DEF Turns, Frame, Header, CountInv, Counted
<1>4. CASE PromoteRecovery
  BY <1>4, PromoteDoes DEF Active, Frame, Header, CountInv, Counted
<1>5. CASE Begin
  BY <1>5, BeginDoes DEF Frame, CountInv, Counted
<1>6. CASE Bind \/ PassEnds
  BY <1>6, EndDoes DEF CountInv, Counted
<1>7. CASE Finalize
  BY <1>7, FinalizeDoes DEF CountInv, Counted
<1>8. ASSUME NEW n \in Name, NEW at \in Moment, CreateRecovery(n, at)
      PROVE  CountInv'
  <2>1. /\ Edited /\ claim' = claim /\ asked[n] = None /\ uses'[n] = uses[n] + 1
        /\ \A m \in Name \ {n} : asked'[m] = asked[m] /\ uses'[m] = uses[m]
    BY <1>8, CreateDoes
  <2>2. Counted(n)'
    BY <1>1, <2>1 DEF Edited, CountInv, Counted
  <2>3. \A m \in Name \ {n} : Counted(m)'
    BY <2>1 DEF Edited, CountInv, Counted, Active
  <2> QED BY <2>2, <2>3 DEF CountInv
<1>9. ASSUME NEW n \in Name, DeleteRecovery(n) PROVE CountInv'
  <2>1. /\ Edited /\ claim' = claim /\ asked'[n] = None /\ uses' = uses
        /\ \A m \in Name \ {n} : asked'[m] = asked[m]
    BY <1>9, DiscardDoes
  <2> QED BY <2>1 DEF Edited, CountInv, Counted, Active
<1>10. ASSUME NEW n \in Name, PromoteClaimRecovery(n) PROVE CountInv'
  BY <1>10, PromotionDoes DEF Edited, CountInv, Counted, Active
<1>11. CASE DeleteClaim
  BY <1>11, DeleteDoes DEF Edited, CountInv, Counted, Active
<1>12. CASE SecretLost \/ \E n \in Name : Filled(n) \/ Breaks(n)
  <2>1. /\ Frame /\ pass' = pass /\ made' = made
        /\ \A n \in Name : copies'[n] = NoCopy => copies[n] = NoCopy
    BY <1>12, ClusterDoes, Nothing
  <2> QED BY <2>1 DEF Frame, CountInv, Counted, Active
<1>13. CASE UNCHANGED vars
  BY <1>13, SameDoes DEF Frame, CountInv, Counted, Active
<1> QED BY <1>2, <1>3, <1>4, <1>5, <1>6, <1>7, <1>8, <1>9, <1>10, <1>11, <1>12, <1>13, Steps

-----------------------------------------------------------------------------
(***************************************************************************)
(* What was asked for in time is there                                     *)
(***************************************************************************)
\* What is said of a name is the same if nothing it is about has changed.
LEMMA FineSame ==
    ASSUME NEW n \in Name, Fine(n),
           UNCHANGED <<promoted, claim>>, copies'[n] = copies[n], asked'[n] = asked[n],
           listed'[n] = listed[n], secret'[n] \in {secret[n], NoDb},
           binding' = binding \/ binding'[1] # n,
           pass'.asked = pass.asked, pass'.promoted = pass.promoted,
           pass'.todo \subseteq pass.todo, Active' => Active,
           Fits(pass'.listed[n], n) \/ pass'.listed[n] = pass.listed[n],
           pass.listed[n] = Unlisted => pass'.listed[n] = Unlisted
    PROVE  Fine(n)'
BY DEF Fine, Held, Fits, PassHolds

LEMMA CallFine ==
    ASSUME TypeOK, TypeOK', Facts, claim = "live", FineInv, NEW n \in Name, Call(n),
           Stays(n) \/ Writes(n) \/ Waits(n) \/ Makes(n) \/ Destroys(n) \/ Drops(n)
    PROVE  FineInv'
<1>1. /\ Active /\ Active' /\ n \in pass.todo /\ Frame /\ Header /\ binding' = binding
      /\ pass'.todo \subseteq pass.todo
      /\ \A m \in Name \ {n} : SameCopy(m) /\ SameSecret(m) /\ SameEntry(m)
  BY DEF Call, Active
<1>2. \A m \in Name \ {n} : m \notin astray => Fine(m)'
  <2> SUFFICES ASSUME NEW m \in Name \ {n}, m \notin astray PROVE Fine(m)'
    OBVIOUS
  <2>1. Fine(m)
    BY DEF FineInv
  <2> QED BY <1>1, <2>1, FineSame DEF Frame, Header, SameCopy, SameSecret, SameEntry
<1>3. ASSUME n \notin astray PROVE Fine(n)'
  <2>1. Fine(n) /\ PassFacts(n) /\ NameFacts(n)
    BY <1>1, <1>3 DEF FineInv, Facts
  <2>2. NoCopy.state = "none" /\ ~Unlisted.has /\ Unlisted.phase = "none"
    BY Nothing
  <2>3. CASE Destroys(n) \/ Drops(n)
    <3>1. pass.asked[n] = None /\ asked[n] = None
      BY <1>1, <2>1, <2>3 DEF Destroys, Drops, Fine, PassHolds
    <3>2. promoted # n /\ binding[1] # n /\ pass.promoted # n
      BY <1>1, <2>1, <3>1 DEF Fine
    <3> QED BY <1>1, <3>1, <3>2 DEF Fine, Held, PassHolds, Frame, Header
  <2>4. CASE Stays(n)
    BY <1>1, <2>1, <2>4, FineSame DEF Stays, SameCopy, SameSecret, SameEntry, Frame, Header
  <2>5. CASE Waits(n)
    BY <1>1, <2>1, <2>5 DEF Waits, SameCopy, SameSecret, Frame, Header,
                            Fine, Held, PassHolds, Fits
  <2>6. CASE Writes(n)
    BY <1>1, <2>1, <2>6 DEF Writes, SameCopy, Frame, Header, Fine, Held, PassHolds, Fits
  <2>7. CASE Makes(n)
    BY <1>1, <2>1, <2>2, <2>7 DEF Makes, SameSecret, SameEntry, Frame, Header,
                                  Fine, Held, PassHolds, Fits
  <2> QED BY <2>3, <2>4, <2>5, <2>6, <2>7
<1> QED BY <1>1, <1>2, <1>3 DEF FineInv, Frame

LEMMA PromoteFine ==
    ASSUME TypeOK, TypeOK', Facts, claim = "live", FineInv, PromoteRecovery
    PROVE  FineInv'
<1> DEFINE p == pass.promoted
<1>1. /\ p \in Name /\ Active /\ Active' /\ Frame /\ Header /\ UNCHANGED <<copies, secret>>
      /\ pass'.todo = pass.todo /\ binding' = secret[p] /\ secret[p] # NoDb
  BY PromoteDoes DEF Active
<1>2. binding'[1] = p
  BY <1>1 DEF Facts, NameFacts, Made
<1>3. \A m \in Name :
         /\ pass'.listed[m].phase = pass.listed[m].phase
         /\ pass'.listed[m].at = pass.listed[m].at /\ pass'.listed[m].has = pass.listed[m].has
  BY PromotedFields, DisplacedFields, TypeParts
<1>4. \A m \in Name : pass.listed[m] = Unlisted /\ m # p => pass'.listed[m] = Unlisted
  <2>1. [Unlisted EXCEPT !.bound = FALSE] = Unlisted
    <3>1. \A x \in Entries : x.bound = FALSE => [x EXCEPT !.bound = FALSE] = x
      BY DEF Entries
    <3>2. Unlisted.bound = FALSE
      BY DEF Unlisted
    <3> QED BY <3>1, <3>2, Nothing
  <2>2. ASSUME NEW m \in Name, pass.listed[m] = Unlisted, m # p
        PROVE  Marks(p)[m] = Unlisted
    <3>1. Marks(p)[m] = [pass.listed[m] EXCEPT !.bound = (m = p)]
      BY DEF Marks, Listed
    <3>2. (m = p) = FALSE
      BY <2>2
    <3> QED BY <2>1, <2>2, <3>1, <3>2
  <2> QED BY <2>2, PromotedFields
<1> HIDE DEF p
<1>5. ASSUME NEW m \in Name, m \notin astray PROVE Fine(m)'
  <2>1. Fine(m)
    BY <1>5 DEF FineInv
  <2>2. Held(m)' /\ (promoted' = m => asked'[m] # None)
    BY <1>1, <2>1 DEF Fine, Held, Fits, Frame
  <2>3. pass'.promoted = m => asked'[m] # None /\ pass'.asked[m] # None
    BY <1>1, <2>1 DEF Fine, Frame, Header
  <2>4. PassHolds(m)'
    BY <1>1, <1>3, <1>4, <2>1 DEF Fine, PassHolds, Fits, Frame, Header, p
  <2>5. binding'[1] = m => asked'[m] # None /\ copies'[m].state = "serving"
                           /\ binding' = copies'[m].db
    BY <1>1, <1>2, <2>1 DEF Fine, Held, Frame, p
  <2> QED BY <2>2, <2>3, <2>4, <2>5 DEF Fine
<1> QED BY <1>1, <1>5 DEF FineInv, Frame

LEMMA RequestFine ==
    ASSUME TypeOK, TypeOK', Facts, claim = "live", FineInv, NEW n \in Name,
           \/ \E at \in Moment : CreateRecovery(n, at)
           \/ DeleteRecovery(n) \/ PromoteClaimRecovery(n)
    PROVE  FineInv'
<1>1. CASE \E at \in Moment : CreateRecovery(n, at)
  <2>1. PICK at \in Moment : CreateRecovery(n, at)
    BY <1>1
  <2>2. /\ Edited /\ promoted' = promoted /\ asked[n] = None /\ asked'[n] # None
        /\ \A m \in Name \ {n} : asked'[m] = asked[m]
        /\ astray \subseteq astray' /\ (n \notin astray' => ~Traces(n))
    BY <2>1, CreateDoes
  <2>3. ASSUME NEW m \in Name \ {n}, m \notin astray' PROVE Fine(m)'
    BY <2>2, <2>3 DEF Edited, Active, FineInv, Fine, Held, PassHolds, Fits
  <2>4. ASSUME n \notin astray' PROVE Fine(n)'
    <3>1. /\ listed[n] = Unlisted /\ copies[n] = NoCopy /\ secret[n] = NoDb
          /\ pass.asked[n] = None /\ pass.listed[n] = Unlisted
      BY <2>2, <2>4 DEF Traces
    <3>2. binding[1] # n /\ (Active => pass.promoted # n)
      BY <2>2, <2>4 DEF FineInv, Fine
    <3>3. Active => n \notin pass.todo
      BY <3>1 DEF Facts, PassFacts
    <3> QED BY <2>2, <3>1, <3>2, <3>3, Nothing
            DEF Edited, Active, Fine, Held, PassHolds, Fits
  <2> QED BY <2>3, <2>4 DEF FineInv
<1>2. CASE DeleteRecovery(n)
  <2>1. /\ Edited /\ promoted' = promoted /\ promoted # n /\ asked'[n] = None
        /\ \A m \in Name \ {n} : asked'[m] = asked[m]
        /\ astray \subseteq astray' /\ (n \notin astray' => binding[1] # n /\ pass.promoted # n)
    BY <1>2, DiscardDoes
  <2>2. ASSUME NEW m \in Name \ {n}, m \notin astray' PROVE Fine(m)'
    BY <2>1, <2>2 DEF Edited, Active, FineInv, Fine, Held, PassHolds, Fits
  <2>3. n \notin astray' => Fine(n)'
    BY <2>1 DEF Edited, Active, Fine, Held, PassHolds
  <2> QED BY <2>2, <2>3 DEF FineInv
<1>3. CASE PromoteClaimRecovery(n)
  <2>1. /\ Edited /\ asked' = asked /\ promoted' = n
        /\ astray \subseteq astray' /\ (n \notin astray' => asked[n] # None)
    BY <1>3, PromotionDoes
  <2> QED BY <2>1 DEF Edited, Active, FineInv, Fine, Held, PassHolds, Fits
<1> QED BY <1>1, <1>2, <1>3

LEMMA FineNext ==
    ASSUME TypeOK, TypeOK', Facts, FineInv, [Next]_vars
    PROVE  FineInv'
<1>1. CASE claim = "live" /\ Turns
  <2>1. \A n \in Name \ astray : Fine(n)
    BY <1>1 DEF FineInv
  <2>2. /\ Active /\ Active' /\ Frame /\ Header /\ UNCHANGED <<copies, secret>>
        /\ pass'.todo = pass.todo /\ pass'.listed \in {pass.listed, listed}
        /\ \A n \in Name : binding'[1] = n => binding' = binding
    BY <1>1, Numbers DEF Turns, Facts
  <2>3. ASSUME NEW n \in Name \ astray PROVE Fine(n)'
    BY <2>1, <2>2 DEF Fine, Held, PassHolds, Fits, Frame, Header
  <2> QED BY <2>2, <2>3 DEF FineInv, Frame
<1>2. CASE claim = "live" /\ Begin
  BY <1>2, BeginDoes DEF FineInv, Fine, Held, PassHolds, Fits, Frame
<1>3. CASE claim = "live" /\ (Bind \/ PassEnds)
  <2>1. /\ Active /\ ~Active' /\ UNCHANGED <<claim, asked, promoted, astray, copies, secret, binding>>
        /\ listed' = listed \/ listed' = pass.listed
    BY <1>3, EndDoes
  <2>2. ASSUME NEW n \in Name \ astray PROVE Fine(n)'
    <3>1. Fine(n) /\ ~Unlisted.has /\ Unlisted.phase = "none"
      BY <1>3, Nothing DEF FineInv
    <3> QED BY <2>1, <3>1 DEF Fine, Held, PassHolds, Fits
  <2> QED BY <2>1, <2>2 DEF FineInv
<1>4. CASE DeleteClaim \/ Finalize
  BY <1>4, DeleteDoes, FinalizeDoes DEF FineInv
<1>5. CASE claim = "live" /\ (SecretLost \/ \E n \in Name : Filled(n) \/ Breaks(n))
  <2>1. /\ Frame /\ pass' = pass
        /\ \A n \in Name :
              \/ copies'[n] = copies[n]
              \/ /\ copies[n].state = "filling" /\ copies'[n].state \in {"serving", "broken"}
                 /\ copies'[n].db = copies[n].db /\ copies'[n].at = copies[n].at
                 /\ copies[n] # NoCopy
        /\ \A n \in Name : secret'[n] \in {secret[n], NoDb}
        /\ binding' \in {binding, NoDb}
    BY <1>5, ClusterDoes
  <2>2. ASSUME NEW n \in Name \ astray PROVE Fine(n)'
    <3>1. Fine(n) /\ n # None /\ NoDb[1] = None
      BY <1>5, Numbers DEF FineInv
    <3> QED BY <2>1, <3>1 DEF Fine, Held, PassHolds, Fits, Frame, Active
  <2> QED BY <2>1, <2>2 DEF FineInv, Frame
<1>6. CASE UNCHANGED vars
  BY <1>6, SameDoes DEF FineInv, Fine, Held, PassHolds, Fits, Frame, Active
<1>7. CASE claim # "live"
  <2>1. claim' # "live"
    BY <1>7, Steps, PromoteDoes, BeginDoes, EndDoes, CreateDoes, DiscardDoes, PromotionDoes,
       DeleteDoes, FinalizeDoes, ClusterDoes, SameDoes DEF Call, Turns, Frame
  <2> QED BY <2>1 DEF FineInv
<1> QED BY <1>1, <1>2, <1>3, <1>4, <1>5, <1>6, <1>7, Steps, CallFine, PromoteFine, RequestFine

-----------------------------------------------------------------------------
(***************************************************************************)
(* What a promotion displaced is on record                                 *)
(***************************************************************************)
\* What was said of a database still holds while the status is as it was, and no copy
\* becomes that database again.
LEMMA ToldKept ==
    ASSUME TypeOK, TypeOK', listed' = listed, retained' = retained,
           \A m \in Name :
              \/ made'[m] = made[m] /\ (copies'[m].db = copies[m].db \/ copies'[m].db = NoDb)
              \/ made'[m] = made[m] + 1 /\ copies'[m].db = <<m, made'[m]>>,
           NEW db \in displaced, Told(db)
    PROVE  Told(db)'
<1>1. db \in Dbs /\ \A m \in Name : made[m] \in Nat /\ made'[m] \in Nat
  BY DEF TypeOK
<1>2. CASE db[1] = None
  BY <1>2 DEF Told
<1>3. ASSUME NEW m \in Name, db[1] = m, m # None PROVE Told(db)'
  <2>1. db[2] \in Nat /\ db[2] <= made[m] /\ NoDb[1] = None
    BY <1>1, <1>3, Numbers DEF Told, Dbs
  <2>2. db[2] <= made'[m]
    BY <1>1, <2>1
  <2>3. copies'[m].db = db => copies[m].db = db
    BY <1>1, <1>3, <2>1
  <2> QED BY <1>3, <2>2, <2>3 DEF Told
<1> QED BY <1>1, <1>2, <1>3 DEF Dbs

LEMMA CallRecord ==
    ASSUME TypeOK, TypeOK', Facts, RecordInv, NEW n \in Name, Call(n),
           Stays(n) \/ Writes(n) \/ Waits(n) \/ Makes(n) \/ Destroys(n) \/ Drops(n)
    PROVE  RecordInv'
<1>1. /\ pass.at = "siblings" /\ pass'.at = "siblings" /\ Active
      /\ Frame /\ Header /\ displaced' = displaced /\ pass'.retained = pass.retained
      /\ \A m \in Name \ {n} : SameCopy(m) /\ SameEntry(m)
  BY DEF Call, Active
<1>2. ~Unlisted.bound /\ NoCopy.db = NoDb
  BY Nothing
<1>3. pass'.listed[n].bound => pass.listed[n].bound
  BY <1>2 DEF Stays, Writes, Waits, Makes, Destroys, Drops, SameEntry
<1>4. \A m \in Name : pass'.listed[m].bound => pass.listed[m].bound
  BY <1>1, <1>3 DEF SameEntry
<1>5. \A db \in displaced : Told(db)'
  BY <1>1, <1>2, ToldKept
     DEF Stays, Writes, Waits, Makes, Destroys, Drops, SameCopy, RecordInv, Frame
<1>6. Replaced(n)'
  <2>1. Replaced(n) /\ PassFacts(n)
    BY <1>1 DEF RecordInv, Facts
  <2> QED BY <1>1, <1>2, <2>1
          DEF Stays, Writes, Waits, Makes, Destroys, Drops, SameEntry, SameCopy, Frame, Header,
              Replaced, PassFacts, Whole
<1>7. ASSUME NEW m \in Name \ {n} PROVE Replaced(m)'
  BY <1>1 DEF RecordInv, Replaced, SameEntry, SameCopy, Frame, Header
<1>8. Bound(pass.listed, pass.retained)'
  BY <1>1, <1>4 DEF RecordInv, Bound
<1>9. /\ Bound(listed, retained)' /\ (promoted' = None => displaced' = {})
      /\ (pass'.promoted # None => promoted' # None) /\ retained' \subseteq pass'.retained
      /\ \A m \in Name : pass'.listed[m].bound => listed'[m].bound
  BY <1>1, <1>4 DEF RecordInv, Bound, Frame, Header
<1> QED BY <1>1, <1>5, <1>6, <1>7, <1>8, <1>9 DEF RecordInv

LEMMA PromoteRecord ==
    ASSUME TypeOK, TypeOK', Facts, RecordInv, PromoteRecovery
    PROVE  RecordInv'
<1> DEFINE p == pass.promoted
<1>1. /\ p \in Name /\ p # None /\ Active /\ pass'.at = "bind"
      /\ Frame /\ Header /\ UNCHANGED <<copies, made>>
      /\ displaced \subseteq displaced'
      /\ \A db \in displaced' \ displaced :
            db = binding /\ (db = Instance \/ listed[db[1]].bound)
  BY PromoteDoes, Numbers DEF Active
<1>2. /\ pass'.listed = IF pass.listed[p].bound THEN pass.listed ELSE Marks(p)
      /\ pass'.retained = IF pass.listed[p].bound THEN pass.retained
                          ELSE pass.retained \cup {<<Displaced(p), p>>}
      /\ \A m \in Name : Marks(p)[m].bound <=> m = p
  BY <1>1, PromotedFields, DisplacedFields, TypeParts
<1>3. \A m \in Name : pass.listed[m].bound => pass.listed[p].bound \/ Displaced(p) = m
  BY <1>1 DEF RecordInv, Bound, Displaced, Listed
<1>4. (\A m \in Name : ~pass.listed[m].bound) => Displaced(p) = None
  BY DEF Displaced, Listed
<1> HIDE DEF p
<1>5. Displacees(pass.retained) \subseteq Displacees(pass'.retained)
      /\ (~pass.listed[p].bound => Displaced(p) \in Displacees(pass'.retained))
  <2>1. <<Displaced(p), p>>[1] = Displaced(p)
    OBVIOUS
  <2> QED BY <1>2, <2>1 DEF Displacees
<1>6. Bound(pass.listed, pass.retained)'
  <2>1. CASE pass.listed[p].bound
    BY <1>1, <1>2, <2>1 DEF RecordInv
  <2>2. CASE ~pass.listed[p].bound
    <3>1. None \in Displacees(pass'.retained)
      BY <1>1, <1>4, <1>5, <2>2 DEF RecordInv, Bound
    <3>2. \A m \in Name : pass'.listed[m].bound => m = p
      BY <1>2, <2>2
    <3> QED BY <3>1, <3>2 DEF Bound
  <2> QED BY <2>1, <2>2
<1>7. ASSUME NEW m \in Name PROVE Replaced(m)'
  BY <1>1, <1>2, <1>3, <1>5 DEF RecordInv, Replaced, Frame, Header
<1>8. ASSUME NEW db \in displaced' PROVE Told(db)'
  <2>1. CASE db \in displaced
    BY <1>1, <2>1 DEF RecordInv, Told, Frame
  <2>2. CASE db \notin displaced /\ db[1] # None
    <3>1. db = binding /\ listed[db[1]].bound
      BY <1>1, <2>2, Numbers
    <3>2. binding \in Dbs
      BY TypeParts DEF World
    <3>3. Made(binding[1], binding)
      BY <2>2, <3>1, <3>2 DEF Facts, Dbs
    <3>4. binding[2] <= made[binding[1]]
      BY <2>2, <3>1, <3>3, Numbers DEF Made
    <3> QED BY <1>1, <3>1, <3>4 DEF Told, Frame
  <2>3. CASE db[1] = None
    BY <2>3 DEF Told
  <2> QED BY <2>1, <2>2, <2>3
<1>9. /\ Bound(listed, retained)' /\ promoted' # None
      /\ retained' \subseteq pass'.retained
  BY <1>1, <1>2 DEF RecordInv, Frame, p
<1> QED BY <1>1, <1>6, <1>7, <1>8, <1>9 DEF RecordInv

LEMMA RecordNext ==
    ASSUME TypeOK, TypeOK', Facts, RecordInv, [Next]_vars
    PROVE  RecordInv'
<1>1. CASE Turns
  <2>1. Bound(listed, pass.retained)
    <3>1. Displacees(retained) \subseteq Displacees(pass.retained)
      BY <1>1 DEF Turns, RecordInv, Displacees
    <3> QED BY <3>1 DEF RecordInv, Bound
  <2>2. \A n \in Name : Replaced(n)'
    BY <1>1 DEF Turns, Frame, Header, RecordInv, Facts, Replaced
  <2>3. Bound(pass.listed, pass.retained)'
    BY <1>1, <2>1 DEF Turns, RecordInv, Facts
  <2>4. pass'.at # "bind" => \A n \in Name : pass'.listed[n].bound => listed'[n].bound
    BY <1>1 DEF Turns, Frame, RecordInv
  <2>5. \A db \in displaced : Told(db)'
    BY <1>1 DEF Turns, Frame, RecordInv, Told
  <2> QED BY <1>1, <2>2, <2>3, <2>4, <2>5 DEF Turns, Frame, Header, RecordInv
<1>2. CASE Begin
  BY <1>2, BeginDoes DEF RecordInv, Replaced, Told, Frame
<1>3. CASE Bind \/ PassEnds
  <2>1. /\ Active /\ ~Active' /\ UNCHANGED <<promoted, copies, made, displaced>>
        /\ \/ UNCHANGED <<listed, retained>>
           \/ listed' = pass.listed /\ retained' = pass.retained
    BY <1>3, EndDoes
  <2>2. CASE listed' = pass.listed /\ retained' = pass.retained
    <3>1. Displacees(retained) \subseteq Displacees(pass.retained)
      BY <2>1 DEF RecordInv, Displacees
    <3>2. ASSUME NEW db \in displaced PROVE Told(db)'
      <4>1. Told(db) /\ db \in Dbs /\ NoCopy.db = NoDb /\ NoDb[1] = None
        BY Nothing, Numbers, TypeParts DEF RecordInv, World
      <4>2. db[1] # None /\ listed[db[1]].bound /\ copies[db[1]].db = db =>
               pass.listed[db[1]].bound \/ db[1] \in Displacees(pass.retained)
        BY <2>1, <4>1 DEF RecordInv, Replaced, Dbs
      <4> QED BY <2>1, <2>2, <3>1, <4>1, <4>2 DEF Told
    <3> QED BY <2>1, <2>2, <3>2 DEF RecordInv
  <2>3. CASE UNCHANGED <<listed, retained>>
    BY <2>1, <2>3 DEF RecordInv, Told
  <2> QED BY <2>1, <2>2, <2>3
<1>4. ASSUME Edited, promoted' = promoted \/ promoted' # None PROVE RecordInv'
  BY <1>4 DEF Edited, RecordInv, Replaced, Told, Active
<1>5. ASSUME NEW n \in Name,
             \/ \E at \in Moment : CreateRecovery(n, at)
             \/ DeleteRecovery(n) \/ PromoteClaimRecovery(n)
      PROVE  RecordInv'
  BY <1>4, <1>5, CreateDoes, DiscardDoes, PromotionDoes, Numbers
<1>6. CASE DeleteClaim
  BY <1>4, <1>6, DeleteDoes
<1>7. CASE Finalize
  <2>1. /\ ~Active' /\ UNCHANGED <<promoted, listed, retained, made, displaced>>
        /\ \A n \in Name : copies'[n].db = copies[n].db \/ copies'[n].db = NoDb
    BY <1>7, FinalizeDoes, Nothing
  <2>2. \A db \in displaced : Told(db)'
    BY <2>1, ToldKept DEF RecordInv
  <2> QED BY <2>1, <2>2 DEF RecordInv
<1>8. CASE SecretLost \/ \E n \in Name : Filled(n) \/ Breaks(n)
  <2>1. /\ Frame /\ pass' = pass /\ UNCHANGED <<made, displaced>>
        /\ \A n \in Name : copies'[n].db = copies[n].db
        /\ \A n \in Name : copies[n] = NoCopy => copies'[n] = NoCopy
    BY <1>8, ClusterDoes
  <2>2. \A db \in displaced : Told(db)'
    BY <2>1, ToldKept DEF RecordInv, Frame
  <2>3. Active => \A n \in Name : Replaced(n)'
    BY <2>1 DEF RecordInv, Replaced, Frame
  <2> QED BY <2>1, <2>2, <2>3 DEF RecordInv, Frame, Active
<1>9. CASE UNCHANGED vars
  BY <1>9, SameDoes DEF RecordInv, Replaced, Told, Frame, Active
<1> QED BY <1>1, <1>2, <1>3, <1>5, <1>6, <1>7, <1>8, <1>9, Steps, CallRecord, PromoteRecord

-----------------------------------------------------------------------------
(***************************************************************************)
(* Together, from the start                                                *)
(***************************************************************************)
IInv == TypeOK /\ Facts /\ ForgetInv /\ CountInv /\ FineInv /\ RecordInv

LEMMA IInvInit == Init => IInv
<1> SUFFICES ASSUME Init PROVE IInv
  OBVIOUS
<1>1. TypeOK /\ Facts
  BY TypeInit, FactsInit
<1>2. ~Active /\ \A n \in Name : n # None
  BY Nothing, Numbers DEF Init, Active
<1>3. ForgetInv /\ CountInv
  BY <1>2, Nothing DEF Init, ForgetInv, CountInv, Counted, Active
<1>4. FineInv
  BY <1>2, Nothing, Numbers DEF Init, FineInv, Fine, Held, Fits
<1>5. RecordInv
  BY <1>2, Nothing DEF Init, RecordInv, Bound
<1> QED BY <1>1, <1>3, <1>4, <1>5 DEF IInv

LEMMA IInvNext == IInv /\ [Next]_vars => IInv'
<1> SUFFICES ASSUME IInv, [Next]_vars PROVE IInv'
  OBVIOUS
<1>1. TypeOK /\ TypeOK'
  BY TypeNext DEF IInv
<1> QED BY <1>1, FactsNext, ForgetNext, CountNext, FineNext, RecordNext DEF IInv

LEMMA Inductive == Spec => []IInv
BY IInvInit, IInvNext, PTL DEF Spec

-----------------------------------------------------------------------------
(***************************************************************************)
(* Whatever is asked for and in whatever order, and wherever passes end:   *)
(* while the claim is there its binding names a database that is there, or *)
(* one of a copy whose name was discarded under a promotion, promoted once *)
(* discarded, or asked for again before the former copy had gone.          *)
(***************************************************************************)
THEOREM BindingLives == Spec => []BoundLives
<1>1. IInv => BoundLives
  <2> SUFFICES ASSUME IInv, claim = "live", binding[1] \notin astray PROVE There(binding)
    BY DEF BoundLives
  <2>1. CASE binding[1] = None
    BY <2>1 DEF IInv, Facts, There
  <2>2. CASE binding[1] # None
    <3>1. binding[1] \in Name
      BY <2>2, TypeParts DEF IInv, World, Dbs
    <3> QED BY <3>1 DEF IInv, FineInv, Fine, There
  <2> QED BY <2>1, <2>2
<1> QED BY <1>1, Inductive, PTL

(***************************************************************************)
(* No request is met by two copies, however often passes are cut short     *)
(* between making and recording one; and a copy listed as Ready and still  *)
(* asked for is there, whole and of the moment it is listed with, but for  *)
(* names used again too soon.                                              *)
(***************************************************************************)
THEOREM MomentsHold == Spec => []HoldsItsMoment
<1>1. IInv => HoldsItsMoment
  <2> SUFFICES ASSUME IInv PROVE HoldsItsMoment
    OBVIOUS
  <2>1. \A n \in Name : made[n] <= uses[n]
    BY DEF IInv, CountInv, Counted
  <2>2. ASSUME claim = "live", NEW n \in Name \ astray,
               listed[n].phase = "Ready", asked[n] # None
        PROVE  copies[n].state = "serving" /\ copies[n].at = listed[n].at
    <3>1. Held(n) /\ Whole(listed[n])
      BY <2>2 DEF IInv, FineInv, Fine, Facts, NameFacts
    <3> QED BY <2>2, <3>1, Nothing DEF Held, Fits, Whole
  <2> QED BY <2>1, <2>2 DEF HoldsItsMoment
<1> QED BY <1>1, Inductive, PTL

(***************************************************************************)
(* An entry with an id leaves the status only when its copy and its Secret *)
(* are gone, and a claim let go under Delete, its provider at hand, leaves *)
(* none of what it lists.                                                  *)
(***************************************************************************)
THEOREM ListedNotForgotten == Spec => ForgetsOnlyTheGone
<1>1. IInv /\ [Next]_vars => [Forgets]_vars
  BY ForgetStep DEF IInv
<1> QED BY <1>1, Inductive, PTL DEF Spec, ForgetsOnlyTheGone, Forgets

(***************************************************************************)
(* Once the promotion last asked for is in the status, so is every         *)
(* database a promotion displaced that is still there and not bound again, *)
(* of the original and those the status showed as bound: even if the write *)
(* that should have recorded it was lost.                                  *)
(***************************************************************************)
THEOREM DisplacedRecorded == Spec => []DisplacedIsRecorded
<1>1. IInv => DisplacedIsRecorded
  <2> SUFFICES ASSUME IInv, Landed, NEW db \in displaced, There(db),
                      db[1] = None \/ db[1] # promoted
               PROVE  db[1] \in Displacees(retained)
    BY DEF DisplacedIsRecorded, Displacees
  <2>1. promoted \in Name /\ listed[promoted].bound
    BY TypeParts DEF IInv, World, RecordInv, Landed
  <2>2. CASE db[1] = None
    BY <2>1, <2>2 DEF IInv, RecordInv, Bound
  <2>3. CASE db[1] # None
    <3>1. PICK n \in Name : copies[n].db = db
      BY <2>3, Numbers DEF There
    <3>2. db[1] = n
      BY <2>3, <3>1, Nothing, Numbers DEF IInv, Facts, NameFacts
    <3> QED BY <2>1, <2>3, <3>1, <3>2 DEF IInv, RecordInv, Told, Bound
  <2> QED BY <2>2, <2>3
<1> QED BY <1>1, Inductive, PTL

=============================================================================
