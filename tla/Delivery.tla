------------------------------ MODULE Delivery ------------------------------
(***************************************************************************)
(* How a Release reaches an Environment.  Five writers share the           *)
(* Environment object: the build reconciler (a finished build), the        *)
(* promotion reconciler, the environment reconciler, the rescan sweep's    *)
(* expiry rollback, and the HTTP API's moves and declarations.  The        *)
(* release reconciler deletes the Releases a project has outgrown.         *)
(*                                                                         *)
(* One step is one call to the API server.  Update and Status().Update     *)
(* carry the resourceVersion that was read and are refused when it moved:  *)
(* holders names the passes whose copy no later write has overtaken.  The  *)
(* API's merge patches carry none.  Each reconciler has one worker, so     *)
(* it runs one pass at a time; API requests run beside each other.  A pass *)
(* that meets an error is dropped where it stands and started again from   *)
(* the top, which is also what a restart of the manager does to it.        *)
(***************************************************************************)
EXTENDS Integers, Sequences, FiniteSets

CONSTANTS
    Stages,             \* the project's pipeline, a sequence of environments
    AutoPromote,        \* stages entered by the platform on its own
    Release,            \* release names, one per commit and per build
    Clean,              \* releases that clear a declared bar by themselves
    Waivable,           \* <<environment, release>> pairs granted an exception
    BelowClass,         \* environments rated below the project's data class
    Unreadable,         \* environments whose pinned bundle does not resolve
    Declared,           \* environments that exist at the start
    Gated,              \* those of them that declare requirements
    FirstRelease,       \* what the declared environments serve at the start
    Retention,          \* spec.builds.releaseRetention, 0 prunes nothing
    MaxReleaseHistory,  \* cap on status.history
    User,               \* API requests that may be in flight together
    MaxRequests,        \* bound on API moves and promotion requests
    MaxBarChanges,      \* bound on declarations and changes of requirements
    MaxFaults           \* bound on dropped passes

None == 0   \* the empty release name

Env == {Stages[i] : i \in 1..Len(Stages)}
Promotion == Env \X Release \X {"automatic", "manual"}

ASSUME DeliveryAssumption ==
    /\ Stages \in Seq(Env) /\ Len(Stages) > 0
    /\ \A i, j \in 1..Len(Stages) : Stages[i] = Stages[j] => i = j
    /\ Release \subseteq Nat \ {None}
    /\ Clean \subseteq Release /\ Waivable \subseteq Env \X Release
    /\ AutoPromote \subseteq Env /\ BelowClass \subseteq Env /\ Unreadable \subseteq Env
    /\ Declared \subseteq Env /\ Gated \subseteq Declared
    /\ FirstRelease \in Release \cup {None}
    /\ Retention \in Nat /\ MaxReleaseHistory \in Nat \ {0}
    /\ MaxRequests \in Nat /\ MaxBarChanges \in Nat /\ MaxFaults \in Nat

VARIABLES
    exists,     \* the Environment object is there
    gated,      \* spec.requirements is set
    release,    \* spec.releaseRef
    observed,   \* status.observedRelease
    history,    \* status.history, newest first
    holders,    \* who holds the Environment at its current resourceVersion
    releases,   \* the Releases that exist
    newer,      \* of each, those created after it
    build,      \* status.phase of the release's Build
    promotion,  \* status.phase of a Promotion, "none" while it does not exist
    grant,      \* the Exception covering a pair
    usedBy,     \* promotions recorded on the exceptions they stood on
    bld,        \* the build reconciler's pass
    prm,        \* the promotion reconciler's pass
    rsc,        \* the rescan sweep's rollback
    prn,        \* the release reconciler's pass
    usr,        \* API requests in flight
    requests, barChanges, faults,   \* the bounds' counters
    served,     \* history variable: releases an environment was ever pointed at
    judged,     \* history variable: promotions the policy allowed
    moved       \* history variable: promotions that moved an environment

object  == <<exists, gated, release, observed, history, holders>>
records == <<releases, newer, build, promotion, grant, usedBy>>
workers == <<bld, prm, rsc, prn, usr>>
bounds  == <<requests, barChanges, faults>>
ghosts  == <<served, judged, moved>>
vars    == <<object, records, workers, bounds, ghosts>>

-----------------------------------------------------------------------------
(* Worker states                                                           *)

\* A pass holds what it read; out is the release the environment leaves.
Build(pc, rel, out) == [pc |-> pc, rel |-> rel, out |-> out]
NoBuild == Build("idle", None, None)

Promoting(pc, p, out, bar, verdict) ==
    [pc |-> pc, p |-> p, out |-> out, bar |-> bar, verdict |-> verdict]
NoPromoting == Promoting("idle", <<Stages[1], None, "manual">>, None, FALSE, "none")

Rollback(pc, e, rel, target) ==
    [pc |-> pc, env |-> e, rel |-> rel, target |-> target]
NoRollback == Rollback("idle", Stages[1], None, None)

Prune(pc, refs, victims) == [pc |-> pc, refs |-> refs, victims |-> victims]
NoPrune == Prune("idle", {}, {})

Request(pc, e, rel, out, hist) ==
    [pc |-> pc, env |-> e, rel |-> rel, out |-> out, hist |-> hist]
NoRequest == Request("idle", Stages[1], None, None, <<>>)

Terminal == {"Applied", "Blocked", "Failed"}
Open     == {"Pending", "Evaluating", "Allowed", "AllowedWithException"}

-----------------------------------------------------------------------------
(* RecordReleaseMove                                                       *)

\* Whether the move writes an entry: there is a stint to close and the newest
\* entry does not already name it.
Records(hist, out) == out # None /\ (hist = <<>> \/ Head(hist) # out)

\* The history with the outgoing release in front, cut to its cap.
Recorded(hist, out) ==
    LET longer == <<out>> \o hist
    IN  SubSeq(longer, 1, IF Len(longer) < MaxReleaseHistory
                          THEN Len(longer) ELSE MaxReleaseHistory)

-----------------------------------------------------------------------------
(* Writes to the API server                                                *)

Exists(r) == r \in releases

\* Create a Release; one that exists already is left as it is.
CreateRelease(r) ==
    /\ releases' = releases \cup {r}
    /\ newer' = IF Exists(r) THEN newer
                ELSE [s \in Release |-> IF Exists(s) THEN newer[s] \cup {r} ELSE {}]

Reader == {"build", "promotion", "rescan"}

\* A read: the reader's copy is current until somebody writes.
Read(e, w) == holders' = [holders EXCEPT ![e] = @ \cup {w}]

\* A write: every other copy is overtaken, and the answer is a current copy
\* for those in ws.
Write(e, ws) == holders' = [holders EXCEPT ![e] = ws]

\* spec.releaseRef is written.
MoveTo(e, r) ==
    /\ release' = [release EXCEPT ![e] = r]
    /\ served' = [served EXCEPT ![e] = @ \cup {r}]

WriteHistory(e, out) ==
    /\ history' = [history EXCEPT ![e] = Recorded(@, out)]
    /\ Write(e, {})

\* createAutomaticPromotion: the name is derived from the pair, so a second
\* creation finds the first.
CreatePromotion(e, r) ==
    promotion' = [promotion EXCEPT ![<<e, r, "automatic">>] =
                     IF @ = "none" THEN "Pending" ELSE @]

-----------------------------------------------------------------------------
(* The build reconciler: succeed, promoteOrFlip, ensureEnvironment         *)

Target == Stages[1]

\* A finished build creates its Release.
Succeed(r) ==
    /\ bld.pc = "idle" /\ build[r] = "running"
    /\ CreateRelease(r)
    /\ bld' = Build("route", r, None)
    /\ UNCHANGED <<object, build, promotion, grant, usedBy, prm, rsc, prn, usr,
                   bounds, ghosts>>

\* Its settings, its images or its posture are refused: no Release.
BuildFails(r) ==
    /\ bld.pc = "idle" /\ build[r] = "running"
    /\ build' = [build EXCEPT ![r] = "failed"]
    /\ UNCHANGED <<object, releases, newer, promotion, grant, usedBy, workers,
                   bounds, ghosts>>

\* Mutant: the bar of the target is not looked at.
FlipWhateverTheBar ==
    IF exists[Target] /\ Target \in BelowClass THEN "done" ELSE "ensure"

\* Which door the target asks for.
Door ==
    IF ~exists[Target] THEN "ensure"
    ELSE IF gated[Target] THEN "promote"
    ELSE IF Target \in BelowClass THEN "done"
    ELSE "ensure"

PromoteOrFlip ==
    /\ bld.pc = "route"
    /\ bld' = Build(Door, bld.rel, None)
    /\ UNCHANGED <<object, records, prm, rsc, prn, usr, bounds, ghosts>>

BuildPromotes ==
    /\ bld.pc = "promote"
    /\ CreatePromotion(Target, bld.rel)
    /\ bld' = Build("done", bld.rel, None)
    /\ UNCHANGED <<object, releases, newer, build, grant, usedBy, prm, rsc, prn, usr,
                   bounds, ghosts>>

\* ensureEnvironment reads the target again.
EnsureEnvironment ==
    /\ bld.pc = "ensure"
    /\ bld' = IF ~exists[Target] THEN Build("create", bld.rel, None)
              ELSE IF release[Target] = bld.rel THEN Build("done", bld.rel, None)
              ELSE Build("flip", bld.rel, release[Target])
    /\ Read(Target, "build")
    /\ UNCHANGED <<exists, gated, release, observed, history, records, prm, rsc, prn, usr, bounds, ghosts>>

\* A created environment declares no requirements.
CreateEnvironment ==
    /\ bld.pc = "create" /\ ~exists[Target]
    /\ exists' = [exists EXCEPT ![Target] = TRUE]
    /\ MoveTo(Target, bld.rel) /\ Write(Target, {})
    /\ bld' = Build("done", bld.rel, None)
    /\ UNCHANGED <<gated, observed, history, records, prm, rsc, prn, usr, bounds,
                   judged, moved>>

BuildFlips ==
    /\ bld.pc = "flip" /\ "build" \in holders[Target]
    /\ MoveTo(Target, bld.rel) /\ Write(Target, {"build"})
    /\ bld' = Build(IF Records(history[Target], bld.out) THEN "history" ELSE "done",
                    bld.rel, bld.out)
    /\ UNCHANGED <<exists, gated, observed, history, records, prm, rsc, prn, usr,
                   bounds, judged, moved>>

BuildRecords ==
    /\ bld.pc = "history" /\ "build" \in holders[Target]
    /\ WriteHistory(Target, bld.out)
    /\ bld' = Build("done", bld.rel, None)
    /\ UNCHANGED <<exists, gated, release, observed, records, prm, rsc, prn, usr,
                   bounds, ghosts>>

\* A write at a version that has moved on, or of a name that is taken.
BuildConflict ==
    /\ \/ bld.pc \in {"flip", "history"} /\ "build" \notin holders[Target]
       \/ bld.pc = "create" /\ exists[Target]
    /\ bld' = NoBuild
    /\ UNCHANGED <<object, records, prm, rsc, prn, usr, bounds, ghosts>>

BuildSucceeded ==
    /\ bld.pc = "done"
    /\ build' = [build EXCEPT ![bld.rel] = "succeeded"]
    /\ bld' = NoBuild
    /\ UNCHANGED <<object, releases, newer, promotion, grant, usedBy, prm, rsc, prn, usr,
                   bounds, ghosts>>

-----------------------------------------------------------------------------
(* The promotion reconciler                                                *)

\* PolicyEvaluator.Evaluate: no bar allows anything, a bar is cleared by the
\* evidence or waived by an exception that has not run out.
Verdict(e, r, bar) ==
    IF ~bar \/ r \in Clean THEN "Allowed"
    ELSE IF grant[<<e, r>>] = "active" THEN "AllowedWithException"
    ELSE "Blocked"

\* The evaluation is refused, permanently for this promotion.
Refused(e, bar) == IF bar THEN e \in Unreadable ELSE e \in BelowClass

\* Mutant: an allowed promotion found again is taken as applied.
ResumeApplied(p) ==
    IF ~exists[p[1]] \/ ~Exists(p[2]) THEN "fail"
    ELSE IF promotion[p] \in {"Allowed", "AllowedWithException"} THEN "next"
    ELSE "evaluate"

\* Mutant: a promotion found Evaluating is taken as decided.
ResumeUndecided(p) ==
    IF ~exists[p[1]] \/ ~Exists(p[2]) THEN "fail"
    ELSE IF promotion[p] \in {"Evaluating", "Allowed", "AllowedWithException"}
    THEN "apply" ELSE "evaluate"

\* Where a pass over p goes once its references are resolved.
Entry(p) ==
    IF ~exists[p[1]] \/ ~Exists(p[2]) THEN "fail"
    ELSE IF promotion[p] \in {"Allowed", "AllowedWithException"} THEN "apply"
    ELSE "evaluate"

\* Mutant: only a promotion nobody has looked at is taken up.
ResolvePending(p) ==
    /\ prm.pc = "idle" /\ promotion[p] = "Pending"
    /\ prm' = Promoting(Entry(p), p, release[p[1]], gated[p[1]], "none")
    /\ Read(p[1], "promotion")
    /\ UNCHANGED <<exists, gated, release, observed, history, records, bld, rsc, prn, usr,
                   bounds, ghosts>>

Resolve(p) ==
    /\ prm.pc = "idle" /\ promotion[p] \in Open
    /\ prm' = Promoting(Entry(p), p, release[p[1]], gated[p[1]], "none")
    /\ Read(p[1], "promotion")
    /\ UNCHANGED <<exists, gated, release, observed, history, records, bld, rsc, prn, usr, bounds, ghosts>>

\* The decision is recorded, and an exception it stands on names the
\* promotion, before the phase says anything.
Evaluate ==
    /\ prm.pc = "evaluate"
    /\ promotion' = [promotion EXCEPT ![prm.p] = "Evaluating"]
    /\ LET verdict == Verdict(prm.p[1], prm.p[2], prm.bar)
           refused == Refused(prm.p[1], prm.bar)
       IN  /\ prm' = Promoting(IF refused THEN "fail" ELSE "settle",
                               prm.p, prm.out, FALSE, verdict)
           /\ usedBy' = IF ~refused /\ verdict = "AllowedWithException"
                        THEN usedBy \cup {prm.p} ELSE usedBy
    /\ UNCHANGED <<object, releases, newer, build, grant, bld, rsc, prn, usr, bounds, ghosts>>

Fail ==
    /\ prm.pc = "fail"
    /\ promotion' = [promotion EXCEPT ![prm.p] = "Failed"]
    /\ prm' = NoPromoting
    /\ UNCHANGED <<object, releases, newer, build, grant, usedBy, bld, rsc, prn, usr,
                   bounds, ghosts>>

Settle ==
    /\ prm.pc = "settle"
    /\ promotion' = [promotion EXCEPT ![prm.p] = prm.verdict]
    /\ IF prm.verdict = "Blocked"
       THEN prm' = NoPromoting /\ UNCHANGED judged
       ELSE /\ prm' = Promoting("apply", prm.p, prm.out, FALSE, "none")
            /\ judged' = judged \cup {prm.p}
    /\ UNCHANGED <<object, releases, newer, build, grant, usedBy, bld, rsc, prn, usr,
                   bounds, served, moved>>

\* The optimistic lock of apply's Update.
AtVersionRead == "promotion" \in holders[prm.p[1]]

\* The environment already runs the release.
AlreadyThere ==
    /\ prm.pc = "apply" /\ prm.out = prm.p[2]
    /\ prm' = Promoting("next", prm.p, None, FALSE, "none")
    /\ UNCHANGED <<object, records, bld, rsc, prn, usr, bounds, ghosts>>

Apply ==
    /\ prm.pc = "apply" /\ prm.out # prm.p[2] /\ AtVersionRead
    /\ MoveTo(prm.p[1], prm.p[2]) /\ Write(prm.p[1], {"promotion"})
    /\ moved' = moved \cup {prm.p}
    /\ prm' = Promoting(IF Records(history[prm.p[1]], prm.out) THEN "history" ELSE "next",
                        prm.p, prm.out, FALSE, "none")
    /\ UNCHANGED <<exists, gated, observed, history, records, bld, rsc, prn, usr,
                   bounds, judged>>

PromotionRecords ==
    /\ prm.pc = "history" /\ AtVersionRead
    /\ WriteHistory(prm.p[1], prm.out)
    /\ prm' = Promoting("next", prm.p, None, FALSE, "none")
    /\ UNCHANGED <<exists, gated, release, observed, records, bld, rsc, prn, usr,
                   bounds, ghosts>>

\* Mutant: a refused write is taken for a move somebody else made.
ConflictIsDone ==
    /\ \/ prm.pc = "apply" /\ prm.out # prm.p[2] /\ ~AtVersionRead
       \/ prm.pc = "history" /\ ~AtVersionRead
    /\ prm' = Promoting("next", prm.p, None, FALSE, "none")
    /\ UNCHANGED <<object, records, bld, rsc, prn, usr, bounds, ghosts>>

PromotionConflict ==
    /\ \/ prm.pc = "apply" /\ prm.out # prm.p[2] /\ ~AtVersionRead
       \/ prm.pc = "history" /\ ~AtVersionRead
    /\ prm' = NoPromoting
    /\ UNCHANGED <<object, records, bld, rsc, prn, usr, bounds, ghosts>>

\* The stages a release enters on its own after it has been applied to e.
Chained(e) ==
    {Stages[i + 1] : i \in {j \in 1..(Len(Stages) - 1) :
                               Stages[j] = e /\ Stages[j + 1] \in AutoPromote}}

Chain ==
    /\ prm.pc = "next"
    /\ promotion' = [q \in Promotion |->
                        IF /\ promotion[q] = "none"
                           /\ q[1] \in Chained(prm.p[1]) /\ q[2] = prm.p[2]
                           /\ q[3] = "automatic"
                        THEN "Pending" ELSE promotion[q]]
    /\ prm' = Promoting("applied", prm.p, None, FALSE, "none")
    /\ UNCHANGED <<object, releases, newer, build, grant, usedBy, bld, rsc, prn, usr,
                   bounds, ghosts>>

Applied ==
    /\ prm.pc = "applied"
    /\ promotion' = [promotion EXCEPT ![prm.p] = "Applied"]
    /\ prm' = NoPromoting
    /\ UNCHANGED <<object, releases, newer, build, grant, usedBy, bld, rsc, prn, usr,
                   bounds, ghosts>>

-----------------------------------------------------------------------------
(* The environment reconciler                                              *)

\* The entry for a move its writer left unrecorded.
RecordUnrecorded(e) ==
    history' = IF Records(history[e], observed[e])
               THEN [history EXCEPT ![e] = Recorded(@, observed[e])] ELSE history

\* The pass that finds the release changed; its read and its status update
\* are one step because the update is refused when anything came between.
Observe(e) ==
    /\ exists[e] /\ release[e] # None /\ Exists(release[e])
    /\ observed[e] # release[e]
    /\ RecordUnrecorded(e)
    /\ observed' = [observed EXCEPT ![e] = release[e]]
    /\ Write(e, {})
    /\ UNCHANGED <<exists, gated, release, records, workers, bounds, ghosts>>

-----------------------------------------------------------------------------
(* The rescan sweep's rollback of a release whose exception ran out        *)

ExceptionExpires(e, r) ==
    /\ grant[<<e, r>>] = "active"
    /\ grant' = [grant EXCEPT ![<<e, r>>] = "expired"]
    /\ UNCHANGED <<object, releases, newer, build, promotion, usedBy, workers, bounds, ghosts>>

\* The newest entry of the history that is not the release running now.
RollbackTarget(hist, r) ==
    LET others == {i \in 1..Len(hist) : hist[i] # r}
    IN  IF others = {} THEN None
        ELSE hist[CHOOSE i \in others : \A j \in others : i <= j]

\* The release was promoted here under the grant.
ReliedOn(e, r) == \E p \in usedBy : p[1] = e /\ p[2] = r

AsksForRollback(e, r) == grant[<<e, r>>] = "expired" /\ ReliedOn(e, r)

RollBackForExpiry(e) ==
    /\ rsc.pc = "idle" /\ exists[e] /\ release[e] # None
    /\ Exists(release[e])
    /\ Verdict(e, release[e], gated[e]) = "Blocked"
    /\ AsksForRollback(e, release[e])
    /\ LET target == RollbackTarget(history[e], release[e])
       IN  /\ target # None /\ Exists(target)
           /\ rsc' = Rollback("move", e, release[e], target)
    /\ UNCHANGED <<object, records, bld, prm, prn, usr, bounds, ghosts>>

\* The environment is read again just before the write, so the read and the
\* Update are one step; a release moved meanwhile drops the rollback.
RollBack ==
    /\ rsc.pc = "move" /\ release[rsc.env] = rsc.rel
    /\ MoveTo(rsc.env, rsc.target) /\ Write(rsc.env, {"rescan"})
    /\ rsc' = IF Records(history[rsc.env], rsc.rel)
              THEN Rollback("history", rsc.env, rsc.rel, rsc.target)
              ELSE NoRollback
    /\ UNCHANGED <<exists, gated, observed, history, records, bld, prm, prn, usr,
                   bounds, judged, moved>>

RollbackRecords ==
    /\ rsc.pc = "history" /\ "rescan" \in holders[rsc.env]
    /\ WriteHistory(rsc.env, rsc.rel)
    /\ rsc' = NoRollback
    /\ UNCHANGED <<exists, gated, release, observed, records, bld, prm, prn, usr,
                   bounds, ghosts>>

RollbackDropped ==
    /\ \/ rsc.pc = "move" /\ release[rsc.env] # rsc.rel
       \/ rsc.pc = "history" /\ "rescan" \notin holders[rsc.env]
    /\ rsc' = NoRollback
    /\ UNCHANGED <<object, records, bld, prm, prn, usr, bounds, ghosts>>

-----------------------------------------------------------------------------
(* The release reconciler                                                  *)

\* Mutant: the newest release of the project counts as outgrown as well.
OneTooMany(refs) ==
    {r \in Release : Exists(r) /\ Cardinality(newer[r]) >= Retention - 1 /\ r \notin refs}

\* Releases beyond the retention count that nothing was seen serving.
Outgrown(refs) ==
    {r \in Release : Exists(r) /\ Cardinality(newer[r]) >= Retention /\ r \notin refs}

\* The environments are listed first.
ListEnvironments ==
    /\ prn.pc = "idle" /\ Retention > 0
    /\ \E r \in Release : Exists(r)
    /\ prn' = Prune("list", {release[e] : e \in {d \in Env : exists[d]}}, {})
    /\ UNCHANGED <<object, records, bld, prm, rsc, usr, bounds, ghosts>>

ListReleases ==
    /\ prn.pc = "list"
    /\ prn' = IF Outgrown(prn.refs) = {} THEN NoPrune
              ELSE Prune("delete", {}, Outgrown(prn.refs))
    /\ UNCHANGED <<object, records, bld, prm, rsc, usr, bounds, ghosts>>

\* Deletes go newest first; one that is gone already is passed over.
DeleteRelease(r) ==
    /\ prn.pc = "delete" /\ r \in prn.victims
    /\ newer[r] \cap prn.victims = {}
    /\ releases' = releases \ {r}
    /\ newer' = [s \in Release |-> IF s = r THEN {} ELSE newer[s] \ {r}]
    /\ prn' = IF prn.victims = {r} THEN NoPrune
              ELSE Prune("delete", {}, prn.victims \ {r})
    /\ UNCHANGED <<object, build, promotion, grant, usedBy, bld, prm, rsc, usr, bounds,
                   ghosts>>

-----------------------------------------------------------------------------
(* The HTTP API                                                            *)

\* PATCH /environments/{name}: an environment without requirements is moved
\* by this request, after the reads that let it.
PatchEnvironment(u, e, r) ==
    /\ requests < MaxRequests /\ usr[u].pc = "idle"
    /\ exists[e] /\ Exists(r) /\ release[e] # r
    /\ ~gated[e] /\ e \notin BelowClass
    /\ usr' = [usr EXCEPT ![u] = Request("point", e, r, release[e], <<>>)]
    /\ requests' = requests + 1
    /\ UNCHANGED <<object, records, bld, prm, rsc, prn, barChanges, faults, ghosts>>

\* The same request against declared requirements, and POST .../promotions:
\* a manual Promotion.  One per pair is enough here.
RequestPromotion(e, r) ==
    /\ requests < MaxRequests
    /\ exists[e] /\ Exists(r)
    /\ promotion[<<e, r, "manual">>] = "none"
    /\ promotion' = [promotion EXCEPT ![<<e, r, "manual">>] = "Pending"]
    /\ requests' = requests + 1
    /\ UNCHANGED <<object, releases, newer, build, grant, usedBy, workers, barChanges,
                   faults, ghosts>>

\* The merge patch of spec.releaseRef carries no version.  Its answer is the
\* object as it is now, history included.
PointEnvironmentAt(u) ==
    /\ usr[u].pc = "point"
    /\ LET e == usr[u].env
       IN  /\ IF release[e] = usr[u].rel
              THEN UNCHANGED <<release, holders, served>>
              ELSE MoveTo(e, usr[u].rel) /\ Write(e, {})
           /\ usr' = [usr EXCEPT ![u] =
                         IF Records(history[e], usr[u].out)
                         THEN Request("history", e, usr[u].rel, usr[u].out, history[e])
                         ELSE NoRequest]
    /\ UNCHANGED <<exists, gated, observed, history, records, bld, prm, rsc, prn, bounds,
                   judged, moved>>

\* The merge patch of status.history replaces the whole list.
PatchHistory(u) ==
    /\ usr[u].pc = "history"
    /\ history' = [history EXCEPT ![usr[u].env] = Recorded(usr[u].hist, usr[u].out)]
    /\ Write(usr[u].env, {})
    /\ usr' = [usr EXCEPT ![u] = NoRequest]
    /\ UNCHANGED <<exists, gated, release, observed, records, bld, prm, rsc, prn, bounds,
                   ghosts>>

\* POST /projects/{name}/environments: declared before anything deploys.
DeclareEnvironment(e, bar) ==
    /\ barChanges < MaxBarChanges /\ ~exists[e]
    /\ exists' = [exists EXCEPT ![e] = TRUE]
    /\ gated' = [gated EXCEPT ![e] = bar]
    /\ Write(e, {})
    /\ barChanges' = barChanges + 1
    /\ UNCHANGED <<release, observed, history, records, workers, requests, faults, ghosts>>

\* PATCH /environments/{name}/requirements.
PatchRequirements(e) ==
    /\ barChanges < MaxBarChanges /\ exists[e]
    /\ gated' = [gated EXCEPT ![e] = ~@]
    /\ Write(e, {})
    /\ barChanges' = barChanges + 1
    /\ UNCHANGED <<exists, release, observed, history, records, workers, requests,
                   faults, ghosts>>

-----------------------------------------------------------------------------
(* A call that fails, or a restart: the pass is dropped where it stands    *)

Drop ==
    /\ faults < MaxFaults
    /\ faults' = faults + 1
    /\ \/ bld.pc # "idle" /\ bld' = NoBuild /\ UNCHANGED <<prm, rsc, prn, usr>>
       \/ prm.pc # "idle" /\ prm' = NoPromoting /\ UNCHANGED <<bld, rsc, prn, usr>>
       \/ rsc.pc # "idle" /\ rsc' = NoRollback /\ UNCHANGED <<bld, prm, prn, usr>>
       \/ prn.pc # "idle" /\ prn' = NoPrune /\ UNCHANGED <<bld, prm, rsc, usr>>
       \/ \E u \in User :
             /\ usr[u].pc # "idle" /\ usr' = [usr EXCEPT ![u] = NoRequest]
             /\ UNCHANGED <<bld, prm, rsc, prn>>
    /\ UNCHANGED <<object, records, requests, barChanges, ghosts>>

-----------------------------------------------------------------------------
(* The specification                                                       *)

Initially(e) == IF e \in Declared THEN FirstRelease ELSE None

Init ==
    /\ exists = [e \in Env |-> e \in Declared]
    /\ gated = [e \in Env |-> e \in Gated]
    /\ release = [e \in Env |-> Initially(e)]
    /\ observed = [e \in Env |-> Initially(e)]
    /\ history = [e \in Env |-> <<>>]
    /\ holders = [e \in Env |-> {}]
    /\ releases = {FirstRelease} \ {None}
    /\ newer = [r \in Release |-> {}]
    /\ build = [r \in Release |-> IF r = FirstRelease THEN "succeeded" ELSE "running"]
    /\ promotion = [p \in Promotion |-> "none"]
    /\ grant = [c \in Env \X Release |-> IF c \in Waivable THEN "active" ELSE "none"]
    /\ usedBy = {}
    /\ bld = NoBuild /\ prm = NoPromoting /\ rsc = NoRollback /\ prn = NoPrune
    /\ usr = [u \in User |-> NoRequest]
    /\ requests = 0 /\ barChanges = 0 /\ faults = 0
    /\ served = [e \in Env |-> {Initially(e)} \ {None}]
    /\ judged = {}
    /\ moved = {}

BuildNext ==
    \/ \E r \in Release : Succeed(r) \/ BuildFails(r)
    \/ PromoteOrFlip \/ BuildPromotes \/ EnsureEnvironment \/ CreateEnvironment
    \/ BuildFlips \/ BuildRecords \/ BuildConflict \/ BuildSucceeded

PromotionNext ==
    \/ \E p \in Promotion : Resolve(p)
    \/ Evaluate \/ Fail \/ Settle \/ AlreadyThere \/ Apply \/ PromotionRecords
    \/ PromotionConflict \/ Chain \/ Applied

RescanNext ==
    \/ \E e \in Env : RollBackForExpiry(e)
    \/ RollBack \/ RollbackRecords \/ RollbackDropped

PruneNext ==
    \/ ListEnvironments \/ ListReleases
    \/ \E r \in Release : DeleteRelease(r)

ApiNext ==
    \/ \E u \in User, e \in Env, r \in Release : PatchEnvironment(u, e, r)
    \/ \E e \in Env, r \in Release : RequestPromotion(e, r)
    \/ \E u \in User : PointEnvironmentAt(u) \/ PatchHistory(u)
    \/ \E e \in Env, bar \in BOOLEAN : DeclareEnvironment(e, bar)
    \/ \E e \in Env : PatchRequirements(e)

Next ==
    \/ BuildNext \/ PromotionNext \/ RescanNext \/ PruneNext \/ ApiNext
    \/ \E e \in Env : Observe(e)
    \/ \E e \in Env, r \in Release : ExceptionExpires(e, r)
    \/ Drop

Spec == Init /\ [][Next]_vars

-----------------------------------------------------------------------------
(* Types                                                                   *)

Name == Release \cup {None}
Phase == {"none"} \cup Open \cup Terminal

BuildPass ==
    [pc : {"idle", "route", "promote", "ensure", "create", "flip", "history", "done"},
     rel : Name, out : Name]
PromotionPass ==
    [pc : {"idle", "evaluate", "fail", "settle", "apply", "history", "next", "applied"},
     p : Env \X Name \X {"automatic", "manual"}, out : Name, bar : BOOLEAN,
     verdict : {"none", "Allowed", "AllowedWithException", "Blocked"}]
RescanPass ==
    [pc : {"idle", "move", "history"}, env : Env, rel : Name, target : Name]
PrunePass ==
    [pc : {"idle", "list", "delete"}, refs : SUBSET Name, victims : SUBSET Release]
ApiPass ==
    [pc : {"idle", "point", "history"}, env : Env, rel : Name, out : Name,
     hist : Seq(Release)]

\* Every object and every pass holds values of its type, and a name that is
\* written is a real release: the empty name never enters a history.
TypeOK ==
    /\ exists \in [Env -> BOOLEAN] /\ gated \in [Env -> BOOLEAN]
    /\ release \in [Env -> Name] /\ observed \in [Env -> Name]
    /\ history \in [Env -> Seq(Release)] /\ holders \in [Env -> SUBSET Reader]
    /\ releases \subseteq Release /\ newer \in [Release -> SUBSET Release]
    /\ build \in [Release -> {"running", "succeeded", "failed"}]
    /\ promotion \in [Promotion -> Phase]
    /\ grant \in [Env \X Release -> {"none", "active", "expired"}]
    /\ usedBy \subseteq Promotion
    /\ bld \in BuildPass /\ prm \in PromotionPass /\ rsc \in RescanPass
    /\ prn \in PrunePass /\ usr \in [User -> ApiPass]
    /\ requests \in Nat /\ barChanges \in Nat /\ faults \in Nat
    /\ served \in [Env -> SUBSET Release]
    /\ judged \subseteq Promotion /\ moved \subseteq Promotion

-----------------------------------------------------------------------------
(* Safety                                                                  *)

\* One door into a gated environment: as long as nobody declared or changed
\* requirements, what an environment with requirements serves was there from
\* the start or was allowed by the policy for this environment, whichever of
\* the writers moved it there (patchEnvironment, promoteOrFlip, apply, rollBack).
BarHolds ==
    barChanges = 0 =>
        \A e \in Env : gated[e] /\ release[e] \notin {None, Initially(e)} =>
            \E p \in judged : p[1] = e /\ p[2] = release[e]

\* Whatever happens to its pass, to the requirements and to the exceptions
\* meanwhile, a promotion moves an environment only after its own evaluation
\* allowed it: the phase it is re-entered by always means what it says.
MovedWasJudged == moved \subseteq judged

\* A promotion that reports Applied did put its release on its environment,
\* across every conflict, dropped pass and retry of apply.
AppliedWasServed ==
    \A p \in Promotion : promotion[p] = "Applied" => p[2] \in served[p[1]]

\* The pipeline is climbed in order: a release is promoted into a later stage
\* by the platform only after the stage before it served it.
StagesInOrder ==
    \A i \in 1..(Len(Stages) - 1), r \in Release :
        promotion[<<Stages[i + 1], r, "automatic">>] # "none" =>
            r \in served[Stages[i]]

\* prune keeps at least the newest releases of the project: one is deleted
\* only while as many newer ones remain, though it was chosen from a list
\* read earlier and builds create releases meanwhile.
RetentionKept ==
    [][\A r \in Release : Exists(r) /\ ~Exists(r)' =>
          Cardinality(newer[r]) >= Retention]_vars

-----------------------------------------------------------------------------
(* Liveness                                                                *)

\* Every reconciler is retried until it is done: a pass that returns an error
\* is queued again, and a request that was accepted is served.  The status
\* write of a pass needs no other write to come between it and the write
\* before it; the queue's growing back-off makes that happen in the end, which
\* strong fairness states.
Fairness ==
    /\ WF_vars(BuildNext) /\ WF_vars(PromotionNext)
    /\ WF_vars(RescanNext) /\ WF_vars(PruneNext)
    /\ SF_vars(BuildRecords) /\ SF_vars(PromotionRecords)
    /\ \A e \in Env : WF_vars(Observe(e))
    /\ \A u \in User : WF_vars(PointEnvironmentAt(u)) /\ WF_vars(PatchHistory(u))

FairSpec == Spec /\ Fairness

\* Whatever is dropped, refused and retried, the pipeline comes to rest: every finished
\* build is concluded and its release routed, every promotion ends as Applied, Blocked
\* or Failed, and what an environment reports as observed is what it is pointed at,
\* unless that release was pruned meanwhile.
ComesToRest ==
    <>[](/\ \A r \in Release : build[r] # "running"
         /\ \A p \in Promotion : promotion[p] \notin Open
         /\ \A e \in Env : release[e] \in releases => observed[e] = release[e])
=============================================================================
