------------------------------ MODULE Previews ------------------------------
(***************************************************************************)
(* Preview environments: a pull request is built and published under its   *)
(* own name while it is open.                                              *)
(*                                                                         *)
(* The git provider sends a delivery for every push and for every change   *)
(* of a request; deliveries overtake each other, come twice or not at all. *)
(* The webhook receiver creates one Build per commit, writes down on a     *)
(* Build that exists already which request its commit belongs to, and      *)
(* deletes the preview of a request that closed.  The build reconciler,    *)
(* one pass at a time, puts a finished build's release on the preview of   *)
(* its request, below a ceiling on live previews, or does so afterwards    *)
(* for a request it was told about late.                                   *)
(*                                                                         *)
(* One step is one call to the API server.  The receiver and the           *)
(* reconciler, one process, read Builds and Environments from its          *)
(* informers, which may trail; a pass on a Build that has changed since    *)
(* does what it does to previews all the same, and only its last write is  *)
(* refused.  Previews are taken to be switched on.  What a Build does      *)
(* before it has an image is BuildUnit's subject, and the release a        *)
(* production build leads to is Delivery's.                                *)
(***************************************************************************)
EXTENDS Integers, FiniteSets

CONSTANTS
    Request,    \* pull requests
    Commit,     \* commits, in the order they are made
    CommitsOf,  \* the commits of a request's branch
    Origins,    \* where requests come from: the choices explored
    Max,        \* live previews a project may have, 0 for any number
    MaxUpsets   \* bound on lost and repeated deliveries, cut-off passes and
                \* handlers, reopenings and removals

None == 0   \* no request, no commit

\* The project's own repository, or a fork under one of the three fork policies.
Origin == {"own", "none", "build", "full"}

ASSUME PreviewsAssumption ==
    /\ IsFiniteSet(Request) /\ None \notin Request
    /\ Commit \subseteq Nat \ {None}
    /\ CommitsOf \in [Request -> SUBSET Commit]
    /\ Origins \subseteq [Request -> Origin]
    /\ Max \in Nat /\ MaxUpsets \in Nat

VARIABLES
    origin,     \* where each request's head repository is
    state,      \* the request at the provider: unborn, open or closed
    head,       \* its newest commit
    wire,       \* deliveries on their way
    handlers,   \* deliveries that met a Build which exists already
    builds,     \* the Build of each commit
    copies,     \* the same in the manager's cache
    previews,   \* the preview Environment of each request, and what it serves
    seen,       \* the same in the reconciler's cache
    refused,    \* the Project's record of requests refused at the ceiling
    pass,       \* the build reconciler's pass
    upsets,     \* upsets so far
    uncounted,  \* history: previews put up without a count of the others
    excused,    \* history: requests that closed, or that a delivery or a
                \* preview of was lost
    owed        \* history: requests something was still under way for when they
                \* last closed, or whose closing was never heard of

provider == <<origin, state, head>>
ghosts   == <<uncounted, excused, owed>>
vars     == <<provider, wire, handlers, builds, copies, previews, seen, refused, pass,
              upsets, ghosts>>

-----------------------------------------------------------------------------

Delivery(kind, r, c) == [kind |-> kind, request |-> r, commit |-> c]

\* asked: the request in the Build's spec; noted: the one in its annotation.
Build(phase, asked, noted, preview) ==
    [phase |-> phase, asked |-> asked, noted |-> noted, preview |-> preview]
NoBuild == Build("none", None, None, None)

\* PullRequestNumber.
Number(b) == IF b.asked # None THEN b.asked ELSE b.noted

Preview(phase, c) == [phase |-> phase, release |-> c]

\* counted: the other previews were counted, as they are, before this one.
\* current: the copy of the Build that the pass began with is the Build.
Pass(at, c, r, counted, current) ==
    [at |-> at, commit |-> c, request |-> r, counted |-> counted, current |-> current]
Idle == Pass("idle", None, None, FALSE, FALSE)

Upset == upsets < MaxUpsets /\ upsets' = upsets + 1

\* A cache follows a write, or trails it for a while.
Follows(cache, new) ==
    \/ cache' = new /\ UNCHANGED upsets
    \/ cache # new /\ UNCHANGED cache /\ Upset

WritesBuild(c, b) ==
    /\ builds' = [builds EXCEPT ![c] = b]
    /\ Follows(copies, [copies EXCEPT ![c] = b])

\* A finished build that was told of its request.
ToldLate(b) == b.phase = "succeeded" /\ b.asked = None /\ b.noted # None

\* A Build that has yet to be routed to a request it knows of.
Unrouted(b, r) ==
    Number(b) = r /\ (b.phase = "running" \/ (ToldLate(b) /\ b.preview = None))

\* Something is on its way to a preview of the request, or a copy says so.
UnderWay(r) ==
    \/ \E d \in wire : d.kind = "head" /\ d.request = r
    \/ \E h \in handlers : h.request = r
    \/ pass.request = r
    \/ \E c \in Commit : Unrouted(builds[c], r) \/ Unrouted(copies[c], r)

-----------------------------------------------------------------------------
(* The provider                                                            *)

\* A branch is pushed to; a fork's pushes are delivered to the fork.
PushCommit(r, c) ==
    /\ c \in CommitsOf[r] /\ c > head[r]
    /\ head' = [head EXCEPT ![r] = c]
    /\ wire' = wire
         \cup {d \in {Delivery("push", None, c)} : origin[r] = "own"}
         \cup {d \in {Delivery("head", r, c)} : state[r] = "open"}
    /\ UNCHANGED <<origin, state, handlers, builds, copies, previews, seen, refused, pass,
                   upsets, ghosts>>

OpenRequest(r) ==
    /\ head[r] # None
    /\ \/ state[r] = "unborn" /\ UNCHANGED upsets
       \/ state[r] = "closed" /\ Upset
    /\ state' = [state EXCEPT ![r] = "open"]
    /\ wire' = wire \cup {Delivery("head", r, head[r])}
    /\ UNCHANGED <<origin, head, handlers, builds, copies, previews, seen, refused, pass,
                   ghosts>>

CloseRequest(r) ==
    /\ state[r] = "open"
    /\ state' = [state EXCEPT ![r] = "closed"]
    /\ wire' = wire \cup {Delivery("close", r, None)}
    /\ excused' = excused \cup {r}
    /\ owed' = IF UnderWay(r) THEN owed \cup {r} ELSE owed \ {r}
    /\ UNCHANGED <<origin, head, handlers, builds, copies, previews, seen, refused, pass,
                   upsets, uncounted>>

LoseDelivery(d) ==
    /\ d \in wire /\ wire' = wire \ {d}
    /\ excused' = excused \cup ({d.request} \ {None})
    /\ owed' = IF d.kind = "close" THEN owed \cup {d.request} ELSE owed
    /\ Upset
    /\ UNCHANGED <<provider, handlers, builds, copies, previews, seen, refused, pass, uncounted>>

-----------------------------------------------------------------------------
(* The receiver                                                            *)

\* A delivery is taken, and may come again.
Take(d) ==
    /\ d \in wire
    /\ \/ wire' = wire \ {d} /\ UNCHANGED upsets
       \/ UNCHANGED wire /\ Upset

\* What a delivery says of a commit is acted on; a fork is asked about first.
Builds(d) ==
    /\ d.kind \in {"push", "head"}
    /\ d.kind = "head" => origin[d.request] # "none"

CreateBuild(d) ==
    /\ d \in wire /\ Builds(d) /\ builds[d.commit].phase = "none"
    /\ wire' = wire \ {d}
    /\ WritesBuild(d.commit, Build("running", d.request, None, None))
    /\ UNCHANGED <<provider, handlers, previews, seen, refused, pass, ghosts>>

\* The name is taken: a push is a repetition, a request may be news.
BuildExists(d) ==
    /\ Take(d) /\ Builds(d) /\ builds[d.commit].phase # "none"
    /\ handlers' = IF d.kind = "push" THEN handlers
                   ELSE handlers \cup {[at |-> "read", request |-> d.request,
                                        commit |-> d.commit]}
    /\ UNCHANGED <<provider, builds, copies, previews, seen, refused, pass, ghosts>>

RefuseFork(d) ==
    /\ Take(d) /\ d.kind = "head" /\ ~Builds(d)
    /\ UNCHANGED <<provider, handlers, builds, copies, previews, seen, refused, pass, ghosts>>

\* Mutant: a request is news to a Build only while it runs.
ReadUnfinished(h) ==
    /\ h \in handlers /\ h.at = "read" /\ copies[h.commit].phase # "none"
    /\ handlers' = (handlers \ {h}) \cup
          (IF Number(copies[h.commit]) # None \/ copies[h.commit].phase # "running" THEN {}
           ELSE {[h EXCEPT !.at = "patch"]})
    /\ UNCHANGED <<provider, wire, builds, copies, previews, seen, refused, pass, upsets, ghosts>>

\* recordPullRequest: the first request to claim a commit keeps it.
ReadBuild(h) ==
    /\ h \in handlers /\ h.at = "read" /\ copies[h.commit].phase # "none"
    /\ handlers' = (handlers \ {h}) \cup
          (IF Number(copies[h.commit]) # None THEN {} ELSE {[h EXCEPT !.at = "patch"]})
    /\ UNCHANGED <<provider, wire, builds, copies, previews, seen, refused, pass, upsets, ghosts>>

\* A Build the cache does not have yet reads as deleted.
BuildNotFound(h) ==
    /\ h \in handlers /\ h.at = "read" /\ copies[h.commit].phase = "none"
    /\ handlers' = handlers \ {h}
    /\ excused' = excused \cup {h.request}
    /\ UNCHANGED <<provider, wire, builds, copies, previews, seen, refused, pass, upsets,
                   uncounted, owed>>

\* The annotation is patched in; every other copy of the Build is an old one.
NoteRequest(h) ==
    /\ h \in handlers /\ h.at = "patch"
    /\ handlers' = handlers \ {h}
    /\ WritesBuild(h.commit, [builds[h.commit] EXCEPT !.noted = h.request])
    /\ pass' = IF pass.commit = h.commit /\ builds[h.commit].noted # h.request
               THEN [pass EXCEPT !.current = FALSE] ELSE pass
    /\ UNCHANGED <<provider, wire, previews, seen, refused, ghosts>>

HandlerFails(h) ==
    /\ h \in handlers /\ handlers' = handlers \ {h}
    /\ excused' = excused \cup {h.request}
    /\ Upset
    /\ UNCHANGED <<provider, wire, builds, copies, previews, seen, refused, pass, uncounted,
                   owed>>

\* Delete on the preview: its finalizer tears it down first.
Remove(r) ==
    /\ previews' = [previews EXCEPT ![r].phase = IF @ = "live" THEN "terminating" ELSE @]
    /\ Follows(seen, [seen EXCEPT ![r] = IF previews[r].phase = "live" THEN "terminating" ELSE @])

RequestClosed(d) ==
    /\ d \in wire /\ d.kind = "close"
    /\ wire' = wire \ {d}
    /\ Remove(d.request)
    /\ UNCHANGED <<provider, handlers, builds, copies, refused, pass, ghosts>>

\* DELETE /environments/{name}.
DeleteEnvironment(r) ==
    /\ previews[r].phase = "live" /\ upsets < MaxUpsets
    /\ previews' = [previews EXCEPT ![r].phase = "terminating"]
    /\ seen' \in {seen, [seen EXCEPT ![r] = "terminating"]}
    /\ upsets' = upsets + 1
    /\ excused' = excused \cup {r}
    /\ UNCHANGED <<provider, wire, handlers, builds, copies, refused, pass, uncounted, owed>>

\* The environment reconciler has torn everything down.
Finalize(r) ==
    /\ previews[r].phase = "terminating"
    /\ previews' = [previews EXCEPT ![r].phase = "none"]
    /\ Follows(seen, [seen EXCEPT ![r] = "none"])
    /\ UNCHANGED <<provider, wire, handlers, builds, copies, refused, pass, ghosts>>

-----------------------------------------------------------------------------
(* The informers                                                           *)

BuildCached(c) ==
    /\ copies[c] # builds[c]
    /\ copies' = [copies EXCEPT ![c] = builds[c]]
    /\ UNCHANGED <<provider, wire, handlers, builds, previews, seen, refused, pass, upsets,
                   ghosts>>

EnvironmentCached(r) ==
    /\ seen[r] # previews[r].phase
    /\ seen' = [seen EXCEPT ![r] = previews[r].phase]
    /\ UNCHANGED <<provider, wire, handlers, builds, copies, previews, refused, pass, upsets,
                   ghosts>>

-----------------------------------------------------------------------------
(* The build reconciler                                                    *)

\* Reconcile reads the Build from the cache.
Start(c, at) == pass' = Pass(at, c, Number(copies[c]), FALSE, copies[c] = builds[c])

\* succeed: the unit has its images, and the commit may have a request.
Begin(c) ==
    /\ pass = Idle /\ copies[c].phase = "running"
    /\ Start(c, IF Number(copies[c]) = None THEN "write" ELSE "route")
    /\ UNCHANGED <<provider, wire, handlers, builds, copies, previews, seen, refused, upsets,
                   ghosts>>

\* On an old copy the write is refused and nothing has happened.
BuildFails(c) ==
    /\ pass = Idle /\ builds[c].phase = "running" /\ copies[c] = builds[c]
    /\ WritesBuild(c, [builds[c] EXCEPT !.phase = "failed"])
    /\ UNCHANGED <<provider, wire, handlers, previews, seen, refused, pass, ghosts>>

\* Mutant: what was routed already is not asked.
AdoptAgain(c) ==
    /\ pass = Idle /\ ToldLate(copies[c])
    /\ Start(c, "route")
    /\ UNCHANGED <<provider, wire, handlers, builds, copies, previews, seen, refused, upsets,
                   ghosts>>

\* adoptLatePreview.
Adopt(c) ==
    /\ pass = Idle /\ ToldLate(copies[c]) /\ copies[c].preview = None
    /\ Start(c, "route")
    /\ UNCHANGED <<provider, wire, handlers, builds, copies, previews, seen, refused, upsets,
                   ghosts>>

\* A fork's build is published under the policy that publishes forks.
Withheld(b) == b.asked # None /\ origin[b.asked] \notin {"own", "full"}

Live(phases) == {r \in Request : phases[r] = "live"}
Phases == [r \in Request |-> previews[r].phase]

\* Mutant: a ceiling is reached when it has been passed.
PassedOnly == Max > 0 /\ Cardinality(Live(seen)) > Max

Reached == Max > 0 /\ Cardinality(Live(seen)) >= Max

\* forkPreviewAllowed, then previewAllowed: a preview that exists in any state
\* is never refused.
RoutePreview ==
    /\ pass.at = "route"
    /\ pass' = IF Withheld(copies[pass.commit]) THEN [pass EXCEPT !.at = "write", !.request = None]
               ELSE IF seen[pass.request] # "none" THEN [pass EXCEPT !.at = "ensure"]
               ELSE IF Reached THEN [pass EXCEPT !.at = "refuse"]
               ELSE [pass EXCEPT !.at = "ensure", !.counted = seen = Phases]
    /\ UNCHANGED <<provider, wire, handlers, builds, copies, previews, seen, refused, upsets,
                   ghosts>>

RecordRefusal ==
    /\ pass.at = "refuse"
    /\ refused' = refused \cup {pass.request}
    /\ pass' = [pass EXCEPT !.at = "write", !.request = None]
    /\ UNCHANGED <<provider, wire, handlers, builds, copies, previews, seen, upsets, ghosts>>

\* ensureEnvironment, on a preview its cache does not have.
EnsureCreates ==
    LET r == pass.request
    IN  /\ pass.at = "ensure" /\ seen[r] = "none" /\ previews[r].phase = "none"
        /\ previews' = [previews EXCEPT ![r] = Preview("live", pass.commit)]
        /\ Follows(seen, [seen EXCEPT ![r] = "live"])
        /\ uncounted' = IF pass.counted THEN uncounted \ {r} ELSE uncounted \cup {r}
        /\ pass' = [pass EXCEPT !.at = "clear"]
        /\ UNCHANGED <<provider, wire, handlers, builds, copies, refused, excused, owed>>

\* On one it has, the release moves.
EnsureMoves ==
    LET r == pass.request
    IN  /\ pass.at = "ensure" /\ seen[r] # "none" /\ seen[r] = previews[r].phase
        /\ previews[r].release # pass.commit
        /\ previews' = [previews EXCEPT ![r].release = pass.commit]
        /\ pass' = [pass EXCEPT !.at = "clear"]
        /\ UNCHANGED <<provider, wire, handlers, builds, copies, seen, refused, upsets, ghosts>>

\* It serves the release already, or did when the cache last heard of it.
Finds == seen[pass.request] # "none" /\ previews[pass.request].release = pass.commit

EnsureFinds ==
    /\ pass.at = "ensure" /\ Finds
    /\ pass' = [pass EXCEPT !.at = "clear"]
    /\ UNCHANGED <<provider, wire, handlers, builds, copies, previews, seen, refused, upsets,
                   ghosts>>

\* The write is refused: the preview changed since the cache had it.
EnsureRefused ==
    /\ pass.at = "ensure" /\ ~Finds /\ seen[pass.request] # previews[pass.request].phase
    /\ pass' = Idle
    /\ UNCHANGED <<provider, wire, handlers, builds, copies, previews, seen, refused, upsets,
                   ghosts>>

ClearRefusal ==
    /\ pass.at = "clear"
    /\ refused' = refused \ {pass.request}
    /\ pass' = [pass EXCEPT !.at = "write"]
    /\ UNCHANGED <<provider, wire, handlers, builds, copies, previews, seen, upsets, ghosts>>

\* The status is written on the copy the pass began with, or refused.
WriteBuild ==
    /\ pass.at = "write" /\ pass.current
    /\ WritesBuild(pass.commit, [builds[pass.commit] EXCEPT !.phase = "succeeded",
                                                            !.preview = pass.request])
    /\ pass' = Idle
    /\ UNCHANGED <<provider, wire, handlers, previews, seen, refused, ghosts>>

WriteConflict ==
    /\ pass.at = "write" /\ ~pass.current
    /\ pass' = Idle
    /\ UNCHANGED <<provider, wire, handlers, builds, copies, previews, seen, refused, upsets,
                   ghosts>>

\* A call fails, or the process goes away: the Build is reconciled again.
CutOff ==
    /\ pass # Idle /\ pass' = Idle /\ Upset
    /\ UNCHANGED <<provider, wire, handlers, builds, copies, previews, seen, refused, ghosts>>

-----------------------------------------------------------------------------

Init ==
    /\ origin \in Origins
    /\ state = [r \in Request |-> "unborn"] /\ head = [r \in Request |-> None]
    /\ wire = {} /\ handlers = {}
    /\ builds = [c \in Commit |-> NoBuild] /\ copies = builds
    /\ previews = [r \in Request |-> Preview("none", None)]
    /\ seen = [r \in Request |-> "none"]
    /\ refused = {} /\ pass = Idle /\ upsets = 0
    /\ uncounted = {} /\ excused = {} /\ owed = {}

Provider ==
    \/ \E r \in Request : \/ \E c \in Commit : PushCommit(r, c)
                          \/ OpenRequest(r)
                          \/ CloseRequest(r)
    \/ \E d \in wire : LoseDelivery(d)

Deliver(d) == CreateBuild(d) \/ BuildExists(d) \/ RefuseFork(d) \/ RequestClosed(d)
Handle(h)  == ReadBuild(h) \/ BuildNotFound(h) \/ NoteRequest(h)

Receiver ==
    \/ \E d \in wire : Deliver(d)
    \/ \E h \in handlers : Handle(h) \/ HandlerFails(h)

Cluster ==
    \/ \E r \in Request : DeleteEnvironment(r) \/ Finalize(r) \/ EnvironmentCached(r)
    \/ \E c \in Commit : BuildCached(c)

Advance ==
    \/ RoutePreview \/ RecordRefusal
    \/ EnsureCreates \/ EnsureMoves \/ EnsureFinds \/ EnsureRefused \/ ClearRefusal
    \/ WriteBuild \/ WriteConflict

Reconcile(c) == Begin(c) \/ BuildFails(c) \/ Adopt(c)

Next ==
    \/ Provider \/ Receiver \/ Cluster
    \/ \E c \in Commit : Reconcile(c)
    \/ Advance \/ CutOff

Spec == Init /\ [][Next]_vars

\* Informers, the receiver's handlers and the reconciler's passes go on.  A pass
\* takes one Build at a time, each in its turn.
Fairness ==
    /\ \A c \in Commit : WF_vars(BuildCached(c)) /\ SF_vars(Reconcile(c))
    /\ \A r \in Request : WF_vars(EnvironmentCached(r)) /\ WF_vars(Finalize(r))
    /\ WF_vars(\E d \in wire : Deliver(d))
    /\ WF_vars(\E h \in handlers : Handle(h))
    /\ WF_vars(Advance)

FairSpec == Spec /\ Fairness

-----------------------------------------------------------------------------
(* Properties                                                              *)

Owner == Request \cup {None}
BuildTable ==
    [Commit -> [phase : {"none", "running", "failed", "succeeded"},
                asked : Owner, noted : Owner, preview : Owner]]
Phase == {"none", "live", "terminating"}
PreviewTable == [Request -> [phase : Phase, release : Commit \cup {None}]]
Passes ==
    [at : {"idle", "route", "refuse", "ensure", "clear", "write"},
     commit : Commit \cup {None}, request : Owner, counted : BOOLEAN, current : BOOLEAN]

\* The state's shape.
TypeOK ==
    /\ origin \in Origins
    /\ state \in [Request -> {"unborn", "open", "closed"}]
    /\ head \in [Request -> Commit \cup {None}]
    /\ wire \subseteq [kind : {"push", "head", "close"}, request : Owner,
                       commit : Commit \cup {None}]
    /\ handlers \subseteq [at : {"read", "patch"}, request : Request, commit : Commit]
    /\ builds \in BuildTable /\ copies \in BuildTable
    /\ previews \in PreviewTable /\ seen \in [Request -> Phase]
    /\ refused \subseteq Request /\ pass \in Passes
    /\ upsets \in 0..MaxUpsets
    /\ uncounted \subseteq Request /\ excused \subseteq Request /\ owed \subseteq Request

\* The ceiling holds (previewcapacity.go) but for the previews put up on a count
\* the cache was late with, or on no count at all: previewAllowed found the
\* preview being torn down, and ensureEnvironment found it gone.  No delivery
\* order, retry or late adoption gets a preview past it otherwise.
CeilingKept == Max > 0 => Cardinality(Live(Phases) \ uncounted) <= Max

\* The preview of a request that closed stays down once the closing is heard of,
\* however deliveries repeat, passes are made again and copies of its Builds trail:
\* status.preview says which of them were routed (build_types.go: "a preview torn
\* down when its request closed is not resurrected").  Not so for a request that
\* something was under way for when it closed, a Build whose status.preview was yet
\* to be written or heard of included.
ClosedStaysDown ==
    \A r \in Request :
        state[r] = "closed" /\ r \notin owed /\ Delivery("close", r, None) \notin wire
            => previews[r].phase # "live"

\* The request a Build was routed to, or will be.
Claimant(b) == IF b.preview # None THEN b.preview ELSE Number(b)

Answered(r) ==
    LET b == builds[head[r]]
    IN  \/ origin[r] = "none"
        \/ b.phase = "failed"
        \/ /\ b.phase = "succeeded"
           /\ \/ /\ previews[r].phase = "live"
                 /\ b.preview = r \/ previews[r].release = head[r]
              \/ Claimant(b) \notin {r, None}
              \/ Withheld(b) \/ r \in refused
              \/ b.asked = r /\ b.preview = None /\ previews[r].phase = "live"

\* Whatever the order of push, request and build, the Build of an open request's
\* newest commit ends in an answer: its release was put on the request's preview,
\* which is up, though an older commit's Build routed later may have moved it back;
\* or it failed, is another request's, the one that claimed it first or raced it to
\* the Build, comes from a fork that is not published, or met the ceiling, which the
\* Project says until another of the request's Builds has the preview (receiver.go,
\* recordPullRequest: dropping the event "is a preview environment that never
\* appears").  Excepted are requests that closed once, a removed preview, a
\* delivery or handler lost, and a Build the cache did not have yet.
RequestsAnswered ==
    <>[](\A r \in Request : state[r] = "open" /\ r \notin excused => Answered(r))

\* Everything delivered, handled and reconciled.
Quiet ==
    /\ wire = {} /\ handlers = {} /\ pass = Idle
    /\ \A c \in Commit : builds[c].phase # "running"
    /\ \A c \in Commit : ~(ToldLate(builds[c]) /\ builds[c].preview = None)
    /\ copies = builds

\* docs/DEPLOYING.md: a preview "is torn down as soon as its pull request
\* closes": once everything has settled and nothing was lost, no closed request
\* has one.
ClosedHasNone ==
    Quiet /\ upsets = 0
        => \A r \in Request : state[r] = "closed" => previews[r].phase # "live"
=============================================================================
