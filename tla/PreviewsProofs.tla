--------------------------- MODULE PreviewsProofs ---------------------------
(***************************************************************************)
(* Proofs about Previews, for any number of requests, commits and upsets.  *)
(***************************************************************************)
EXTENDS Previews, FiniteSetTheorems, TLAPS

-----------------------------------------------------------------------------
(* Types                                                                   *)

\* What deliveries and a pass name is there to be named.
Wired ==
    \A d \in wire : /\ IF d.kind = "push" THEN d.request = None ELSE d.request \in Request
                    /\ d.kind # "close" => d.commit \in Commit
Placed ==
    /\ pass.at # "idle" => pass.commit \in Commit
    /\ pass.at \in {"route", "refuse", "ensure", "clear"} => pass.request \in Request

TypeInv == TypeOK /\ Wired /\ Placed

Entry == [phase : {"none", "running", "failed", "succeeded"},
          asked : Owner, noted : Owner, preview : Owner]

\* A Build written keeps its shape, and so does its copy, new or old.
LEMMA BuildEntries ==
    ASSUME NEW b \in Entry, NEW p \in {"none", "running", "failed", "succeeded"},
           NEW o \in Owner
    PROVE  /\ Build(p, o, None, None) \in Entry
           /\ [b EXCEPT !.phase = p] \in Entry
           /\ [b EXCEPT !.noted = o] \in Entry
           /\ [b EXCEPT !.phase = p, !.preview = o] \in Entry
  BY DEF Entry, Build, Owner

LEMMA BuildWritten ==
    ASSUME upsets \in 0..MaxUpsets, builds \in BuildTable, copies \in BuildTable,
           NEW c \in Commit, NEW b \in Entry, WritesBuild(c, b)
    PROVE  /\ builds' \in BuildTable /\ copies' \in BuildTable /\ upsets' \in 0..MaxUpsets
           /\ \A k \in Commit : builds'[k] = IF k = c THEN b ELSE builds[k]
           /\ \A k \in Commit : copies'[k] = copies[k] \/ (k = c /\ copies'[k] = b)
<1>1. BuildTable = [Commit -> Entry]
  BY DEF BuildTable, Entry
<1>2. upsets' \in 0..MaxUpsets
  BY PreviewsAssumption DEF WritesBuild, Follows, Upset
<1> QED BY <1>1, <1>2 DEF WritesBuild, Follows

LEMMA BuildFields ==
    ASSUME NEW t \in BuildTable, NEW c \in Commit
    PROVE  /\ t[c] \in Entry
           /\ t[c].asked \in Owner /\ t[c].noted \in Owner /\ t[c].preview \in Owner
  BY DEF BuildTable, Entry

LEMMA PreviewTables ==
    ASSUME NEW t \in PreviewTable, NEW r \in Request,
           NEW p \in Phase, NEW c \in Commit \cup {None}
    PROVE  /\ t[r].phase \in Phase /\ t[r].release \in Commit \cup {None}
           /\ [t EXCEPT ![r] = Preview(p, c)] \in PreviewTable
           /\ [t EXCEPT ![r].phase = p] \in PreviewTable
           /\ [t EXCEPT ![r].phase = IF @ = "live" THEN "terminating" ELSE @] \in PreviewTable
           /\ [t EXCEPT ![r].release = c] \in PreviewTable
  BY DEF PreviewTable, Preview, Phase

\* A cache that may trail keeps its type, and the bound of upsets holds.
LEMMA Bounded ==
    ASSUME upsets \in 0..MaxUpsets, Upset \/ UNCHANGED upsets
    PROVE  upsets' \in 0..MaxUpsets
  BY PreviewsAssumption DEF Upset

LEMMA SeenTrails ==
    ASSUME upsets \in 0..MaxUpsets, seen \in [Request -> Phase], NEW new \in [Request -> Phase],
           Follows(seen, new)
    PROVE  seen' \in [Request -> Phase] /\ upsets' \in 0..MaxUpsets
  BY Bounded DEF Follows

LEMMA PassShapes ==
    ASSUME NEW p \in Passes, NEW at \in {"idle", "route", "refuse", "ensure", "clear", "write"},
           NEW c \in Commit, NEW o \in Owner, NEW b \in BOOLEAN
    PROVE  /\ Idle \in Passes /\ Idle.at = "idle"
           /\ Pass(at, c, o, FALSE, b) \in Passes
           /\ [p EXCEPT !.at = at] \in Passes
           /\ [p EXCEPT !.at = at, !.request = None] \in Passes
           /\ [p EXCEPT !.at = at, !.counted = b] \in Passes
           /\ [p EXCEPT !.current = b] \in Passes
  BY DEF Passes, Idle, Pass, Owner

LEMMA TypeStep == TypeInv /\ [Next]_vars => TypeInv'
<1> SUFFICES ASSUME TypeInv, [Next]_vars PROVE TypeInv'
  OBVIOUS
<1> USE PreviewsAssumption DEF TypeInv, TypeOK, Wired, Placed, provider, ghosts
<1>1. ASSUME NEW r \in Request, NEW c \in Commit, PushCommit(r, c) PROVE TypeInv'
  BY <1>1 DEF PushCommit, Delivery, Owner
<1>2. ASSUME NEW r \in Request, OpenRequest(r) PROVE TypeInv'
  <2>1. head[r] \in Commit
    BY <1>2 DEF OpenRequest
  <2>2. upsets' \in 0..MaxUpsets
    BY <1>2, Bounded DEF OpenRequest
  <2> QED BY <1>2, <2>1, <2>2 DEF OpenRequest, Delivery, Owner
<1>3. ASSUME NEW r \in Request, CloseRequest(r) PROVE TypeInv'
  BY <1>3 DEF CloseRequest, Delivery, Owner
<1>4. ASSUME NEW d \in wire, LoseDelivery(d) PROVE TypeInv'
  BY <1>4, Bounded DEF LoseDelivery, Owner
<1>5. ASSUME NEW d \in wire, CreateBuild(d) PROVE TypeInv'
  <2>1. d.commit \in Commit /\ d.request \in Owner
    BY <1>5 DEF CreateBuild, Builds
  <2>2. Build("running", d.request, None, None) \in Entry
    BY <2>1 DEF Entry, Build, Owner
  <2>3. builds' \in BuildTable /\ copies' \in BuildTable /\ upsets' \in 0..MaxUpsets
    BY <1>5, <2>1, <2>2, BuildWritten DEF CreateBuild
  <2> QED BY <1>5, <2>3 DEF CreateBuild
<1>6. ASSUME NEW d \in wire, BuildExists(d) PROVE TypeInv'
  <2>1. wire' \subseteq wire /\ upsets' \in 0..MaxUpsets
    BY <1>6, Bounded DEF BuildExists, Take
  <2>2. handlers' \subseteq [at : {"read", "patch"}, request : Request, commit : Commit]
    BY <1>6 DEF BuildExists, Builds
  <2> QED BY <1>6, <2>1, <2>2 DEF BuildExists
<1>7. ASSUME NEW d \in wire, RefuseFork(d) PROVE TypeInv'
  <2>1. wire' \subseteq wire /\ upsets' \in 0..MaxUpsets
    BY <1>7, Bounded DEF RefuseFork, Take
  <2> QED BY <1>7, <2>1 DEF RefuseFork
<1>8. ASSUME NEW d \in wire, RequestClosed(d) PROVE TypeInv'
  <2>1. d.request \in Request
    BY <1>8 DEF RequestClosed
  <2>2. previews' \in PreviewTable
    BY <1>8, <2>1, PreviewTables DEF RequestClosed, Remove
  <2>3. [seen EXCEPT ![d.request] = IF previews[d.request].phase = "live" THEN "terminating" ELSE seen[d.request]]
          \in [Request -> Phase]
    BY <2>1 DEF Phase
  <2>4. seen' \in [Request -> Phase] /\ upsets' \in 0..MaxUpsets
    BY <1>8, <2>3, SeenTrails DEF RequestClosed, Remove
  <2> QED BY <1>8, <2>2, <2>4 DEF RequestClosed
<1>9. ASSUME NEW h \in handlers, ReadBuild(h) PROVE TypeInv'
  <2>1. handlers' \subseteq [at : {"read", "patch"}, request : Request, commit : Commit]
    BY <1>9 DEF ReadBuild
  <2> QED BY <1>9, <2>1 DEF ReadBuild
<1>10. ASSUME NEW h \in handlers, BuildNotFound(h) PROVE TypeInv'
  BY <1>10 DEF BuildNotFound
<1>11. ASSUME NEW h \in handlers, NoteRequest(h) PROVE TypeInv'
  <2>1. h.commit \in Commit /\ h.request \in Owner
    BY DEF Owner
  <2>2. builds' \in BuildTable /\ copies' \in BuildTable /\ upsets' \in 0..MaxUpsets
    <3>1. PICK b \in Entry : b = [builds[h.commit] EXCEPT !.noted = h.request]
      BY <2>1, BuildFields, BuildEntries
    <3>2. WritesBuild(h.commit, b)
      BY <1>11, <3>1 DEF NoteRequest, WritesBuild
    <3> QED BY <2>1, <3>2, BuildWritten
  <2>3. pass' \in Passes /\ pass'.at = pass.at /\ pass'.commit = pass.commit
          /\ pass'.request = pass.request
    BY <1>11 DEF NoteRequest, Passes
  <2> QED BY <1>11, <2>2, <2>3 DEF NoteRequest
<1>12. ASSUME NEW h \in handlers, HandlerFails(h) PROVE TypeInv'
  BY <1>12, Bounded DEF HandlerFails
<1>13. ASSUME NEW r \in Request, DeleteEnvironment(r) PROVE TypeInv'
  <2>1. previews' \in PreviewTable
    BY <1>13, PreviewTables DEF DeleteEnvironment, Phase
  <2>2. upsets' \in 0..MaxUpsets
    BY <1>13, Bounded DEF DeleteEnvironment, Upset
  <2> QED BY <1>13, <2>1, <2>2 DEF DeleteEnvironment, Phase
<1>14. ASSUME NEW r \in Request, Finalize(r) PROVE TypeInv'
  <2>1. previews' \in PreviewTable
    BY <1>14, PreviewTables DEF Finalize, Phase
  <2>2. [seen EXCEPT ![r] = "none"] \in [Request -> Phase]
    BY DEF Phase
  <2>3. seen' \in [Request -> Phase] /\ upsets' \in 0..MaxUpsets
    BY <1>14, <2>2, SeenTrails DEF Finalize
  <2> QED BY <1>14, <2>1, <2>3 DEF Finalize
<1>15. ASSUME NEW r \in Request, EnvironmentCached(r) PROVE TypeInv'
  <2>1. seen' \in [Request -> Phase]
    BY <1>15, PreviewTables DEF EnvironmentCached, PreviewTable
  <2> QED BY <1>15, <2>1 DEF EnvironmentCached
<1>16. ASSUME NEW c \in Commit, BuildCached(c) PROVE TypeInv'
  BY <1>16 DEF BuildCached, BuildTable
<1>17. ASSUME NEW c \in Commit, Begin(c) PROVE TypeInv'
  <2>1. Number(copies[c]) \in Owner
    BY BuildFields DEF Number, Owner
  <2> DEFINE b == copies[c] = builds[c]
  <2>3. b \in BOOLEAN
    OBVIOUS
  <2>4. \A at \in {"route", "write"} : Pass(at, c, Number(copies[c]), FALSE, b) \in Passes
    <3> HIDE DEF b
    <3> QED BY <2>1, <2>3, PassShapes
  <2>2. pass' \in Passes
    BY <1>17, <2>4 DEF Begin, Start
  <2> QED BY <1>17, <2>1, <2>2 DEF Begin, Start, Pass, Owner
<1>18. ASSUME NEW c \in Commit, BuildFails(c) PROVE TypeInv'
  <2>1. builds' \in BuildTable /\ copies' \in BuildTable /\ upsets' \in 0..MaxUpsets
    <3>1. builds[c] \in Entry
      BY BuildFields
    <3>2. PICK b \in Entry : b = [builds[c] EXCEPT !.phase = "failed"]
      BY <3>1 DEF Entry
    <3>3. WritesBuild(c, b)
      BY <1>18, <3>2 DEF BuildFails, WritesBuild
    <3> QED BY <3>3, BuildWritten
  <2> QED BY <1>18, <2>1 DEF BuildFails
<1>19. ASSUME NEW c \in Commit, Adopt(c) PROVE TypeInv'
  <2>1. Number(copies[c]) \in Request
    BY <1>19, BuildFields DEF Adopt, ToldLate, Number, Owner
  <2> DEFINE b == copies[c] = builds[c]
  <2>3. b \in BOOLEAN
    OBVIOUS
  <2>4. Pass("route", c, Number(copies[c]), FALSE, b) \in Passes
    <3> HIDE DEF b
    <3> QED BY <2>1, <2>3, PassShapes DEF Owner
  <2>2. pass' \in Passes
    BY <1>19, <2>4 DEF Adopt, Start
  <2> QED BY <1>19, <2>1, <2>2 DEF Adopt, Start, Pass
<1>20. CASE RoutePreview
  <2>1. pass \in Passes /\ (seen = Phases) \in BOOLEAN
    OBVIOUS
  <2>2. CASE pass' = [pass EXCEPT !.at = "write", !.request = None]
    BY <1>20, <2>1, <2>2 DEF RoutePreview, Passes, Owner
  <2>3. CASE pass' = [pass EXCEPT !.at = "ensure"]
    BY <1>20, <2>1, <2>3 DEF RoutePreview, Passes
  <2>4. CASE pass' = [pass EXCEPT !.at = "refuse"]
    BY <1>20, <2>1, <2>4 DEF RoutePreview, Passes
  <2>5. CASE pass' = [pass EXCEPT !.at = "ensure", !.counted = seen = Phases]
    <3> DEFINE b == seen = Phases
    <3>1. pass' = [pass EXCEPT !.at = "ensure", !.counted = b] /\ b \in BOOLEAN
      BY <2>5
    <3> HIDE DEF b
    <3>2. pass' \in Passes /\ pass'.at = "ensure" /\ pass'.commit = pass.commit
            /\ pass'.request = pass.request
      BY <2>1, <3>1 DEF Passes
    <3> QED BY <1>20, <3>2 DEF RoutePreview
  <2> QED BY <1>20, <2>2, <2>3, <2>4, <2>5 DEF RoutePreview
<1>21. CASE RecordRefusal
  BY <1>21 DEF RecordRefusal, Passes, Owner
<1>22. CASE EnsureCreates
  <2>1. pass.request \in Request /\ pass.commit \in Commit
    BY <1>22 DEF EnsureCreates
  <2>2. previews' \in PreviewTable
    BY <1>22, <2>1, PreviewTables DEF EnsureCreates, Phase
  <2>3. [seen EXCEPT ![pass.request] = "live"] \in [Request -> Phase]
    BY DEF Phase
  <2>4. seen' \in [Request -> Phase] /\ upsets' \in 0..MaxUpsets
    BY <1>22, <2>3, SeenTrails DEF EnsureCreates
  <2>5. pass' \in Passes /\ pass'.commit = pass.commit /\ pass'.request = pass.request
    BY <1>22 DEF EnsureCreates, Passes
  <2> QED BY <1>22, <2>1, <2>2, <2>4, <2>5 DEF EnsureCreates
<1>23. CASE EnsureMoves
  <2>1. pass.request \in Request /\ pass.commit \in Commit
    BY <1>23 DEF EnsureMoves
  <2>2. previews' \in PreviewTable
    BY <1>23, <2>1, PreviewTables DEF EnsureMoves, Phase
  <2>3. pass' \in Passes /\ pass'.commit = pass.commit /\ pass'.request = pass.request
    BY <1>23 DEF EnsureMoves, Passes
  <2> QED BY <1>23, <2>1, <2>2, <2>3 DEF EnsureMoves
<1>24. CASE EnsureFinds
  BY <1>24 DEF EnsureFinds, Passes
<1>25. CASE EnsureRefused
  BY <1>25 DEF EnsureRefused, Idle, Pass, Passes, Owner
<1>26. CASE ClearRefusal
  BY <1>26 DEF ClearRefusal, Passes
<1>27. CASE WriteBuild
  <2>1. pass.commit \in Commit /\ pass.request \in Owner
    BY <1>27 DEF WriteBuild, Passes
  <2>2. builds' \in BuildTable /\ copies' \in BuildTable /\ upsets' \in 0..MaxUpsets
    <3>1. PICK c \in Commit : c = pass.commit
      BY <2>1
    <3>2. PICK b \in Entry :
              b = [builds[c] EXCEPT !.phase = "succeeded", !.preview = pass.request]
      BY <2>1, BuildFields, BuildEntries
    <3>3. WritesBuild(c, b)
      BY <1>27, <3>1, <3>2 DEF WriteBuild, WritesBuild
    <3> QED BY <3>3, BuildWritten
  <2> QED BY <1>27, <2>2 DEF WriteBuild, Idle, Pass, Passes, Owner
<1>28. CASE WriteConflict
  BY <1>28 DEF WriteConflict, Idle, Pass, Passes, Owner
<1>29. CASE CutOff
  BY <1>29, Bounded DEF CutOff, Idle, Pass, Passes, Owner
<1>30. CASE UNCHANGED vars
  BY <1>30 DEF vars
<1> QED
  BY <1>1, <1>2, <1>3, <1>4, <1>5, <1>6, <1>7, <1>8, <1>9, <1>10, <1>11, <1>12, <1>13, <1>14, <1>15,
     <1>16, <1>17, <1>18, <1>19, <1>20, <1>21, <1>22, <1>23, <1>24, <1>25, <1>26, <1>27, <1>28, <1>29, <1>30
     DEF Next, Provider, Receiver, Deliver, Handle, Cluster, Advance, Reconcile

LEMMA InitTyped == Init => TypeInv
  BY PreviewsAssumption DEF Init, TypeInv, TypeOK, Wired, Placed, NoBuild, Build, BuildTable,
     Preview, PreviewTable, Phase, Idle, Pass, Passes, Owner

\* The state has its shape throughout.
THEOREM TypeCorrect == Spec => []TypeOK
<1>1. TypeInv => TypeOK
  BY DEF TypeInv
<1> QED BY <1>1, InitTyped, TypeStep, PTL DEF Spec

-----------------------------------------------------------------------------
(* What steps touch                                                        *)

\* The steps of a pass, and the others that touch a Build or the pass.
LEMMA Movers ==
    ASSUME [Next]_vars
    PROVE  \/ UNCHANGED <<builds, pass>>
           \/ \E d \in wire : CreateBuild(d)
           \/ \E h \in handlers : NoteRequest(h)
           \/ \E c \in Commit : Reconcile(c)
           \/ Advance \/ CutOff
<1>1. CASE Provider
  BY <1>1 DEF Provider, PushCommit, OpenRequest, CloseRequest, LoseDelivery
<1>2. CASE \E d \in wire : Deliver(d)
  BY <1>2 DEF Deliver, BuildExists, RefuseFork, RequestClosed
<1>3. CASE \E h \in handlers : Handle(h) \/ HandlerFails(h)
  BY <1>3 DEF Handle, ReadBuild, BuildNotFound, HandlerFails
<1>4. CASE Cluster
  BY <1>4 DEF Cluster, DeleteEnvironment, Finalize, EnvironmentCached, BuildCached
<1> QED BY <1>1, <1>2, <1>3, <1>4 DEF Next, Receiver, vars

\* Only the creation of a preview puts one up.
LEMMA Appears ==
    ASSUME TypeInv, [Next]_vars, ~EnsureCreates, NEW r \in Request, previews'[r].phase = "live"
    PROVE  previews[r].phase = "live"
<1> USE DEF TypeInv, TypeOK, PreviewTable
<1>1. CASE UNCHANGED previews
  BY <1>1
<1>2. ASSUME NEW d \in wire, RequestClosed(d) PROVE previews[r].phase = "live"
  BY <1>2 DEF RequestClosed, Remove
<1>3. ASSUME NEW q \in Request, DeleteEnvironment(q) \/ Finalize(q)
      PROVE  previews[r].phase = "live"
  BY <1>3 DEF DeleteEnvironment, Finalize
<1>4. CASE EnsureMoves
  BY <1>4 DEF EnsureMoves
<1>5. \/ UNCHANGED previews \/ \E d \in wire : RequestClosed(d)
      \/ \E q \in Request : DeleteEnvironment(q) \/ Finalize(q)
      \/ EnsureMoves
  <2>1. CASE Provider
    BY <2>1 DEF Provider, PushCommit, OpenRequest, CloseRequest, LoseDelivery
  <2>2. CASE Receiver
    BY <2>2 DEF Receiver, Deliver, CreateBuild, BuildExists, RefuseFork, Handle, ReadBuild,
       BuildNotFound, NoteRequest, HandlerFails
  <2>3. CASE Cluster
    BY <2>3 DEF Cluster, EnvironmentCached, BuildCached
  <2>4. CASE (\E c \in Commit : Reconcile(c)) \/ CutOff
    BY <2>4 DEF Reconcile, Begin, BuildFails, Adopt, CutOff
  <2>5. CASE Advance
    BY <2>5 DEF Advance, RoutePreview, RecordRefusal, EnsureFinds, EnsureRefused, ClearRefusal,
       WriteBuild, WriteConflict
  <2> QED BY <2>1, <2>2, <2>3, <2>4, <2>5 DEF Next, vars
<1> QED BY <1>1, <1>2, <1>3, <1>4, <1>5

-----------------------------------------------------------------------------
(* The preview of a closed request                                         *)

\* A pass whose copy of its Build is the Build works on one yet to be routed.
Fresh ==
    pass.at # "idle" /\ pass.current =>
        LET b == builds[pass.commit]
        IN  b.phase = "running" \/ (ToldLate(b) /\ b.preview = None)

\* Once closed with nothing under way, nothing comes under way.
Stilled ==
    \A r \in Request : state[r] = "closed" /\ r \notin owed =>
        /\ ~UnderWay(r)
        /\ Delivery("close", r, None) \in wire \/ previews[r].phase # "live"

StillInv == TypeInv /\ Fresh /\ Stilled

\* The steps of a pass short of its last write.
LEMMA Advances ==
    ASSUME TypeInv, Advance, ~WriteBuild
    PROVE  /\ UNCHANGED <<provider, wire, handlers, builds, copies, owed>>
           /\ pass.at # "idle" /\ pass'.request \in {pass.request, None}
           /\ pass'.at = "idle" \/ (pass'.commit = pass.commit /\ pass'.current = pass.current)
<1> USE DEF TypeInv, TypeOK, Passes, Idle, Pass, ghosts
<1>1. CASE RoutePreview
  BY <1>1 DEF RoutePreview
<1>2. CASE RecordRefusal \/ ClearRefusal
  BY <1>2 DEF RecordRefusal, ClearRefusal
<1>3. CASE EnsureCreates \/ EnsureMoves \/ EnsureFinds
  BY <1>3 DEF EnsureCreates, EnsureMoves, EnsureFinds
<1>4. CASE EnsureRefused \/ WriteConflict
  BY <1>4 DEF EnsureRefused, WriteConflict
<1> QED BY <1>1, <1>2, <1>3, <1>4 DEF Advance

LEMMA FreshStep == TypeInv /\ Fresh /\ [Next]_vars => Fresh'
<1> SUFFICES ASSUME TypeInv, Fresh, [Next]_vars PROVE Fresh'
  OBVIOUS
<1> USE DEF TypeInv, TypeOK, Placed
<1>1. CASE UNCHANGED <<builds, pass>>
  BY <1>1 DEF Fresh
<1>2. ASSUME NEW d \in wire, CreateBuild(d) PROVE Fresh'
  <2>1. d.commit \in Commit /\ builds[d.commit].phase = "none" /\ UNCHANGED pass
    BY <1>2 DEF CreateBuild, Builds, Wired
  <2>2. Build("running", d.request, None, None) \in Entry
    BY DEF Entry, Build, Owner
  <2>3. \A k \in Commit : builds'[k] = IF k = d.commit THEN Build("running", d.request, None, None)
                                       ELSE builds[k]
    BY <1>2, <2>1, <2>2, BuildWritten DEF CreateBuild
  <2> QED BY <2>1, <2>3 DEF Fresh, Build, Passes
<1>3. ASSUME NEW h \in handlers, NoteRequest(h) PROVE Fresh'
  <2>1. h.commit \in Commit /\ h.request \in Owner
    BY DEF Owner
  <2>2. \A k \in Commit : builds'[k] = IF k = h.commit THEN [builds[h.commit] EXCEPT !.noted = h.request]
                                       ELSE builds[k]
    <3>1. PICK b \in Entry : b = [builds[h.commit] EXCEPT !.noted = h.request]
      BY <2>1, BuildFields, BuildEntries
    <3>2. WritesBuild(h.commit, b)
      BY <1>3, <3>1 DEF NoteRequest, WritesBuild
    <3> QED BY <2>1, <3>1, <3>2, BuildWritten
  <2>3. builds[h.commit] \in Entry
    BY <2>1, BuildFields
  <2>4. CASE pass.commit = h.commit /\ builds[h.commit].noted # h.request
    <3>1. ~pass'.current
      BY <1>3, <2>4 DEF NoteRequest, Passes
    <3> QED BY <3>1 DEF Fresh
  <2>5. CASE pass.commit = h.commit /\ builds[h.commit].noted = h.request
    <3>1. builds'[h.commit] = builds[h.commit] /\ pass' = pass
      BY <1>3, <2>1, <2>2, <2>3, <2>5 DEF NoteRequest, Entry
    <3> QED BY <2>5, <3>1 DEF Fresh
  <2>6. CASE pass.commit # h.commit
    <3>1. pass' = pass
      BY <1>3, <2>6 DEF NoteRequest
    <3> QED BY <2>2, <2>6, <3>1 DEF Fresh
  <2> QED BY <2>4, <2>5, <2>6
<1>4. ASSUME NEW c \in Commit, Begin(c) \/ Adopt(c) PROVE Fresh'
  <2>1. /\ UNCHANGED builds /\ pass'.commit = c
        /\ pass'.current = (copies[c] = builds[c])
    BY <1>4 DEF Begin, Adopt, Start, Pass
  <2>2. copies[c].phase = "running" \/ (ToldLate(copies[c]) /\ copies[c].preview = None)
    BY <1>4 DEF Begin, Adopt
  <2> QED BY <2>1, <2>2 DEF Fresh, ToldLate
<1>5. ASSUME NEW c \in Commit, BuildFails(c) PROVE Fresh'
  BY <1>5 DEF Fresh, BuildFails, Idle, Pass
<1>6. CASE Advance /\ ~WriteBuild
  BY <1>6, Advances DEF Fresh
<1>7. CASE WriteBuild \/ CutOff
  BY <1>7 DEF Fresh, WriteBuild, CutOff, Idle, Pass
<1> QED BY <1>1, <1>2, <1>3, <1>4, <1>5, <1>6, <1>7, Movers DEF Reconcile

\* A write that leaves no Build to be routed to r leaves no copy of one either.
LEMMA WrittenStill ==
    ASSUME TypeInv, NEW r \in Request, ~UnderWay(r), NEW c \in Commit, NEW b \in Entry,
           WritesBuild(c, b), ~Unrouted(b, r),
           \A d \in wire' : d \in wire, \A h \in handlers' : h \in handlers, pass'.request # r
    PROVE  ~UnderWay(r)'
<1>1. /\ \A k \in Commit : builds'[k] = IF k = c THEN b ELSE builds[k]
      /\ \A k \in Commit : copies'[k] = copies[k] \/ (k = c /\ copies'[k] = b)
  BY BuildWritten DEF TypeInv, TypeOK
<1>2. \A k \in Commit : ~Unrouted(builds[k], r) /\ ~Unrouted(copies[k], r)
  BY DEF UnderWay
<1>3. \A k \in Commit : ~Unrouted(builds'[k], r) /\ ~Unrouted(copies'[k], r)
  BY <1>1, <1>2
<1>4. ~\E k \in Commit : Unrouted(builds[k], r)' \/ Unrouted(copies[k], r)'
  BY <1>3 DEF Unrouted, Number, ToldLate
<1> QED BY <1>4 DEF UnderWay

\* What is read, and what a pass takes up, is what was there.
LEMMA ReadStill ==
    ASSUME NEW r \in Request, ~UnderWay(r), UNCHANGED builds,
           UNCHANGED copies \/ \E k \in Commit : copies' = [copies EXCEPT ![k] = builds[k]],
           copies \in BuildTable,
           \A d \in wire' : d.kind = "head" /\ d.request = r => d \in wire,
           \A h \in handlers' : h.request = r => h \in handlers, pass'.request # r
    PROVE  ~UnderWay(r)'
<1>1. \A k \in Commit : ~Unrouted(builds[k], r) /\ ~Unrouted(copies[k], r)
  BY DEF UnderWay
<1>2. \A k \in Commit : copies'[k] \in {copies[k], builds[k]}
  BY DEF BuildTable
<1>3. ~\E k \in Commit : Unrouted(builds[k], r)' \/ Unrouted(copies[k], r)'
  BY <1>1, <1>2 DEF Unrouted, Number, ToldLate
<1> QED BY <1>3 DEF UnderWay

\* Only what opens the request again brings something under way for it.
LEMMA UnderWayStep ==
    ASSUME TypeInv, Fresh, [Next]_vars, NEW r \in Request, state[r] = "closed", ~UnderWay(r)
    PROVE  UnderWay(r)' => state'[r] = "open"
<1>0. /\ None \notin Request /\ copies \in BuildTable /\ builds \in BuildTable
      /\ pass.request # r
      /\ \A c \in Commit : ~Unrouted(builds[c], r) /\ ~Unrouted(copies[c], r)
      /\ \A d \in wire : ~(d.kind = "head" /\ d.request = r)
      /\ \A h \in handlers : h.request # r /\ h.request \in Request /\ h.commit \in Commit
  BY PreviewsAssumption DEF TypeInv, TypeOK, UnderWay
<1>1. ASSUME NEW q \in Request, NEW c \in Commit, PushCommit(q, c) PROVE ~UnderWay(r)'
  <2>1. \A d \in wire' : d.kind = "head" /\ d.request = r => d \in wire
    BY <1>1 DEF PushCommit, Delivery
  <2> QED BY <1>0, <1>1, <2>1, ReadStill DEF PushCommit
<1>2. ASSUME NEW q \in Request, OpenRequest(q) PROVE UnderWay(r)' => state'[r] = "open"
  <2>1. CASE q = r
    BY <1>2, <2>1 DEF OpenRequest, TypeInv, TypeOK
  <2>2. CASE q # r
    <3>1. \A d \in wire' : d.kind = "head" /\ d.request = r => d \in wire
      BY <1>2, <2>2 DEF OpenRequest, Delivery
    <3> QED BY <1>0, <1>2, <3>1, ReadStill DEF OpenRequest
  <2> QED BY <2>1, <2>2
<1>3. ASSUME NEW q \in Request, CloseRequest(q) PROVE ~UnderWay(r)'
  <2>1. \A d \in wire' : d.kind = "head" /\ d.request = r => d \in wire
    BY <1>3 DEF CloseRequest, Delivery
  <2> QED BY <1>0, <1>3, <2>1, ReadStill DEF CloseRequest
<1>4. ASSUME NEW d \in wire, LoseDelivery(d) \/ RefuseFork(d) \/ RequestClosed(d)
      PROVE  ~UnderWay(r)'
  <2>1. \A e \in wire' : e \in wire
    BY <1>4 DEF LoseDelivery, RefuseFork, RequestClosed, Take
  <2> QED BY <1>0, <1>4, <2>1, ReadStill DEF LoseDelivery, RefuseFork, RequestClosed
<1>5. ASSUME NEW d \in wire, CreateBuild(d) PROVE ~UnderWay(r)'
  <2> DEFINE b == Build("running", d.request, None, None)
  <2>1. d.commit \in Commit /\ d.request \in Owner /\ d.request # r
    BY <1>0, <1>5 DEF CreateBuild, Builds, TypeInv, TypeOK, Wired, Owner
  <2>2. b \in Entry
    BY <2>1 DEF Entry, Build, Owner
  <2>3. ~Unrouted(b, r)
    BY <1>0, <2>1 DEF Unrouted, Number, Build
  <2>4. WritesBuild(d.commit, b) /\ (\A e \in wire' : e \in wire) /\ UNCHANGED <<handlers, pass>>
    BY <1>5 DEF CreateBuild
  <2> HIDE DEF b
  <2> QED BY <1>0, <2>1, <2>2, <2>3, <2>4, WrittenStill
<1>6. ASSUME NEW d \in wire, BuildExists(d) PROVE ~UnderWay(r)'
  <2>1. \A e \in wire' : e \in wire
    BY <1>6 DEF BuildExists, Take
  <2>2. d.kind = "push" \/ d.request # r
    BY <1>0, <1>6 DEF BuildExists, Builds
  <2>3. \A h \in handlers' : h.request = r => h \in handlers
    BY <1>6, <2>2 DEF BuildExists
  <2> QED BY <1>0, <1>6, <2>1, <2>3, ReadStill DEF BuildExists
<1>7. ASSUME NEW h \in handlers, ReadBuild(h) PROVE ~UnderWay(r)'
  <2>1. [h EXCEPT !.at = "patch"].request = h.request
    BY DEF TypeInv, TypeOK
  <2>2. \A g \in handlers' : g \in handlers \/ g.request = h.request
    BY <1>7, <2>1 DEF ReadBuild
  <2>3. \A g \in handlers' : g.request = r => g \in handlers
    BY <1>0, <2>2
  <2> QED BY <1>0, <1>7, <2>3, ReadStill DEF ReadBuild
<1>8. ASSUME NEW h \in handlers, BuildNotFound(h) \/ HandlerFails(h) PROVE ~UnderWay(r)'
  <2>1. \A g \in handlers' : g \in handlers
    BY <1>8 DEF BuildNotFound, HandlerFails
  <2> QED BY <1>0, <1>8, <2>1, ReadStill DEF BuildNotFound, HandlerFails
<1>9. ASSUME NEW h \in handlers, NoteRequest(h) PROVE ~UnderWay(r)'
  <2>1. builds[h.commit] \in Entry /\ h.request \in Owner
    BY <1>0, BuildFields DEF Owner
  <2>2. PICK b \in Entry : b = [builds[h.commit] EXCEPT !.noted = h.request]
    BY <2>1 DEF Entry
  <2>7. /\ b.phase = builds[h.commit].phase
        /\ b.asked = builds[h.commit].asked /\ b.noted = h.request
    BY <2>1, <2>2 DEF Entry
  <2>3. ~Unrouted(builds[h.commit], r)
    BY <1>0
  <2>4. ~Unrouted(b, r)
    BY <1>0, <2>3, <2>7 DEF Unrouted, Number, ToldLate
  <2>5. pass'.request # r
    BY <1>0, <1>9 DEF NoteRequest, TypeInv, TypeOK, Passes
  <2>6. /\ h.commit \in Commit /\ WritesBuild(h.commit, b)
        /\ (\A d \in wire' : d \in wire) /\ \A g \in handlers' : g \in handlers
    BY <1>0, <1>9, <2>2 DEF NoteRequest, WritesBuild
  <2> QED BY <2>4, <2>5, <2>6, WrittenStill
<1>10. ASSUME NEW q \in Request, DeleteEnvironment(q) \/ Finalize(q) \/ EnvironmentCached(q)
       PROVE  ~UnderWay(r)'
  BY <1>0, <1>10, ReadStill DEF DeleteEnvironment, Finalize, EnvironmentCached
<1>11. ASSUME NEW c \in Commit, BuildCached(c) PROVE ~UnderWay(r)'
  BY <1>0, <1>11, ReadStill DEF BuildCached
<1>12. ASSUME NEW c \in Commit, Begin(c) \/ Adopt(c) PROVE ~UnderWay(r)'
  <2>1. Unrouted(copies[c], Number(copies[c])) /\ pass'.request = Number(copies[c])
    BY <1>12 DEF Begin, Adopt, Start, Pass, Unrouted
  <2>2. pass'.request # r
    BY <1>0, <2>1
  <2> QED BY <1>0, <1>12, <2>2, ReadStill DEF Begin, Adopt
<1>13. ASSUME NEW c \in Commit, BuildFails(c) PROVE ~UnderWay(r)'
  <2>0. builds[c] \in Entry
    BY <1>0, BuildFields
  <2>1. PICK b \in Entry : b = [builds[c] EXCEPT !.phase = "failed"]
    BY <2>0 DEF Entry
  <2>2. ~Unrouted(b, r)
    BY <2>0, <2>1 DEF Unrouted, ToldLate, Entry
  <2>3. /\ WritesBuild(c, b) /\ pass'.request # r
        /\ (\A d \in wire' : d \in wire) /\ \A g \in handlers' : g \in handlers
    BY <1>0, <1>13, <2>1 DEF BuildFails, WritesBuild
  <2> QED BY <2>2, <2>3, WrittenStill
<1>14. CASE Advance /\ ~WriteBuild
  <2>1. UNCHANGED <<wire, handlers, builds, copies>> /\ pass'.request # r
    BY <1>0, <1>14, Advances
  <2> QED BY <1>0, <2>1, ReadStill
<1>15. CASE WriteBuild
  <2>0. pass.commit \in Commit /\ pass.at # "idle" /\ pass.current /\ pass.request \in Owner
    BY <1>15 DEF WriteBuild, TypeInv, TypeOK, Placed, Passes
  <2>1. PICK c \in Commit : c = pass.commit
    BY <2>0
  <2>2. builds[c] \in Entry /\ ~Unrouted(builds[c], r)
    BY <1>0, BuildFields
  <2>3. builds[c].phase = "running" \/ (ToldLate(builds[c]) /\ builds[c].preview = None)
    BY <2>0, <2>1 DEF Fresh
  <2>4. PICK b \in Entry :
            b = [builds[c] EXCEPT !.phase = "succeeded", !.preview = pass.request]
    BY <2>0, <2>2 DEF Entry
  <2>5. Number(builds[c]) # r
    BY <2>2, <2>3 DEF Unrouted
  <2>6. ~Unrouted(b, r)
    <3>1. b.asked = builds[c].asked /\ b.noted = builds[c].noted
      BY <2>2, <2>4 DEF Entry
    <3> QED BY <2>5, <3>1 DEF Unrouted, Number
  <2>7. /\ WritesBuild(c, b) /\ pass'.request # r
        /\ (\A d \in wire' : d \in wire) /\ \A g \in handlers' : g \in handlers
    BY <1>0, <1>15, <2>1, <2>4 DEF WriteBuild, WritesBuild, Idle, Pass
  <2> QED BY <2>6, <2>7, WrittenStill
<1>16. CASE CutOff
  BY <1>0, <1>16, ReadStill DEF CutOff, Idle, Pass
<1>17. CASE UNCHANGED vars
  BY <1>0, <1>17, ReadStill DEF vars
<1> QED BY <1>1, <1>2, <1>3, <1>4, <1>5, <1>6, <1>7, <1>8, <1>9, <1>10, <1>11, <1>12, <1>13,
           <1>14, <1>15, <1>16, <1>17
        DEF Next, Provider, Receiver, Deliver, Handle, Cluster, Reconcile

\* What a request that closed is owed is settled when it closes.
LEMMA Settled ==
    ASSUME TypeInv, [Next]_vars, NEW r \in Request, ~CloseRequest(r),
           state'[r] = "closed", r \notin owed'
    PROVE  state[r] = "closed" /\ r \notin owed
<1>1. ASSUME NEW q \in Request, OpenRequest(q) \/ CloseRequest(q)
      PROVE  state[r] = "closed" /\ r \notin owed
  BY <1>1 DEF OpenRequest, CloseRequest, TypeInv, TypeOK, ghosts
<1>2. ASSUME NEW d \in wire, LoseDelivery(d) PROVE state[r] = "closed" /\ r \notin owed
  BY <1>2 DEF LoseDelivery, provider
<1>3. CASE UNCHANGED <<state, owed>>
  BY <1>3
<1>4. ASSUME NEW q \in Request, NEW c \in Commit, PushCommit(q, c)
      PROVE  UNCHANGED <<state, owed>>
  BY <1>4 DEF PushCommit, ghosts
<1>5. Receiver => UNCHANGED <<state, owed>>
  BY DEF Receiver, Deliver, CreateBuild, BuildExists, RefuseFork, RequestClosed, Handle,
         ReadBuild, BuildNotFound, NoteRequest, HandlerFails, provider, ghosts
<1>6. Cluster => UNCHANGED <<state, owed>>
  BY DEF Cluster, DeleteEnvironment, Finalize, EnvironmentCached, BuildCached, provider, ghosts
<1>7. ASSUME NEW c \in Commit, Reconcile(c) PROVE UNCHANGED <<state, owed>>
  BY <1>7 DEF Reconcile, Begin, BuildFails, Adopt, provider, ghosts
<1>8. Advance \/ CutOff => UNCHANGED <<state, owed>>
  BY Advances DEF WriteBuild, CutOff, provider, ghosts
<1>9. UNCHANGED vars => UNCHANGED <<state, owed>>
  BY DEF vars, provider, ghosts
<1> QED BY <1>1, <1>2, <1>3, <1>4, <1>5, <1>6, <1>7, <1>8, <1>9 DEF Next, Provider

\* The closing is on its way until it is heard of, and takes the preview down.
LEMMA Closing ==
    ASSUME TypeInv, [Next]_vars, NEW r \in Request, ~CloseRequest(r),
           Delivery("close", r, None) \in wire, r \notin owed'
    PROVE  Delivery("close", r, None) \in wire' \/ previews'[r].phase # "live"
<1> DEFINE x == Delivery("close", r, None)
<1>0. x.kind = "close" /\ x.request = r
  BY DEF Delivery
<1>1. CASE UNCHANGED wire
  BY <1>1
<1>2. ASSUME NEW q \in Request, (\E c \in Commit : PushCommit(q, c)) \/ OpenRequest(q) \/ CloseRequest(q)
      PROVE  x \in wire'
  BY <1>2 DEF PushCommit, OpenRequest, CloseRequest
<1>3. ASSUME NEW d \in wire, LoseDelivery(d) PROVE x \in wire'
  BY <1>0, <1>3 DEF LoseDelivery
<1>4. ASSUME NEW d \in wire, CreateBuild(d) \/ BuildExists(d) \/ RefuseFork(d) PROVE x \in wire'
  BY <1>0, <1>4 DEF CreateBuild, BuildExists, RefuseFork, Take, Builds
<1>5. ASSUME NEW d \in wire, RequestClosed(d) PROVE x \in wire' \/ previews'[r].phase # "live"
  <2>1. CASE d = x
    <3>1. previews'[r].phase # "live"
      BY <1>0, <1>5, <2>1 DEF RequestClosed, Remove, TypeInv, TypeOK, PreviewTable
    <3> QED BY <3>1
  <2>2. CASE d # x
    BY <1>5, <2>2 DEF RequestClosed
  <2> QED BY <2>1, <2>2
<1>6. ASSUME NEW h \in handlers, Handle(h) \/ HandlerFails(h) PROVE UNCHANGED wire
  BY <1>6 DEF Handle, ReadBuild, BuildNotFound, NoteRequest, HandlerFails
<1>7. Cluster => UNCHANGED wire
  BY DEF Cluster, DeleteEnvironment, Finalize, EnvironmentCached, BuildCached
<1>8. ASSUME NEW c \in Commit, Reconcile(c) PROVE UNCHANGED wire
  BY <1>8 DEF Reconcile, Begin, BuildFails, Adopt
<1>9. Advance \/ CutOff => UNCHANGED wire
  BY Advances DEF WriteBuild, CutOff
<1>10. UNCHANGED vars => UNCHANGED wire
  BY DEF vars
<1> HIDE DEF x
<1> QED BY <1>1, <1>2, <1>3, <1>4, <1>5, <1>6, <1>7, <1>8, <1>9, <1>10
        DEF Next, Provider, Receiver, Deliver, x

LEMMA StilledStep == TypeInv /\ Fresh /\ Stilled /\ [Next]_vars => Stilled'
<1> SUFFICES ASSUME TypeInv, Fresh, Stilled, [Next]_vars, NEW r \in Request,
                    state'[r] = "closed", r \notin owed'
             PROVE  /\ ~UnderWay(r)'
                    /\ (Delivery("close", r, None) \in wire \/ previews[r].phase # "live")'
  BY DEF Stilled
<1>1. CASE CloseRequest(r)
  <2>1. ~UnderWay(r)
    BY <1>1 DEF CloseRequest
  <2>2. \A d \in wire' : d.kind = "head" /\ d.request = r => d \in wire
    BY <1>1 DEF CloseRequest, Delivery
  <2>3. ~UnderWay(r)'
    BY <1>1, <2>1, <2>2, ReadStill DEF CloseRequest, TypeInv, TypeOK, UnderWay
  <2> QED BY <1>1, <2>3 DEF CloseRequest, Delivery
<1>2. CASE ~CloseRequest(r)
  <2>1. state[r] = "closed" /\ r \notin owed
    BY <1>2, Settled
  <2>2. /\ ~UnderWay(r)
        /\ Delivery("close", r, None) \in wire \/ previews[r].phase # "live"
    BY <2>1 DEF Stilled
  <2>3. ~UnderWay(r)'
    BY <2>1, <2>2, UnderWayStep
  <2>4. CASE Delivery("close", r, None) \in wire
    BY <1>2, <2>3, <2>4, Closing DEF Delivery
  <2>5. CASE previews[r].phase # "live"
    <3>1. EnsureCreates => pass.request # r
      BY <2>2 DEF UnderWay
    <3>2. previews'[r].phase # "live"
      BY <2>5, <3>1, Appears DEF EnsureCreates, TypeInv, TypeOK, PreviewTable
    <3> QED BY <2>3, <3>2
  <2> QED BY <2>2, <2>4, <2>5
<1> QED BY <1>1, <1>2

\* ClosedStaysDown, for every instance: the close handler takes the preview down,
\* and nothing puts it up again once no Build, handler or delivery of the request is
\* waiting, because a Build that was routed says so in status.preview and is not
\* routed a second time.
THEOREM StaysDown == Spec => []ClosedStaysDown
<1>1. Init => StillInv
  <2> SUFFICES ASSUME Init PROVE StillInv
    OBVIOUS
  <2>1. TypeInv
    BY InitTyped
  <2> QED BY <2>1 DEF Init, StillInv, Fresh, Stilled, Idle, Pass
<1>2. StillInv /\ [Next]_vars => StillInv'
  BY TypeStep, FreshStep, StilledStep DEF StillInv
<1>3. StillInv => ClosedStaysDown
  BY DEF StillInv, Stilled, ClosedStaysDown
<1> QED BY <1>1, <1>2, <1>3, PTL DEF Spec

-----------------------------------------------------------------------------
(* The ceiling                                                             *)

\* Only a pass that counted carries a count, and while it is about to create
\* its preview the count still holds.
Counted ==
    /\ pass.at = "route" => ~pass.counted
    /\ Max > 0 /\ pass.at = "ensure" /\ pass.counted => Cardinality(Live(Phases)) < Max

CeilingInv == Counted /\ CeilingKept

\* What is live is finite, and a step that creates nothing adds nothing to it.
LEMMA LiveFinite ==
    ASSUME NEW S \in SUBSET Request
    PROVE  IsFiniteSet(S) /\ Cardinality(S) \in Nat
  BY PreviewsAssumption, FS_Subset, FS_CardinalityType

LEMMA LiveOnes ==
    /\ Live(Phases) = {r \in Request : previews[r].phase = "live"}
    /\ Live(Phases)' = {r \in Request : previews'[r].phase = "live"}
  BY DEF Live, Phases

LEMMA Shrinks ==
    ASSUME TypeInv, [Next]_vars, ~EnsureCreates
    PROVE  Live(Phases)' \subseteq Live(Phases) /\ uncounted' = uncounted
<1>1. Live(Phases)' \subseteq Live(Phases)
  BY Appears, LiveOnes
<1>2. uncounted' = uncounted
  <2>1. CASE Provider
    BY <2>1 DEF Provider, PushCommit, OpenRequest, CloseRequest, LoseDelivery, ghosts
  <2>2. CASE Receiver
    BY <2>2 DEF Receiver, Deliver, CreateBuild, BuildExists, RefuseFork, RequestClosed, Handle,
       ReadBuild, BuildNotFound, NoteRequest, HandlerFails, ghosts
  <2>3. CASE Cluster
    BY <2>3 DEF Cluster, DeleteEnvironment, Finalize, EnvironmentCached, BuildCached, ghosts
  <2>4. CASE (\E c \in Commit : Reconcile(c)) \/ CutOff
    BY <2>4 DEF Reconcile, Begin, BuildFails, Adopt, CutOff, ghosts
  <2>5. CASE Advance
    BY <2>5 DEF Advance, RoutePreview, RecordRefusal, EnsureMoves, EnsureFinds, EnsureRefused,
       ClearRefusal, WriteBuild, WriteConflict, ghosts
  <2> QED BY <2>1, <2>2, <2>3, <2>4, <2>5 DEF Next, vars, ghosts
<1> QED BY <1>1, <1>2

\* How a pass comes to be creating on a count.
LEMMA Counting ==
    ASSUME TypeInv, Counted, [Next]_vars
    PROVE  /\ pass'.at = "route" => ~pass'.counted
           /\ pass'.at = "ensure" /\ pass'.counted =>
                 \/ pass.at = "ensure" /\ pass.counted /\ ~EnsureCreates
                 \/ RoutePreview /\ seen = Phases /\ ~Reached
<1> USE DEF TypeInv, TypeOK, Passes, Counted, Idle, Pass
<1>1. CASE UNCHANGED <<builds, pass>>
  BY <1>1 DEF EnsureCreates
<1>2. ASSUME NEW d \in wire, CreateBuild(d) PROVE UNCHANGED pass
  BY <1>2 DEF CreateBuild
<1>3. ASSUME NEW h \in handlers, NoteRequest(h)
      PROVE  pass'.at = pass.at /\ pass'.counted = pass.counted
  BY <1>3 DEF NoteRequest
<1>4. ASSUME NEW c \in Commit, Reconcile(c)
      PROVE  UNCHANGED pass \/ ~pass'.counted
  BY <1>4 DEF Reconcile, Begin, BuildFails, Adopt, Start
<1>5. CASE RoutePreview
  BY <1>5 DEF RoutePreview
<1>6. CASE Advance /\ ~RoutePreview
  <2>1. pass'.at \notin {"route", "ensure"}
    <3>1. CASE RecordRefusal \/ ClearRefusal
      BY <3>1 DEF RecordRefusal, ClearRefusal
    <3>2. CASE EnsureCreates \/ EnsureMoves \/ EnsureFinds
      BY <3>2 DEF EnsureCreates, EnsureMoves, EnsureFinds
    <3>3. CASE EnsureRefused \/ WriteBuild \/ WriteConflict
      BY <3>3 DEF EnsureRefused, WriteBuild, WriteConflict
    <3> QED BY <1>6, <3>1, <3>2, <3>3 DEF Advance
  <2> QED BY <2>1
<1>7. CASE CutOff
  BY <1>7 DEF CutOff
<1>8. EnsureCreates => pass'.at = "clear"
  BY DEF EnsureCreates
<1> QED BY <1>1, <1>2, <1>3, <1>4, <1>5, <1>6, <1>7, <1>8, Movers

LEMMA CeilingStep == TypeInv /\ CeilingInv /\ [Next]_vars => CeilingInv'
<1> SUFFICES ASSUME TypeInv, CeilingInv, [Next]_vars PROVE CeilingInv'
  OBVIOUS
<1> DEFINE live == Live(Phases)
<1>1. live \subseteq Request /\ live' \subseteq Request
  BY LiveOnes
<1>2. CASE ~EnsureCreates
  <2>1. live' \subseteq live /\ uncounted' = uncounted
    BY <1>2, Shrinks
  <2>2. Cardinality(live') <= Cardinality(live)
        /\ Cardinality(live' \ uncounted') <= Cardinality(live \ uncounted)
    <3>1. live' \ uncounted' \subseteq live \ uncounted
      BY <2>1
    <3>2. IsFiniteSet(live) /\ IsFiniteSet(live \ uncounted)
      BY <1>1, LiveFinite
    <3> QED BY <2>1, <3>1, <3>2, FS_Subset
  <2>3. CeilingKept'
    <3>1. Cardinality(live \ uncounted) \in Nat /\ Cardinality(live' \ uncounted') \in Nat
      BY <1>1, LiveFinite
    <3> HIDE DEF live
    <3> QED BY <2>2, <3>1, PreviewsAssumption DEF CeilingInv, CeilingKept, live
  <2>4. Max > 0 /\ pass'.at = "ensure" /\ pass'.counted => Cardinality(live') < Max
    <3> SUFFICES ASSUME Max > 0, pass'.at = "ensure", pass'.counted PROVE Cardinality(live') < Max
      OBVIOUS
    <3>1. Cardinality(live) \in Nat /\ Cardinality(live') \in Nat
      BY <1>1, LiveFinite
    <3>2. Cardinality(live) < Max
      <4>1. CASE pass.at = "ensure" /\ pass.counted
        BY <4>1 DEF CeilingInv, Counted
      <4>2. CASE seen = Phases /\ ~Reached
        BY <4>2, <3>1, PreviewsAssumption DEF Reached
      <4> QED BY <4>1, <4>2, Counting DEF CeilingInv
    <3> HIDE DEF live
    <3> QED BY <2>2, <3>1, <3>2, PreviewsAssumption
  <2> QED BY <2>3, <2>4, Counting DEF CeilingInv, Counted
<1>3. CASE EnsureCreates
  <2> DEFINE r == pass.request
  <2>1. r \in Request /\ pass.at = "ensure" /\ pass'.at = "clear"
    BY <1>3 DEF EnsureCreates, TypeInv, TypeOK, Placed, Passes
  <2>2. live' \subseteq live \cup {r}
    BY <1>3, <2>1, LiveOnes DEF EnsureCreates, TypeInv, TypeOK, PreviewTable, Preview
  <2>3. ASSUME Max > 0 PROVE Cardinality(live' \ uncounted') <= Max
    <3>1. CASE pass.counted
      <4>1. Cardinality(live) < Max
        BY <2>1, <2>3, <3>1 DEF CeilingInv, Counted
      <4>2. live' \ uncounted' \subseteq live \cup {r} /\ IsFiniteSet(live)
        BY <1>1, <2>2, LiveFinite
      <4>3. IsFiniteSet(live \cup {r}) /\ Cardinality(live \cup {r}) <= Cardinality(live) + 1
        BY <1>1, <4>2, FS_AddElement, LiveFinite
      <4>4. Cardinality(live' \ uncounted') <= Cardinality(live \cup {r})
        BY <4>2, <4>3, FS_Subset
      <4>5. Cardinality(live) \in Nat /\ Cardinality(live' \ uncounted') \in Nat
              /\ Cardinality(live \cup {r}) \in Nat
        BY <1>1, <2>1, LiveFinite
      <4> HIDE DEF live, r
      <4> QED BY <4>1, <4>3, <4>4, <4>5, PreviewsAssumption
    <3>2. CASE ~pass.counted
      <4>1. uncounted' = uncounted \cup {r}
        BY <1>3, <3>2 DEF EnsureCreates
      <4>2. live' \ uncounted' \subseteq live \ uncounted
        BY <2>2, <4>1
      <4>3. Cardinality(live' \ uncounted') <= Cardinality(live \ uncounted)
        BY <1>1, <4>2, LiveFinite, FS_Subset
      <4>4. Cardinality(live \ uncounted) <= Max
        BY <2>3 DEF CeilingInv, CeilingKept
      <4>5. Cardinality(live' \ uncounted') \in Nat /\ Cardinality(live \ uncounted) \in Nat
        BY <1>1, LiveFinite
      <4> HIDE DEF live
      <4> QED BY <4>3, <4>4, <4>5, PreviewsAssumption
    <3> QED BY <3>1, <3>2
  <2> QED BY <2>1, <2>3 DEF CeilingInv, Counted, CeilingKept
<1> QED BY <1>2, <1>3

\* CeilingKept, for every instance: previewAllowed's count holds until the preview
\* it was made for is created, whatever a pass does between.
THEOREM CeilingHolds == Spec => []CeilingKept
<1>1. Init => TypeInv /\ CeilingInv
  <2> SUFFICES ASSUME Init PROVE TypeInv /\ CeilingInv
    OBVIOUS
  <2>1. Live(Phases) \ uncounted = {}
    BY LiveOnes DEF Init, Preview
  <2>2. Cardinality(Live(Phases) \ uncounted) = 0
    BY <2>1, FS_EmptySet
  <2>3. Counted
    BY DEF Init, Counted, Idle, Pass
  <2> QED BY <2>2, <2>3, InitTyped, PreviewsAssumption DEF CeilingInv, CeilingKept
<1>2. CeilingInv => CeilingKept
  BY DEF CeilingInv
<1> QED BY <1>1, <1>2, TypeStep, CeilingStep, PTL DEF Spec
=============================================================================
