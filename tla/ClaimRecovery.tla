--------------------------- MODULE ClaimRecovery ---------------------------
(***************************************************************************)
(* Point-in-time recovery of a claimed database: copies of it as it was at *)
(* a moment are asked for and discarded by name, and one may be promoted,  *)
(* which makes the claim's binding name the copy instead of the original.  *)
(*                                                                         *)
(* Requests edit the claim's spec.  The reconciler makes it so with calls  *)
(* to the provider, writes of Secrets, and one write of the status at the  *)
(* end, refused if the claim was edited meanwhile; a pass may end at any   *)
(* call.  The provider finds a copy by its name and goes by nothing else.  *)
(*                                                                         *)
(* Requests are refused only as the API refuses them: a name that is asked *)
(* for may not be asked for again, what is to be promoted not discarded,   *)
(* and only a copy listed as Ready promoted.  Nothing waits for the last   *)
(* wish to have come about, so a name may be asked for again while its     *)
(* former copy is still there, or a copy promoted that nobody asks for.    *)
(***************************************************************************)
EXTENDS Integers, FiniteSets

CONSTANTS
    Name,           \* the names copies are asked for under
    Moment,         \* the moments they are to hold
    Policy,         \* the deletion policies explored
    MaxRequests,    \* bound on users' requests
    MaxUpsets       \* bound on calls refused, passes cut short and Secrets lost

None     == 0           \* no name, no moment
NoDb     == <<None, 0>> \* no database; the k-th copy of a name is <<name, k>>
Instance == <<None, 1>> \* the database the claim was provisioned with

ASSUME ClaimRecoveryAssumption ==
    /\ Name \subseteq Nat \ {None} /\ Moment \subseteq Nat \ {None}
    /\ IsFiniteSet(Name) /\ Name # {}
    /\ Policy \subseteq {"Retain", "Delete"}
    /\ MaxRequests \in Nat /\ MaxUpsets \in Nat

VARIABLES
    claim,      \* the claim object: live, being deleted, gone; orphaned is gone
                \* too, its provider not to be had
    asked,      \* spec.recoveries: the moment asked for under each name
    promoted,   \* spec.promotedRecovery
    listed,     \* status.recovery.recoveries
    retained,   \* status.recovery.retained: what a promotion displaced
    instance,   \* is the original there
    copies,     \* the provider's copy of each name
    made,       \* copies made of each name so far
    binding,    \* the database the claim's own Secret names
    secret,     \* the database the Secret of each copy names
    pass,       \* the pass under way
    policy,             \* spec.deletionPolicy
    requests, upsets,   \* what happened so far
    uses,       \* history: how often each name was asked for
    astray,     \* history: the names asked for, discarded or promoted too soon
    displaced   \* history: the databases a promotion took the binding from, of
                \* the original and those the status showed as bound

spec     == <<claim, asked, promoted>>
recorded == <<listed, retained>>
provider == <<instance, copies, made>>
secrets  == <<binding, secret>>
bounds   == <<requests, upsets>>
history  == <<uses, astray, displaced>>
vars     == <<spec, recorded, provider, secrets, pass, policy, bounds, history>>

-----------------------------------------------------------------------------
(***************************************************************************)
(* The records                                                             *)
(***************************************************************************)
NoCopy  == [db |-> NoDb, at |-> None, state |-> "none"]

\* has: the entry has the id of its database and the name of its Secret.
Unlisted == [phase |-> "none", at |-> None, has |-> FALSE, bound |-> FALSE]

Idle == [at |-> "idle", asked |-> [n \in Name |-> None], promoted |-> None,
         listed |-> [n \in Name |-> Unlisted], old |-> [n \in Name |-> Unlisted],
         retained |-> {}, todo |-> {}, swept |-> {}, failed |-> FALSE, fresh |-> FALSE]

Listed(n) == pass.listed[n]

Request == requests < MaxRequests /\ requests' = requests + 1 /\ UNCHANGED upsets
Upset   == upsets < MaxUpsets /\ upsets' = upsets + 1 /\ UNCHANGED requests

\* A step of the pass that goes on with p.
Goes(p) ==
    /\ pass' = p
    /\ UNCHANGED <<spec, recorded, policy, history>>

-----------------------------------------------------------------------------
(***************************************************************************)
(* A pass over a claim that is there                                       *)
(***************************************************************************)

\* The claim is read.
Begin ==
    /\ pass.at = "idle" /\ claim = "live"
    /\ Goes([at |-> "provision", asked |-> asked, promoted |-> promoted,
             listed |-> listed, old |-> listed, retained |-> retained,
             todo |-> {n \in Name : asked[n] # None \/ listed[n] # Unlisted},
             swept |-> {}, failed |-> FALSE, fresh |-> TRUE])
    /\ UNCHANGED <<provider, secrets, bounds>>

\* A promoted copy owns the binding; otherwise it is written if it differs.
Provision ==
    /\ pass.at = "provision"
    /\ binding' = IF pass.promoted = None THEN Instance ELSE binding
    /\ Goes([pass EXCEPT !.at = "siblings"])
    /\ UNCHANGED <<provider, secret, bounds>>

At(n) == pass.at = "siblings" /\ n \in pass.todo

\* What the pass lists for n from here on.
Lists(n, entry) == [pass EXCEPT !.listed[n] = entry, !.todo = @ \ {n}]

\* Mutant: a missing Secret is not missed.
KeptBlindly(n) == Listed(n).phase = "Ready"

\* In place: nothing is asked of the provider.
InPlace(n) == Listed(n).phase = "Ready" /\ secret[n] # NoDb

Keep(n) ==
    /\ At(n) /\ pass.asked[n] # None /\ InPlace(n)
    /\ Goes([pass EXCEPT !.todo = @ \ {n}])
    /\ UNCHANGED <<provider, secrets, bounds>>

Recovering(n) == At(n) /\ pass.asked[n] # None /\ ~InPlace(n)

\* Mutant: the entry takes the provider's word for the phase.
EntryRaw(n, phase) == [Listed(n) EXCEPT !.phase = copies[n].state, !.at = pass.asked[n]]

\* The entry of a copy that was asked for and is not in place.
Entry(n, phase) == [Listed(n) EXCEPT !.phase = phase, !.at = pass.asked[n]]

\* Mutant: a copy that is not there yet is not found by its name.
Overlooked(n) == copies[n].state # "serving"

Absent(n) == copies[n] = NoCopy

\* A copy of that name is made, unless the provider has one; it is done at once, or
\* has yet to be filled.
RecoverTo(n, state) ==
    /\ Recovering(n) /\ Absent(n) /\ instance
    /\ made' = [made EXCEPT ![n] = @ + 1]
    /\ copies' = [copies EXCEPT ![n] = [db |-> <<n, made'[n]>>, at |-> pass.asked[n], state |-> state]]
    /\ Goes(pass)
    /\ UNCHANGED <<instance, secrets, bounds>>

Serves(n) == copies[n].state = "serving"

WriteCopySecret(n) ==
    /\ Recovering(n) /\ Serves(n)
    /\ secret' = [secret EXCEPT ![n] = copies[n].db]
    /\ Goes(Lists(n, [Entry(n, "Ready") EXCEPT !.has = TRUE]))
    /\ UNCHANGED <<provider, binding, bounds>>

\* Not there yet: an entry without an id, if there was none before.
Await(n) ==
    /\ Recovering(n) /\ copies[n].state = "filling"
    /\ Goes([Lists(n, Entry(n, "Pending")) EXCEPT !.failed = TRUE])
    /\ UNCHANGED <<provider, secrets, bounds>>

RecoveryFails(n) ==
    /\ Recovering(n)
    /\ \/ copies[n].state = "broken" /\ UNCHANGED bounds
       \/ Upset
    /\ Goes([Lists(n, Entry(n, "Failed")) EXCEPT !.failed = TRUE])
    /\ UNCHANGED <<provider, secrets>>

Unasked(n) == At(n) /\ pass.asked[n] = None /\ n \notin pass.swept

\* What nobody asks for any more goes by the id it is listed with.
DeleteBranch(n) ==
    /\ Unasked(n) /\ Listed(n).has
    /\ copies' = [copies EXCEPT ![n] = NoCopy]
    /\ Goes([pass EXCEPT !.swept = @ \cup {n}])
    /\ UNCHANGED <<instance, made, secrets, bounds>>

\* Mutant: an entry whose database could not be deleted is dropped.
EntryLost(n) == Unlisted

EntryKept(n) == Listed(n)

DeleteBranchFails(n) ==
    /\ Unasked(n) /\ Listed(n).has /\ Upset
    /\ Goes([Lists(n, EntryKept(n)) EXCEPT !.failed = TRUE])
    /\ UNCHANGED <<provider, secrets>>

DeleteCopySecret(n) ==
    /\ At(n) /\ (n \in pass.swept \/ (Unasked(n) /\ ~Listed(n).has))
    /\ secret' = [secret EXCEPT ![n] = IF Listed(n).has THEN NoDb ELSE @]
    /\ Goes(Lists(n, Unlisted))
    /\ UNCHANGED <<provider, binding, bounds>>

\* A Secret cannot be written or deleted: what was listed before is written back.
SecretRefused ==
    /\ pass.at = "siblings" /\ pass.todo # {} /\ Upset
    /\ Goes([pass EXCEPT !.at = "bind", !.listed = pass.old])
    /\ UNCHANGED <<provider, secrets>>

\* One copy that failed, and the binding is left as it is.
SiblingsDone ==
    /\ pass.at = "siblings" /\ pass.todo = {}
    /\ Goes([pass EXCEPT !.at = IF pass.failed THEN "bind" ELSE "promote"])
    /\ UNCHANGED <<provider, secrets, bounds>>

Promotable ==
    /\ pass.promoted # None
    /\ Listed(pass.promoted).phase = "Ready" /\ secret[pass.promoted] # NoDb

NotPromoted ==
    /\ pass.at = "promote" /\ ~Promotable
    /\ Goes([pass EXCEPT !.at = "bind"])
    /\ UNCHANGED <<provider, secrets, bounds>>

Marks(n) == [m \in Name |-> [Listed(m) EXCEPT !.bound = (m = n)]]

\* The copy, or None for the original, that n takes the place of.
Displaced(n) ==
    IF \E m \in Name \ {n} : Listed(m).bound
    THEN CHOOSE m \in Name \ {n} : Listed(m).bound ELSE None

Recorded(n) == Listed(n).bound

\* Mutant: what the binding names already was recorded.
RetainsUnbound(n) ==
    IF binding = secret[n] THEN pass.retained ELSE pass.retained \cup {<<Displaced(n), n>>}

\* With what n displaced, unless that was recorded before.
Retains(n) ==
    IF Recorded(n) THEN pass.retained ELSE pass.retained \cup {<<Displaced(n), n>>}

PromoteRecovery ==
    LET n == pass.promoted IN
    /\ pass.at = "promote" /\ Promotable
    /\ binding' = secret[n]
    /\ pass' = [pass EXCEPT !.at = "bind",
                    !.listed = IF Recorded(n) THEN @ ELSE Marks(n),
                    !.retained = Retains(n)]
    /\ displaced' =
           IF binding \in {NoDb, secret[n]} THEN displaced
           ELSE displaced \cup
                    {db \in {binding} : db = Instance \/ listed[db[1]].bound}
    /\ UNCHANGED <<spec, recorded, provider, secret, policy, bounds, uses, astray>>

PromotionRefused ==
    /\ pass.at = "promote" /\ Promotable /\ Upset
    /\ Goes([pass EXCEPT !.at = "bind"])
    /\ UNCHANGED <<provider, secrets>>

\* The one write of the status, refused if the claim was edited since it was read.
Bind ==
    /\ pass.at = "bind" /\ pass' = Idle
    /\ IF pass.fresh
       THEN listed' = pass.listed /\ retained' = pass.retained
       ELSE UNCHANGED recorded
    /\ UNCHANGED <<spec, provider, secrets, policy, bounds, history>>

\* The manager restarts, or a call ends the pass.
PassEnds ==
    /\ pass.at # "idle" /\ Upset
    /\ Goes(Idle)
    /\ UNCHANGED <<provider, secrets>>

-----------------------------------------------------------------------------
(***************************************************************************)
(* A claim that is being deleted: every call may be made again             *)
(***************************************************************************)
Finalizing == claim = "deleting" /\ pass.at = "idle"

\* Under Delete the copies go with the original.
ToDestroy == {n \in Name : policy = "Delete" /\ listed[n].has /\ copies[n] # NoCopy}

FinalizeCopy(n) ==
    /\ Finalizing /\ n \in ToDestroy
    /\ copies' = [copies EXCEPT ![n] = NoCopy]
    /\ UNCHANGED <<spec, recorded, instance, made, secrets, pass, policy, bounds, history>>

FinalizeSecret(n) ==
    /\ Finalizing /\ n \notin ToDestroy
    /\ listed[n].has /\ secret[n] # NoDb
    /\ secret' = [secret EXCEPT ![n] = NoDb]
    /\ UNCHANGED <<spec, recorded, provider, binding, pass, policy, bounds, history>>

CopiesSettled == ToDestroy = {} /\ \A n \in Name : listed[n].has => secret[n] = NoDb

Deprovision ==
    /\ Finalizing /\ CopiesSettled /\ policy = "Delete" /\ instance
    /\ instance' = FALSE
    /\ UNCHANGED <<spec, recorded, copies, made, secrets, pass, policy, bounds, history>>

Release ==
    /\ Finalizing /\ CopiesSettled /\ (policy = "Delete" => ~instance)
    /\ binding' = NoDb /\ claim' = "gone"
    /\ UNCHANGED <<asked, promoted, recorded, provider, secret, pass, policy, bounds, history>>

\* The Connection, its credentials or the read of them fail: the claim is let go with
\* whatever it has at the provider, and with its copies' Secrets.
ReleaseAlone ==
    /\ Finalizing /\ Upset
    /\ binding' = NoDb /\ claim' = "orphaned"
    /\ UNCHANGED <<asked, promoted, recorded, provider, secret, pass, policy, history>>

-----------------------------------------------------------------------------
(***************************************************************************)
(* Users: each request reads the claim and writes it back at that version  *)
(***************************************************************************)
Edit(asked_, promoted_) ==
    /\ claim = "live" /\ Request
    /\ asked' = asked_ /\ promoted' = promoted_
    /\ pass' = [pass EXCEPT !.fresh = FALSE]
    /\ UNCHANGED <<claim, recorded, provider, secrets, policy, displaced>>

\* A request that came too soon leaves its mark on the name.
Strays(n, soon) == astray' = IF soon THEN astray \cup {n} ELSE astray

\* Something of a former use of the name is left.
Traces(n) ==
    \/ listed[n] # Unlisted \/ copies[n] # NoCopy \/ secret[n] # NoDb
    \/ pass.asked[n] # None \/ pass.listed[n] # Unlisted

\* POST /claims/{name}/recoveries
CreateRecovery(n, at) ==
    /\ asked[n] = None
    /\ Edit([asked EXCEPT ![n] = at], promoted)
    /\ uses' = [uses EXCEPT ![n] = @ + 1] /\ Strays(n, Traces(n))

\* Mutant: what is bound may be discarded.
Discardable(n) == asked[n] # None

\* DELETE /claims/{name}/recoveries/{recovery}
MayDiscard(n) == asked[n] # None /\ promoted # n

\* Too soon: another promotion was asked for, and the binding is still the copy's.
DeleteRecovery(n) ==
    /\ MayDiscard(n)
    /\ Edit([asked EXCEPT ![n] = None], promoted)
    /\ Strays(n, promoted # n /\ (binding[1] = n \/ pass.promoted = n)) /\ UNCHANGED uses

\* POST /claims/{name}/recoveries/{recovery}/promote: the status is what it looks at,
\* and that may still list a copy that was discarded.
PromoteClaimRecovery(n) ==
    /\ listed[n].phase = "Ready" /\ promoted # n
    /\ Edit(asked, n)
    /\ Strays(n, asked[n] = None) /\ UNCHANGED uses

\* DELETE /claims/{name}
DeleteClaim ==
    /\ claim = "live" /\ Request
    /\ claim' = "deleting" /\ pass' = [pass EXCEPT !.fresh = FALSE]
    /\ UNCHANGED <<asked, promoted, recorded, provider, secrets, policy, history>>

-----------------------------------------------------------------------------
(***************************************************************************)
(* The provider and the cluster                                            *)
(***************************************************************************)
Filled(n) ==
    /\ copies[n].state = "filling"
    /\ copies' = [copies EXCEPT ![n].state = "serving"]
    /\ UNCHANGED <<spec, recorded, instance, made, secrets, pass, policy, bounds, history>>

Breaks(n) ==
    /\ copies[n].state = "filling" /\ Upset
    /\ copies' = [copies EXCEPT ![n].state = "broken"]
    /\ UNCHANGED <<spec, recorded, instance, made, secrets, pass, policy, history>>

\* Somebody deletes a Secret; the claim watches its own and is passed over again.
SecretLost ==
    /\ Upset
    /\ \/ binding' = NoDb /\ UNCHANGED secret
       \/ \E n \in Name : secret' = [secret EXCEPT ![n] = NoDb] /\ UNCHANGED binding
    /\ UNCHANGED <<spec, recorded, provider, pass, policy, history>>

-----------------------------------------------------------------------------
\* A claim that is bound to the database it was provisioned with.
Init ==
    /\ claim = "live" /\ asked = [n \in Name |-> None] /\ promoted = None
    /\ listed = [n \in Name |-> Unlisted] /\ retained = {}
    /\ instance = TRUE /\ copies = [n \in Name |-> NoCopy] /\ made = [n \in Name |-> 0]
    /\ binding = Instance /\ secret = [n \in Name |-> NoDb]
    /\ pass = Idle
    /\ policy \in Policy
    /\ requests = 0 /\ upsets = 0
    /\ uses = [n \in Name |-> 0] /\ astray = {} /\ displaced = {}

Sibling(n) ==
    \/ Keep(n) \/ WriteCopySecret(n) \/ Await(n) \/ RecoveryFails(n)
    \/ \E state \in {"filling", "serving"} : RecoverTo(n, state)
    \/ DeleteBranch(n) \/ DeleteBranchFails(n) \/ DeleteCopySecret(n)

Pass ==
    \/ Begin \/ Provision
    \/ \E n \in Name : Sibling(n)
    \/ SecretRefused \/ SiblingsDone
    \/ NotPromoted \/ PromoteRecovery \/ PromotionRefused
    \/ Bind \/ PassEnds

Finalize ==
    Deprovision \/ Release \/ ReleaseAlone \/ \E n \in Name : FinalizeCopy(n) \/ FinalizeSecret(n)

Next ==
    \/ Pass \/ Finalize
    \/ \E n \in Name : \/ \E at \in Moment : CreateRecovery(n, at)
                       \/ DeleteRecovery(n) \/ PromoteClaimRecovery(n)
                       \/ Filled(n) \/ Breaks(n)
    \/ DeleteClaim \/ SecretLost

(***************************************************************************)
(* A claim whose pass ended in an error is passed over again after half a  *)
(* minute, one whose objects changed at once; a copy is filled in the end. *)
(***************************************************************************)
Spec ==
    /\ Init /\ [][Next]_vars
    /\ WF_vars(Pass) /\ WF_vars(Finalize) /\ \A n \in Name : WF_vars(Filled(n))

-----------------------------------------------------------------------------
(***************************************************************************)
(* Properties                                                              *)
(***************************************************************************)
Dbs    == (Name \cup {None}) \X Nat
Phases == {"none", "Pending", "Failed", "Ready"}
Entries ==
    [phase : Phases, at : Moment \cup {None}, has : BOOLEAN, bound : BOOLEAN]

\* Every record has the fields and the values the code gives it.
TypeOK ==
    /\ claim \in {"live", "deleting", "gone", "orphaned"}
    /\ asked \in [Name -> Moment \cup {None}] /\ promoted \in Name \cup {None}
    /\ listed \in [Name -> Entries]
    /\ retained \subseteq (Name \cup {None}) \X Name
    /\ instance \in BOOLEAN /\ made \in [Name -> Nat]
    /\ copies \in [Name -> [db : Dbs, at : Moment \cup {None},
                              state : {"none", "filling", "serving", "broken"}]]
    /\ binding \in Dbs /\ secret \in [Name -> Dbs]
    /\ pass \in [at : {"idle", "provision", "siblings", "promote", "bind"},
                   asked : [Name -> Moment \cup {None}], promoted : Name \cup {None},
                   listed : [Name -> Entries], old : [Name -> Entries],
                   retained : SUBSET ((Name \cup {None}) \X Name),
                   todo : SUBSET Name, swept : SUBSET Name,
                   failed : BOOLEAN, fresh : BOOLEAN]
    /\ policy \in Policy
    /\ requests \in 0..MaxRequests /\ upsets \in 0..MaxUpsets
    /\ uses \in [Name -> Nat] /\ astray \subseteq Name /\ displaced \subseteq Dbs

\* The database is there.
There(db) == db = NoDb \/ (db = Instance /\ instance) \/ \E n \in Name : copies[n].db = db

(***************************************************************************)
(* While the claim is there, its binding names a database that is there:   *)
(* recoverSiblings deletes databases, promoteRecovery names them, and a    *)
(* pass may end between any two.  Not so for a copy somebody discarded     *)
(* while a promotion over it was yet to be carried out, promoted after it  *)
(* was discarded, or asked for again while the former one was left.        *)
(***************************************************************************)
BoundLives == claim = "live" => There(binding) \/ binding[1] \in astray

(***************************************************************************)
(* No copy is made a second time for the same request, wherever a pass     *)
(* ends between making and recording it; and one listed as Ready and still *)
(* asked for is there, whole, and holds the data of the moment it is       *)
(* listed with, unless its name was asked for again before the former copy *)
(* was gone: recoverSiblings goes by what it wrote before, and the         *)
(* provider by the name.                                                   *)
(***************************************************************************)
HoldsItsMoment ==
    /\ \A n \in Name : made[n] <= uses[n]
    /\ claim = "live" =>
          \A n \in Name \ astray : listed[n].phase = "Ready" /\ asked[n] # None =>
              copies[n].state = "serving" /\ copies[n].at = listed[n].at

(***************************************************************************)
(* The claim loses sight of no database it has listed with its id: an      *)
(* entry goes only once the copy and its Secret are gone, and a claim that *)
(* is let go under Delete, its provider at hand, leaves none of them.      *)
(***************************************************************************)
ForgetsOnlyTheGone ==
    [][\A n \in Name :
          /\ listed[n].has
          /\ \/ ~listed'[n].has
             \/ claim # "gone" /\ claim' = "gone" /\ policy = "Delete"
          => copies'[n] = NoCopy /\ secret'[n] = NoDb]_vars

\* The claim lists the promotion last asked for as done.
Landed == promoted # None => listed[promoted].bound

(***************************************************************************)
(* Once the promotion last asked for is in the status, so is every         *)
(* database a promotion took the binding from, of the original and those   *)
(* the status showed as bound, if it is still there and not bound again:   *)
(* promoteRecovery writes the Secret, marks the entries and lists what was *)
(* displaced, and only the last two are written together.                  *)
(***************************************************************************)
DisplacedIsRecorded ==
    claim = "live" /\ pass.at = "idle" /\ Landed =>
        \A db \in displaced :
            There(db) /\ (db[1] = None \/ db[1] # promoted) =>
                db[1] \in {r[1] : r \in retained}

(***************************************************************************)
(* In the end the claim shows what was asked for: every copy asked for is  *)
(* Ready with a Secret, its own unless the name was used too soon, or the  *)
(* provider could not make it; none is listed that was discarded; the      *)
(* binding is the promoted one's and the claim says so, unless that was    *)
(* promoted after it was discarded or a copy asked for could not be made;  *)
(* a claim that was deleted is gone.                                       *)
(***************************************************************************)
InStep ==
    \/ claim \in {"gone", "orphaned"}
    \/ /\ claim = "live"
       /\ \A n \in Name :
             IF asked[n] = None THEN listed[n] = Unlisted
             ELSE \/ /\ listed[n].phase = "Ready" /\ secret[n] # NoDb
                     /\ n \in astray \/ secret[n] = copies[n].db
                  \/ copies[n].state = "broken"
       /\ \/ IF promoted = None THEN binding = Instance
             ELSE binding = secret[promoted] /\ listed[promoted].bound
          \/ promoted # None /\ asked[promoted] = None
          \/ \E n \in Name : asked[n] # None /\ copies[n].state = "broken"

MadeSo == <>[]InStep

=============================================================================
