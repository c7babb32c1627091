---------------------------- MODULE LearningNetwork ----------------------------
(***************************************************************************)
(* How an experience comes to train a model: the local governance of       *)
(* src/src/edon/actionnet/product/store.py (ActionNetPlatformStore) and    *)
(* the global records, releases and C1 versions of                         *)
(* src/src/edon/actionnet/network.py (GovernedLearningNetwork).            *)
(*                                                                         *)
(* The two keep separate databases.  A handler reads with statements of    *)
(* their own and writes in a transaction of its own, and handlers run in   *)
(* threads: what was read may have changed when the handler writes.  Each  *)
(* read that decides and each write is a step of a call; a call that fails *)
(* a check, whose write hits a constraint, or whose process ends, ends.    *)
(* Rows are never changed or removed.                                      *)
(*                                                                         *)
(* Data.  An experience is a (tenant, experience) pair.  Its columns and   *)
(* the permitted uses of a global record are fixed when it is inserted:    *)
(* they are constants.  A hash is compared with that of the same row,      *)
(* which cannot have changed.  Of the governance events of an experience   *)
(* the handlers use the latest overlap check and whether there is one that *)
(* makes it eligible, and one that quarantines it.                         *)
(***************************************************************************)

CONSTANTS
    Experiences,
    Protected, Unverified, \* what experiences are recorded with
    Required,     \* the dimensions in which each experience needs an approval
    Submissions,  \* the reviews that reviewers submit
    Records,      \* global records
    ForTraining,  \* those whose permitted uses have TRAIN
    Releases,     \* global training releases
    Models,       \* C1 versions
    Callers,      \* threads of the server
    None

Dimensions == {"DOMAIN", "SAFETY", "PRIVACY", "LINEAGE", "TRAINING"}
Decisions == {"APPROVE", "REJECT", "REVISION_REQUIRED"}

ASSUME LearningAssumption ==
    /\ Protected \subseteq Experiences /\ Unverified \subseteq Experiences
    /\ Required \in [Experiences -> SUBSET Dimensions]
    /\ \A e \in Experiences : {"DOMAIN", "SAFETY"} \subseteq Required[e]
    /\ \A v \in Submissions : /\ v.experience \in Experiences
                              /\ v.dimension \in Dimensions /\ v.decision \in Decisions
    /\ ForTraining \subseteq Records
    /\ None \notin Experiences \cup Records \cup Releases \cup Models

VARIABLES
    recorded,     \* the experiences there are
    reviews,
    overlap,      \* the latest overlap check of each experience
    eligible,     \* experiences with a TRAINING_ELIGIBLE event
    quarantined,  \* experiences with a QUARANTINED event
    trained,      \* experiences of a local training release or a TRAIN exposure
    source,       \* the experience each global record was promoted from
    withdrawn,    \* global records with a QUARANTINED event
    releases,     \* the records of each global release
    models,
    fit,          \* models with a disposition that calls them fit for shadow or deployment
    calls         \* what each caller is doing

local == <<recorded, reviews, overlap, eligible, quarantined, trained>>
global == <<source, withdrawn, releases, models, fit>>
vars == <<local, global, calls>>

NoModel == [release |-> None, predecessor |-> None, passed |-> FALSE]

\* A call of op for the ids; left have not been read, half is a global record
\* whose source has not, about is what is to be written.
Call(op, ids, left, half, about) ==
    [op |-> op, ids |-> ids, left |-> left, half |-> half, about |-> about]
Idle == Call("IDLE", {}, {}, None, None)

Starts(c, call) == calls[c] = Idle /\ calls' = [calls EXCEPT ![c] = call]
Reads(c, id) == /\ id \in calls[c].left
                /\ calls' = [calls EXCEPT ![c].left = @ \ {id}]
Ends(c) == calls' = [calls EXCEPT ![c] = Idle]
HasRead(c, op) == calls[c].op = op /\ calls[c].left = {} /\ calls[c].half = None

Registered(m) == models[m].release # None

-----------------------------------------------------------------------------
(* What the handlers read. *)

Approvers(e, d) ==
    {v.reviewer : v \in {w \in reviews :
        w.experience = e /\ w.dimension = d /\ w.decision = "APPROVE"}}

Rejected(e) == \E v \in reviews : v.experience = e /\ v.decision = "REJECT"

\* Mutant: one reviewer may approve both.
ReviewsPassByOne(e) ==
    /\ ~Rejected(e)
    /\ \A d \in Required[e] : Approvers(e, d) # {}

ReviewsPass(e) ==
    /\ ~Rejected(e)
    /\ \A d \in Required[e] : Approvers(e, d) # {}
    /\ Approvers(e, "DOMAIN") \cap Approvers(e, "SAFETY") = {}

EventsPass(e) == overlap[e] = "PASSED" /\ e \notin quarantined

\* training_eligible of experience_state
TrainingEligible(e) == e \in eligible \ quarantined /\ overlap[e] # "FAILED"

MayTrain(e) == e \in recorded \ Protected /\ TrainingEligible(e)

\* What promotion asks of the local experience, and a release again.
MayPromote(e) == MayTrain(e) /\ overlap[e] = "PASSED"

\* training_eligible of global_record_state
MayRelease(g) == source[g] # None /\ g \in ForTraining \ withdrawn

-----------------------------------------------------------------------------
(* The local store. *)

RecordExperience(e) ==
    /\ recorded' = recorded \cup {e}
    /\ UNCHANGED <<reviews, overlap, eligible, quarantined, trained, global, calls>>

\* One review of a reviewer in a dimension (UNIQUE), of whichever decision.
ReviewExperience(v) ==
    /\ v.experience \in recorded
    /\ \A w \in reviews : <<w.experience, w.reviewer, w.dimension>>
                            # <<v.experience, v.reviewer, v.dimension>>
    /\ reviews' = reviews \cup {v}
    /\ UNCHANGED <<recorded, overlap, eligible, quarantined, trained, global, calls>>

RecordOverlapCheck(e, result) ==
    /\ e \in recorded
    /\ overlap' = [overlap EXCEPT ![e] = result]
    /\ UNCHANGED <<recorded, reviews, eligible, quarantined, trained, global, calls>>

QuarantineExperience(e) ==
    /\ e \in recorded
    /\ quarantined' = quarantined \cup {e}
    /\ UNCHANGED <<recorded, reviews, overlap, eligible, trained, global, calls>>

\* approve_training_eligibility: the reviews, the events, the event it adds.
ApproveTrainingEligibility(c, e) ==
    /\ e \in recorded \ (Protected \cup Unverified)
    /\ ReviewsPass(e)
    /\ Starts(c, Call("APPROVE", {e}, {e}, None, None))
    /\ UNCHANGED <<local, global>>

ApprovalReadsEvents(c) == \E e \in calls[c].left :
    /\ calls[c].op = "APPROVE" /\ EventsPass(e) /\ Reads(c, e)
    /\ UNCHANGED <<local, global>>

ApprovalWrites(c) ==
    /\ HasRead(c, "APPROVE")
    /\ eligible' = eligible \cup calls[c].ids
    /\ Ends(c)
    /\ UNCHANGED <<recorded, reviews, overlap, quarantined, trained, global>>

\* create_training_release: the state of each experience in turn, then the release.
CreateTrainingRelease(c, S) == \E e \in S :
    /\ MayTrain(e)
    /\ Starts(c, Call("TRAIN", S, S \ {e}, None, None))
    /\ UNCHANGED <<local, global>>

\* record_model_exposure for TRAIN; other purposes leave nothing that is read.
RecordModelExposure(c, e) == CreateTrainingRelease(c, {e})

TrainingReadsNext(c) == \E e \in calls[c].left :
    /\ calls[c].op = "TRAIN" /\ MayTrain(e) /\ Reads(c, e)
    /\ UNCHANGED <<local, global>>

TrainingWrites(c) ==
    /\ HasRead(c, "TRAIN")
    /\ trained' = trained \cup calls[c].ids
    /\ Ends(c)
    /\ UNCHANGED <<recorded, reviews, overlap, eligible, quarantined, global>>

-----------------------------------------------------------------------------
(* The global network. *)

PromoteLocalExperience(c, e, g) ==
    /\ MayPromote(e)
    /\ Starts(c, Call("PROMOTE", {e}, {}, None, g))
    /\ UNCHANGED <<local, global>>

\* Mutant: only the record's own identifier is unique.
UnusedRecord(e, g) == source[g] = None

\* The export and the record are new, and so is the commitment to their source.
Unused(e, g) == source[g] = None /\ \A h \in Records : source[h] # e

PromotionWrites(c) == \E e \in calls[c].ids :
    /\ HasRead(c, "PROMOTE")
    /\ Unused(e, calls[c].about)
    /\ source' = [source EXCEPT ![calls[c].about] = e]
    /\ Ends(c)
    /\ UNCHANGED <<local, withdrawn, releases, models, fit>>

QuarantineGlobalRecord(g) ==
    /\ source[g] # None
    /\ withdrawn' = withdrawn \cup {g}
    /\ UNCHANGED <<local, source, releases, models, fit, calls>>

\* create_global_training_release: of each record in turn its state and the state
\* of its source, then the release.
CreateGlobalTrainingRelease(c, r, S) == \E g \in S :
    /\ MayRelease(g)
    /\ Starts(c, Call("RELEASE", S, S \ {g}, g, r))
    /\ UNCHANGED <<local, global>>

\* Mutant: the source is not looked at again.
RevalidateNothing(c) ==
    /\ calls[c].half # None
    /\ calls' = [calls EXCEPT ![c].half = None]
    /\ UNCHANGED <<local, global>>

\* _revalidate_local_source
RevalidateLocalSource(c) ==
    /\ calls[c].half # None
    /\ MayPromote(source[calls[c].half])
    /\ calls' = [calls EXCEPT ![c].half = None]
    /\ UNCHANGED <<local, global>>

ReleaseReadsNext(c) == \E g \in calls[c].left :
    /\ calls[c].op = "RELEASE" /\ calls[c].half = None
    /\ MayRelease(g)
    /\ calls' = [calls EXCEPT ![c].left = @ \ {g}, ![c].half = g]
    /\ UNCHANGED <<local, global>>

ReleaseWrites(c) ==
    /\ HasRead(c, "RELEASE")
    /\ releases[calls[c].about] = {}
    /\ releases' = [releases EXCEPT ![calls[c].about] = calls[c].ids]
    /\ Ends(c)
    /\ UNCHANGED <<local, source, withdrawn, models, fit>>

\* What these two read is never changed, so that they are one step.
RegisterC1Version(m, r, predecessor, passed) ==
    /\ releases[r] # {}
    /\ predecessor # None => Registered(predecessor)
    /\ ~Registered(m)
    /\ models' = [models EXCEPT ![m] =
            [release |-> r, predecessor |-> predecessor, passed |-> passed]]
    /\ UNCHANGED <<local, source, withdrawn, releases, fit, calls>>

\* The dispositions that ask for the gates and a complete protected evaluation; the
\* others decide nothing.
RecordC1Disposition(m) ==
    /\ Registered(m) /\ models[m].passed
    /\ fit' = fit \cup {m}
    /\ UNCHANGED <<local, source, withdrawn, releases, models, calls>>

\* A check that fails, a constraint, or the end of the process.
Abandon(c) == calls[c] # Idle /\ Ends(c) /\ UNCHANGED <<local, global>>

-----------------------------------------------------------------------------

Init ==
    /\ recorded = {} /\ reviews = {} /\ eligible = {} /\ quarantined = {} /\ trained = {}
    /\ overlap = [e \in Experiences |-> "NONE"]
    /\ source = [g \in Records |-> None] /\ withdrawn = {}
    /\ releases = [r \in Releases |-> {}]
    /\ models = [m \in Models |-> NoModel] /\ fit = {}
    /\ calls = [c \in Callers |-> Idle]

GovernNext ==
    \/ \E e \in Experiences :
        \/ RecordExperience(e) \/ QuarantineExperience(e)
        \/ \E result \in {"PASSED", "FAILED"} : RecordOverlapCheck(e, result)
    \/ \E v \in Submissions : ReviewExperience(v)
    \/ \E g \in Records : QuarantineGlobalRecord(g)

LocalNext(c) ==
    \/ \E e \in Experiences : ApproveTrainingEligibility(c, e) \/ RecordModelExposure(c, e)
    \/ \E S \in SUBSET Experiences : CreateTrainingRelease(c, S)
    \/ ApprovalReadsEvents(c) \/ ApprovalWrites(c)
    \/ TrainingReadsNext(c) \/ TrainingWrites(c)

GlobalNext(c) ==
    \/ \E e \in Experiences, g \in Records : PromoteLocalExperience(c, e, g)
    \/ \E r \in Releases, S \in SUBSET Records : CreateGlobalTrainingRelease(c, r, S)
    \/ PromotionWrites(c) \/ RevalidateLocalSource(c)
    \/ ReleaseReadsNext(c) \/ ReleaseWrites(c)

ModelNext == \E m \in Models :
    \/ RecordC1Disposition(m)
    \/ \E r \in Releases, predecessor \in Models \cup {None}, passed \in BOOLEAN :
        RegisterC1Version(m, r, predecessor, passed)

Next ==
    \/ GovernNext \/ ModelNext
    \/ \E c \in Callers : LocalNext(c) \/ GlobalNext(c) \/ Abandon(c)

Spec == Init /\ [][Next]_vars

-----------------------------------------------------------------------------
(* Properties. *)

CallRecords ==
    [op : {"IDLE", "APPROVE", "TRAIN", "PROMOTE", "RELEASE"},
     ids : SUBSET (Experiences \cup Records), left : SUBSET (Experiences \cup Records),
     half : Records \cup {None}, about : Records \cup Releases \cup {None}]
ModelRecords ==
    [release : Releases \cup {None}, predecessor : Models \cup {None}, passed : BOOLEAN]

\* The types of the tables and of the calls.
TypeOK ==
    /\ recorded \subseteq Experiences /\ reviews \subseteq Submissions
    /\ overlap \in [Experiences -> {"NONE", "PASSED", "FAILED"}]
    /\ eligible \subseteq Experiences /\ quarantined \subseteq Experiences
    /\ trained \subseteq Experiences
    /\ source \in [Records -> Experiences \cup {None}]
    /\ withdrawn \subseteq Records
    /\ releases \in [Releases -> SUBSET Records]
    /\ models \in [Models -> ModelRecords] /\ fit \subseteq Models
    /\ calls \in [Callers -> CallRecords]

\* Every dimension that the experience needs was approved, DOMAIN and SAFETY by
\* different people, and it is neither protected nor unverified.
Vetted(e) ==
    /\ e \in recorded \ (Protected \cup Unverified)
    /\ \A d \in Required[e] : Approvers(e, d) # {}
    /\ \E p \in Approvers(e, "DOMAIN"), q \in Approvers(e, "SAFETY") : p # q

\* What trains a model was vetted: the experiences of local releases and exposures,
\* the source of every global record, and so every record of the release of a C1
\* version, of its predecessor, and on.  Only a version that passed its gates is
\* called fit.
UsesTraceToReviews ==
    /\ \A e \in trained : Vetted(e)
    /\ \A g \in Records : source[g] # None => Vetted(source[g])
    /\ \A m \in Models : Registered(m) =>
        /\ releases[models[m].release] # {}
        /\ \A g \in releases[models[m].release] : g \in ForTraining /\ source[g] # None
        /\ models[m].predecessor # None =>
                models[m].predecessor # m /\ Registered(models[m].predecessor)
    /\ \A m \in fit : Registered(m) /\ models[m].passed

\* The call c has found the experience e, or a record of it, good for training.
Holds(c, e) ==
    \/ calls[c].op \in {"TRAIN", "PROMOTE"} /\ e \in calls[c].ids \ calls[c].left
    \/ /\ calls[c].op = "RELEASE"
       /\ \E g \in calls[c].ids \ (calls[c].left \cup {calls[c].half}) : source[g] = e

\* The call c has found a record of the experience e good for a release.
HoldsRecord(c, e) ==
    calls[c].op = "RELEASE" /\ \E g \in calls[c].ids \ calls[c].left : source[g] = e

Released(e) == {r \in Releases : \E g \in releases[r] : source[g] = e}

\* A quarantine, or an overlap check that failed, stops an experience: unless a call
\* had found it good before, none finds it so from then on, and nothing new is
\* trained on it, locally, by promotion or in a global release.  A rejection stops
\* it likewise before it is eligible.
RefusalIsFinal == [][\A e \in Experiences :
    /\ (e \in quarantined \/ overlap[e] = "FAILED") /\ (\A c \in Callers : ~Holds(c, e)) =>
        /\ \A c \in Callers : ~Holds(c, e)'
        /\ e \in trained' => e \in trained
        /\ \A g \in Records : source'[g] = e => source[g] = e
        /\ Released(e)' = Released(e)
    /\ /\ Rejected(e) /\ e \notin eligible
       /\ \A c \in Callers : calls[c].op = "APPROVE" => e \notin calls[c].ids
       => /\ e \notin eligible'
          /\ \A c \in Callers : calls'[c].op = "APPROVE" => e \notin calls'[c].ids]_vars

\* A global record that was withdrawn stays out of new releases, and so does what it
\* was made of: no other record of its source comes into a release, unless a call had
\* found the record good before.
WithdrawalIsFinal == [][\A g \in withdrawn : LET e == source[g] IN
    /\ source'[g] = e
    /\ (\A c \in Callers : ~HoldsRecord(c, e)) =>
        /\ \A c \in Callers : ~HoldsRecord(c, e)'
        /\ Released(e)' = Released(e)]_vars
=============================================================================
