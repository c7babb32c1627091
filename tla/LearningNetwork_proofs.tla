------------------------- MODULE LearningNetwork_proofs -------------------------
(***************************************************************************)
(* Proofs about LearningNetwork, for any experiences, records, releases,   *)
(* models and callers.  Tables only grow; what a call holds was good when  *)
(* it was read, and what makes it good for tracing cannot be undone.       *)
(***************************************************************************)
EXTENDS LearningNetwork, TLAPS

\* What a call has read, and what it will write.
CallSound(c) ==
    /\ calls[c].op = "APPROVE" =>
        calls[c].ids \subseteq Experiences /\ \A e \in calls[c].ids : Vetted(e)
    /\ calls[c].op \in {"TRAIN", "PROMOTE"} =>
        calls[c].ids \subseteq Experiences /\ calls[c].ids \ calls[c].left \subseteq eligible
    /\ calls[c].op = "PROMOTE" => calls[c].about \in Records /\ calls[c].left = {}
    /\ calls[c].op = "RELEASE" =>
        /\ calls[c].ids \subseteq Records /\ calls[c].ids # {} /\ calls[c].about \in Releases
        /\ calls[c].left \subseteq calls[c].ids
        /\ \A g \in calls[c].ids \ calls[c].left : g \in ForTraining /\ source[g] # None
    /\ calls[c].half # None =>
        calls[c].op = "RELEASE" /\ calls[c].half \in calls[c].ids \ calls[c].left
CallInv == \A c \in Callers : CallSound(c)

\* A source has one global record, and a withdrawn record a source.
OneRecord ==
    /\ \A g, h \in Records : source[g] # None /\ source[g] = source[h] => g = h
    /\ \A g \in withdrawn : source[g] # None

EligibleInv ==
    /\ \A e \in eligible : Vetted(e)
    /\ trained \subseteq eligible
    /\ \A g \in Records : source[g] # None => source[g] \in eligible

ReleaseInv == \A r \in Releases : \A g \in releases[r] : g \in ForTraining /\ source[g] # None

ModelInv ==
    /\ \A m \in Models : Registered(m) =>
        /\ releases[models[m].release] # {}
        /\ models[m].predecessor # None =>
                models[m].predecessor # m /\ Registered(models[m].predecessor)
    /\ \A m \in fit : Registered(m) /\ models[m].passed

IInv ==
    TypeOK /\ CallInv /\ OneRecord /\ EligibleInv /\ ReleaseInv /\ ModelInv

-----------------------------------------------------------------------------
(* Types. *)

LEMMA CallType ==
    ASSUME NEW op \in {"IDLE", "APPROVE", "TRAIN", "PROMOTE", "RELEASE"},
           NEW ids \in SUBSET (Experiences \cup Records),
           NEW left \in SUBSET (Experiences \cup Records),
           NEW half \in Records \cup {None}, NEW about \in Records \cup Releases \cup {None}
    PROVE  /\ Call(op, ids, left, half, about) \in CallRecords
           /\ Call(op, ids, left, half, about).op = op
           /\ Call(op, ids, left, half, about).ids = ids
           /\ Call(op, ids, left, half, about).left = left
           /\ Call(op, ids, left, half, about).half = half
           /\ Call(op, ids, left, half, about).about = about
BY DEF Call, CallRecords

LEMMA IdleType == Idle \in CallRecords /\ Idle.op = "IDLE" /\ Idle.half = None
BY DEF Idle, Call, CallRecords

\* A call that goes on keeps what it is about.
LEMMA CallChange ==
    ASSUME NEW x \in CallRecords, NEW left \in SUBSET (Experiences \cup Records),
           NEW half \in Records \cup {None}
    PROVE  /\ [x EXCEPT !.left = left] \in CallRecords
           /\ [x EXCEPT !.half = half] \in CallRecords
           /\ [x EXCEPT !.left = left, !.half = half] \in CallRecords
BY DEF CallRecords

LEMMA StartType ==
    ASSUME TypeOK, NEW c \in Callers, NEW call \in CallRecords, Starts(c, call)
    PROVE  /\ calls' \in [Callers -> CallRecords] /\ calls[c] = Idle /\ calls'[c] = call
           /\ \A d \in Callers \ {c} : calls'[d] = calls[d]
BY DEF Starts, TypeOK

LEMMA ReadType ==
    ASSUME TypeOK, NEW c \in Callers, NEW id, Reads(c, id)
    PROVE  /\ calls' \in [Callers -> CallRecords]
           /\ calls'[c] = [calls[c] EXCEPT !.left = @ \ {id}]
           /\ \A d \in Callers \ {c} : calls'[d] = calls[d]
<1>1. calls \in [Callers -> CallRecords] /\ calls[c] \in CallRecords BY DEF TypeOK
<1>2. calls[c].left \ {id} \in SUBSET (Experiences \cup Records) BY <1>1 DEF CallRecords
<1>3. [calls[c] EXCEPT !.left = @ \ {id}] \in CallRecords BY <1>1, <1>2, CallChange
<1>4. calls' = [d \in Callers |->
          IF d = c THEN [calls[c] EXCEPT !.left = @ \ {id}] ELSE calls[d]]
  BY <1>1 DEF Reads
<1> QED BY <1>1, <1>3, <1>4

LEMMA HalfType ==
    ASSUME TypeOK, NEW c \in Callers, NEW left \in SUBSET (Experiences \cup Records),
           NEW half \in Records \cup {None},
           calls' = [calls EXCEPT ![c].left = left, ![c].half = half]
    PROVE  /\ calls' \in [Callers -> CallRecords]
           /\ calls'[c] = [calls[c] EXCEPT !.left = left, !.half = half]
           /\ \A d \in Callers \ {c} : calls'[d] = calls[d]
<1>1. calls \in [Callers -> CallRecords] /\ calls[c] \in CallRecords BY DEF TypeOK
<1>3. [calls[c] EXCEPT !.left = left, !.half = half] \in CallRecords BY <1>1, CallChange
<1>4. calls' = [d \in Callers |->
          IF d = c THEN [calls[c] EXCEPT !.left = left, !.half = half] ELSE calls[d]]
  BY <1>1
<1> QED BY <1>1, <1>3, <1>4

LEMMA EndType ==
    ASSUME TypeOK, NEW c \in Callers, Ends(c)
    PROVE  /\ calls' \in [Callers -> CallRecords] /\ calls'[c] = Idle
           /\ \A d \in Callers \ {c} : calls'[d] = calls[d]
BY IdleType DEF Ends, TypeOK

-----------------------------------------------------------------------------
(* Tables only grow. *)

Grows ==
    /\ recorded \subseteq recorded' /\ reviews \subseteq reviews' /\ eligible \subseteq eligible'
    /\ \A g \in Records : source[g] # None => source'[g] = source[g]
    /\ \A r \in Releases : releases[r] # {} => releases'[r] = releases[r]
    /\ \A m \in Models : Registered(m) => models'[m] = models[m]

LEMMA VettedStays ==
    ASSUME NEW e, recorded \subseteq recorded', reviews \subseteq reviews', Vetted(e)
    PROVE  Vetted(e)'
<1>1. \A d : Approvers(e, d) \subseteq Approvers(e, d)' BY DEF Approvers
<1> QED BY <1>1 DEF Vetted

LEMMA CallStays ==
    ASSUME Grows, NEW c \in Callers, CallSound(c), calls'[c] = calls[c]
    PROVE  CallSound(c)'
<1>1. \A e : Vetted(e) => Vetted(e)' BY VettedStays DEF Grows
<1>2. \A g \in Records : source[g] # None => source'[g] # None BY DEF Grows
<1>3. eligible \subseteq eligible' BY DEF Grows
<1> QED BY <1>1, <1>2, <1>3 DEF CallSound

\* All calls but one go on as they are.
LEMMA OneCall ==
    ASSUME CallInv, Grows, NEW c \in Callers, CallSound(c)',
           \A d \in Callers \ {c} : calls'[d] = calls[d]
    PROVE  CallInv'
<1> SUFFICES ASSUME NEW d \in Callers PROVE CallSound(d)' BY DEF CallInv
<1>1. CASE d = c BY <1>1
<1>2. CASE d # c BY <1>2, CallStays DEF CallInv
<1> QED BY <1>1, <1>2

LEMMA NoCall == CallInv /\ Grows /\ calls' = calls => CallInv'
BY CallStays DEF CallInv

LEMMA IdleSound == ASSUME NEW c, calls'[c] = Idle PROVE CallSound(c)'
BY IdleType DEF CallSound

LEMMA SameTables ==
    ASSUME UNCHANGED <<local, global>>
    PROVE  /\ Grows
           /\ (OneRecord => OneRecord') /\ (EligibleInv => EligibleInv')
           /\ (ReleaseInv => ReleaseInv') /\ (ModelInv => ModelInv')
<1> USE DEF local, global
<1>1. Grows BY DEF Grows
<1>2. \A e : Vetted(e) => Vetted(e)' BY VettedStays
<1>3. EligibleInv => EligibleInv' BY <1>2 DEF EligibleInv
<1>4. \A m : Registered(m)' <=> Registered(m) BY DEF Registered
<1>5. ModelInv => ModelInv' BY <1>4 DEF ModelInv
<1> QED BY <1>1, <1>3, <1>5 DEF OneRecord, ReleaseInv

\* A step of a call that only reads.
LEMMA ReadsOnly ==
    ASSUME IInv, UNCHANGED <<local, global>>, NEW c \in Callers, CallSound(c)',
           calls' \in [Callers -> CallRecords],
           \A d \in Callers \ {c} : calls'[d] = calls[d]
    PROVE  IInv'
<1>1. TypeOK' BY DEF IInv, TypeOK, local, global
<1>2. /\ (OneRecord => OneRecord') /\ (EligibleInv => EligibleInv')
      /\ (ReleaseInv => ReleaseInv') /\ (ModelInv => ModelInv') /\ Grows
  BY SameTables
<1>3. CallInv' BY <1>2, OneCall DEF IInv
<1> QED BY <1>1, <1>2, <1>3 DEF IInv

-----------------------------------------------------------------------------
(* The steps that read. *)

LEMMA VettedByReviews ==
    ASSUME LearningAssumption, NEW e \in recorded \ (Protected \cup Unverified),
           e \in Experiences, ReviewsPass(e)
    PROVE  Vetted(e)
<1>1. "DOMAIN" \in Required[e] /\ "SAFETY" \in Required[e] BY DEF LearningAssumption
<1>2. PICK x \in Approvers(e, "DOMAIN") : TRUE BY <1>1 DEF ReviewsPass
<1>3. PICK y \in Approvers(e, "SAFETY") : TRUE BY <1>1 DEF ReviewsPass
<1>4. x # y BY DEF ReviewsPass
<1> QED BY <1>2, <1>3, <1>4 DEF Vetted, ReviewsPass

\* What starts a call has found: the experience is vetted, or eligible.
LEMMA StartStep ==
    ASSUME LearningAssumption, IInv, NEW c \in Callers
    PROVE  /\ \A e \in Experiences : ApproveTrainingEligibility(c, e) => IInv'
           /\ \A S \in SUBSET Experiences : CreateTrainingRelease(c, S) => IInv'
           /\ \A e \in Experiences, g \in Records : PromoteLocalExperience(c, e, g) => IInv'
           /\ \A r \in Releases, S \in SUBSET Records :
                CreateGlobalTrainingRelease(c, r, S) => IInv'
<1> USE DEF IInv
<1>0. None \notin Records BY DEF LearningAssumption
<1>1. ASSUME NEW e \in Experiences, ApproveTrainingEligibility(c, e) PROVE IInv'
  <2>1. Vetted(e) BY <1>1, VettedByReviews DEF ApproveTrainingEligibility
  <2> DEFINE call == Call("APPROVE", {e}, {e}, None, None)
  <2>2. /\ call \in CallRecords /\ call.op = "APPROVE" /\ call.ids = {e} /\ call.half = None
    BY CallType
  <2>3. Starts(c, call) /\ UNCHANGED <<local, global>> BY <1>1 DEF ApproveTrainingEligibility
  <2> HIDE DEF call
  <2>4. /\ calls' \in [Callers -> CallRecords] /\ calls'[c] = call
        /\ \A d \in Callers \ {c} : calls'[d] = calls[d]
    BY <2>2, <2>3, StartType
  <2>5. Vetted(e)' BY <2>1, <2>3, VettedStays DEF local
  <2>6. CallSound(c)' BY <2>2, <2>4, <2>5 DEF CallSound
  <2> QED BY <2>3, <2>4, <2>6, ReadsOnly
<1>2. ASSUME NEW S \in SUBSET Experiences, CreateTrainingRelease(c, S) PROVE IInv'
  <2>1. PICK e \in S : /\ MayTrain(e)
                       /\ Starts(c, Call("TRAIN", S, S \ {e}, None, None))
                       /\ UNCHANGED <<local, global>>
    BY <1>2 DEF CreateTrainingRelease
  <2> DEFINE call == Call("TRAIN", S, S \ {e}, None, None)
  <2>2. /\ call \in CallRecords /\ call.op = "TRAIN" /\ call.ids = S /\ call.left = S \ {e}
        /\ call.half = None
    BY CallType
  <2>3. Starts(c, call) BY <2>1
  <2> HIDE DEF call
  <2>4. /\ calls' \in [Callers -> CallRecords] /\ calls'[c] = call
        /\ \A d \in Callers \ {c} : calls'[d] = calls[d]
    BY <2>2, <2>3, StartType
  <2>5. e \in eligible' BY <2>1 DEF MayTrain, TrainingEligible, local
  <2>6. CallSound(c)' BY <2>2, <2>4, <2>5 DEF CallSound
  <2> QED BY <2>1, <2>4, <2>6, ReadsOnly
<1>3. ASSUME NEW e \in Experiences, NEW g \in Records, PromoteLocalExperience(c, e, g)
      PROVE  IInv'
  <2> DEFINE call == Call("PROMOTE", {e}, {}, None, g)
  <2>2. /\ call \in CallRecords /\ call.op = "PROMOTE" /\ call.ids = {e} /\ call.left = {}
        /\ call.half = None /\ call.about = g
    BY CallType
  <2>3. Starts(c, call) /\ UNCHANGED <<local, global>> BY <1>3 DEF PromoteLocalExperience
  <2> HIDE DEF call
  <2>4. /\ calls' \in [Callers -> CallRecords] /\ calls'[c] = call
        /\ \A d \in Callers \ {c} : calls'[d] = calls[d]
    BY <2>2, <2>3, StartType
  <2>5. e \in eligible'
    BY <1>3, <2>3 DEF PromoteLocalExperience, MayPromote, MayTrain, TrainingEligible, local
  <2>6. CallSound(c)' BY <2>2, <2>4, <2>5 DEF CallSound
  <2> QED BY <2>3, <2>4, <2>6, ReadsOnly
<1>4. ASSUME NEW r \in Releases, NEW S \in SUBSET Records, CreateGlobalTrainingRelease(c, r, S)
      PROVE  IInv'
  <2>1. PICK g \in S : /\ MayRelease(g)
                       /\ Starts(c, Call("RELEASE", S, S \ {g}, g, r))
                       /\ UNCHANGED <<local, global>>
    BY <1>4 DEF CreateGlobalTrainingRelease
  <2> DEFINE call == Call("RELEASE", S, S \ {g}, g, r)
  <2>2. /\ call \in CallRecords /\ call.op = "RELEASE" /\ call.ids = S /\ call.left = S \ {g}
        /\ call.half = g /\ call.about = r
    BY CallType
  <2>3. Starts(c, call) BY <2>1
  <2> HIDE DEF call
  <2>4. /\ calls' \in [Callers -> CallRecords] /\ calls'[c] = call
        /\ \A d \in Callers \ {c} : calls'[d] = calls[d]
    BY <2>2, <2>3, StartType
  <2>5. g \in ForTraining /\ source'[g] # None BY <2>1 DEF MayRelease, global
  <2>6. CallSound(c)' BY <2>2, <2>4, <2>5 DEF CallSound
  <2> QED BY <2>1, <2>4, <2>6, ReadsOnly
<1> QED BY <1>1, <1>2, <1>3, <1>4

\* A call that reads on, or ends, keeps what it found.
LEMMA ReadStep ==
    ASSUME LearningAssumption, IInv, NEW c \in Callers,
           \/ ApprovalReadsEvents(c) \/ TrainingReadsNext(c)
           \/ RevalidateLocalSource(c) \/ ReleaseReadsNext(c) \/ Abandon(c)
    PROVE  IInv'
<1>1. calls[c] \in CallRecords /\ CallSound(c) BY DEF IInv, TypeOK, CallInv
<1>2. /\ calls[c].left \in SUBSET (Experiences \cup Records)
      /\ calls[c].half \in Records \cup {None}
  BY <1>1 DEF CallRecords, IInv, TypeOK
<1>3. \A e : Vetted(e) /\ UNCHANGED local => Vetted(e)' BY VettedStays DEF local
<1>4. ASSUME NEW e \in calls[c].left, calls[c].op \in {"APPROVE", "TRAIN"}, Reads(c, e),
             calls[c].op = "TRAIN" => e \in eligible, UNCHANGED <<local, global>>
      PROVE  IInv'
  <2>1. /\ calls' \in [Callers -> CallRecords]
        /\ calls'[c] = [calls[c] EXCEPT !.left = @ \ {e}]
        /\ \A d \in Callers \ {c} : calls'[d] = calls[d]
    BY <1>4, ReadType DEF IInv
  <2>2. /\ calls'[c].op = calls[c].op /\ calls'[c].ids = calls[c].ids
        /\ calls'[c].left = calls[c].left \ {e} /\ calls'[c].half = calls[c].half
    BY <1>1, <2>1 DEF CallRecords
  <2>3. eligible' = eligible BY <1>4 DEF local
  <2>4. CallSound(c)' BY <1>1, <1>3, <1>4, <2>2, <2>3 DEF CallSound
  <2> QED BY <1>4, <2>1, <2>4, ReadsOnly
<1>5. CASE ApprovalReadsEvents(c) BY <1>4, <1>5 DEF ApprovalReadsEvents
<1>6. CASE TrainingReadsNext(c)
  BY <1>4, <1>6 DEF TrainingReadsNext, MayTrain, TrainingEligible
<1>7. CASE RevalidateLocalSource(c)
  <2>1. calls' = [calls EXCEPT ![c].half = None] /\ calls[c].half # None
        /\ UNCHANGED <<local, global>>
    BY <1>7 DEF RevalidateLocalSource
  <2>2. /\ calls' \in [Callers -> CallRecords]
        /\ calls'[c] = [calls[c] EXCEPT !.half = None]
        /\ \A d \in Callers \ {c} : calls'[d] = calls[d]
    <3>1. [calls[c] EXCEPT !.half = None] \in CallRecords BY <1>1, <1>2, CallChange
    <3> QED BY <2>1, <3>1 DEF IInv, TypeOK
  <2>3. /\ calls'[c].op = "RELEASE" /\ calls'[c].ids = calls[c].ids
        /\ calls'[c].left = calls[c].left /\ calls'[c].half = None
        /\ calls'[c].about = calls[c].about /\ calls[c].op = "RELEASE"
    BY <1>1, <2>1, <2>2 DEF CallRecords, CallSound
  <2>4. source' = source BY <2>1 DEF global
  <2>5. CallSound(c)' BY <1>1, <2>3, <2>4 DEF CallSound
  <2> QED BY <2>1, <2>2, <2>5, ReadsOnly
<1>8. CASE ReleaseReadsNext(c)
  <2>1. PICK g \in calls[c].left :
            /\ calls[c].op = "RELEASE" /\ calls[c].half = None /\ MayRelease(g)
            /\ calls' = [calls EXCEPT ![c].left = @ \ {g}, ![c].half = g]
            /\ UNCHANGED <<local, global>>
    BY <1>8 DEF ReleaseReadsNext
  <2>2. g \in Records /\ g # None
    <3>1. ForTraining \subseteq Records /\ None \notin Records BY DEF LearningAssumption
    <3> QED BY <2>1, <3>1 DEF MayRelease
  <2>3. calls[c].left \ {g} \in SUBSET (Experiences \cup Records) BY <1>2
  <2>4. calls' = [calls EXCEPT ![c].left = calls[c].left \ {g}, ![c].half = g]
    BY <2>1
  <2>5. /\ calls' \in [Callers -> CallRecords]
        /\ calls'[c] = [calls[c] EXCEPT !.left = calls[c].left \ {g}, !.half = g]
        /\ \A d \in Callers \ {c} : calls'[d] = calls[d]
    BY <2>2, <2>3, <2>4, HalfType DEF IInv
  <2>6. /\ calls'[c].op = "RELEASE" /\ calls'[c].ids = calls[c].ids
        /\ calls'[c].left = calls[c].left \ {g} /\ calls'[c].half = g
        /\ calls'[c].about = calls[c].about
    BY <1>1, <2>1, <2>5 DEF CallRecords
  <2>7. source' = source BY <2>1 DEF global
  <2>8. g \in calls[c].ids
    BY <2>1, <1>1 DEF CallSound
  <2>9. CallSound(c)' BY <1>1, <2>1, <2>6, <2>7, <2>8 DEF CallSound, MayRelease
  <2> QED BY <2>1, <2>5, <2>9, ReadsOnly
<1>9. CASE Abandon(c)
  <2>1. /\ calls' \in [Callers -> CallRecords] /\ calls'[c] = Idle
        /\ \A d \in Callers \ {c} : calls'[d] = calls[d]
        /\ UNCHANGED <<local, global>>
    BY <1>9, EndType DEF Abandon, IInv
  <2> QED BY <2>1, IdleSound, ReadsOnly
<1> QED BY <1>5, <1>6, <1>7, <1>8, <1>9

-----------------------------------------------------------------------------
(* The steps that write. *)

\* A write to the local tables leaves what was eligible vetted.
LEMMA LocalTables ==
    ASSUME IInv, TypeOK', CallInv', Grows, UNCHANGED global,
           \A e \in eligible' \ eligible : Vetted(e), trained' \subseteq eligible'
    PROVE  IInv'
<1> USE DEF global
<1>1. \A e : Vetted(e) => Vetted(e)' BY VettedStays DEF Grows
<1>2. EligibleInv' BY <1>1 DEF IInv, EligibleInv, Grows
<1>3. \A m : Registered(m)' <=> Registered(m) BY DEF Registered
<1>4. ModelInv' BY <1>3 DEF IInv, ModelInv
<1> QED BY <1>2, <1>4 DEF IInv, OneRecord, ReleaseInv

LEMMA GovernStep == ASSUME LearningAssumption, IInv, GovernNext PROVE IInv'
<1> USE DEF local, global
<1>1. ASSUME NEW e \in Experiences, RecordExperience(e) PROVE IInv'
  <2>1. Grows BY <1>1 DEF RecordExperience, Grows
  <2>2. TypeOK' BY <1>1 DEF RecordExperience, IInv, TypeOK
  <2>3. CallInv' BY <1>1, <2>1, NoCall DEF RecordExperience, IInv
  <2> QED BY <1>1, <2>1, <2>2, <2>3, LocalTables DEF RecordExperience, IInv, EligibleInv
<1>2. ASSUME NEW e \in Experiences, QuarantineExperience(e) PROVE IInv'
  <2>1. Grows BY <1>2 DEF QuarantineExperience, Grows
  <2>2. TypeOK' BY <1>2 DEF QuarantineExperience, IInv, TypeOK
  <2>3. CallInv' BY <1>2, <2>1, NoCall DEF QuarantineExperience, IInv
  <2> QED BY <1>2, <2>1, <2>2, <2>3, LocalTables DEF QuarantineExperience, IInv, EligibleInv
<1>3. ASSUME NEW e \in Experiences, NEW result \in {"PASSED", "FAILED"},
             RecordOverlapCheck(e, result)
      PROVE  IInv'
  <2>1. Grows BY <1>3 DEF RecordOverlapCheck, Grows
  <2>2. TypeOK' BY <1>3 DEF RecordOverlapCheck, IInv, TypeOK
  <2>3. CallInv' BY <1>3, <2>1, NoCall DEF RecordOverlapCheck, IInv
  <2> QED BY <1>3, <2>1, <2>2, <2>3, LocalTables DEF RecordOverlapCheck, IInv, EligibleInv
<1>4. ASSUME NEW v \in Submissions, ReviewExperience(v) PROVE IInv'
  <2>1. Grows BY <1>4 DEF ReviewExperience, Grows
  <2>2. TypeOK' BY <1>4 DEF ReviewExperience, IInv, TypeOK
  <2>3. CallInv' BY <1>4, <2>1, NoCall DEF ReviewExperience, IInv
  <2> QED BY <1>4, <2>1, <2>2, <2>3, LocalTables DEF ReviewExperience, IInv, EligibleInv
<1>5. ASSUME NEW g \in Records, QuarantineGlobalRecord(g) PROVE IInv'
  <2>1. Grows BY <1>5 DEF QuarantineGlobalRecord, Grows
  <2>2. TypeOK' BY <1>5 DEF QuarantineGlobalRecord, IInv, TypeOK
  <2>3. CallInv' BY <1>5, <2>1, NoCall DEF QuarantineGlobalRecord, IInv
  <2>4. OneRecord' BY <1>5 DEF QuarantineGlobalRecord, IInv, OneRecord
  <2>5. \A e : Vetted(e) => Vetted(e)' BY <2>1, VettedStays DEF Grows
  <2>6. EligibleInv' BY <1>5, <2>5 DEF QuarantineGlobalRecord, IInv, EligibleInv
  <2>7. \A m : Registered(m)' <=> Registered(m) BY <1>5 DEF QuarantineGlobalRecord, Registered
  <2>8. ModelInv' BY <1>5, <2>7 DEF QuarantineGlobalRecord, IInv, ModelInv
  <2>9. ReleaseInv' BY <1>5 DEF QuarantineGlobalRecord, IInv, ReleaseInv
  <2> QED BY <2>2, <2>3, <2>4, <2>6, <2>8, <2>9 DEF IInv
<1> QED BY <1>1, <1>2, <1>3, <1>4, <1>5 DEF GovernNext

LEMMA WriteStep ==
    ASSUME LearningAssumption, IInv, NEW c \in Callers,
           \/ ApprovalWrites(c) \/ TrainingWrites(c) \/ PromotionWrites(c) \/ ReleaseWrites(c)
    PROVE  IInv'
<1> USE DEF local, global
<1>1. calls[c] \in CallRecords /\ CallSound(c) BY DEF IInv, TypeOK, CallInv
<1>2. ASSUME Ends(c) PROVE /\ calls' \in [Callers -> CallRecords] /\ CallSound(c)'
                           /\ \A d \in Callers \ {c} : calls'[d] = calls[d]
  BY <1>2, EndType, IdleSound DEF IInv
<1>3. ASSUME Ends(c), Grows PROVE CallInv' BY <1>2, <1>3, OneCall DEF IInv
<1>4. CASE ApprovalWrites(c)
  <2>1. calls[c].ids \subseteq Experiences /\ \A e \in calls[c].ids : Vetted(e)
    BY <1>1, <1>4 DEF ApprovalWrites, HasRead, CallSound
  <2>2. Grows BY <1>4 DEF ApprovalWrites, Grows
  <2>3. TypeOK' BY <1>2, <1>4, <2>1 DEF ApprovalWrites, IInv, TypeOK
  <2>4. CallInv' BY <1>3, <1>4, <2>2 DEF ApprovalWrites
  <2> QED BY <1>4, <2>1, <2>2, <2>3, <2>4, LocalTables DEF ApprovalWrites, IInv, EligibleInv
<1>5. CASE TrainingWrites(c)
  <2>1. calls[c].ids \subseteq Experiences /\ calls[c].ids \subseteq eligible
    BY <1>1, <1>5 DEF TrainingWrites, HasRead, CallSound
  <2>2. Grows BY <1>5 DEF TrainingWrites, Grows
  <2>3. TypeOK' BY <1>2, <1>5, <2>1 DEF TrainingWrites, IInv, TypeOK
  <2>4. CallInv' BY <1>3, <1>5, <2>2 DEF TrainingWrites
  <2> QED BY <1>5, <2>1, <2>2, <2>3, <2>4, LocalTables DEF TrainingWrites, IInv, EligibleInv
<1>6. CASE PromotionWrites(c)
  <2>1. PICK e \in calls[c].ids : /\ HasRead(c, "PROMOTE")
                                  /\ Unused(e, calls[c].about)
                                  /\ source' = [source EXCEPT ![calls[c].about] = e]
                                  /\ Ends(c)
                                  /\ UNCHANGED <<local, withdrawn, releases, models, fit>>
    BY <1>6 DEF PromotionWrites
  <2> DEFINE g == calls[c].about
  <2>2. g \in Records /\ e \in Experiences /\ e \in eligible /\ e # None
    BY <1>1, <2>1 DEF HasRead, CallSound, LearningAssumption
  <2>3. source[g] = None /\ \A h \in Records : source[h] # e BY <2>1 DEF Unused
  <2>4. source \in [Records -> Experiences \cup {None}] BY DEF IInv, TypeOK
  <2>5. source' = [source EXCEPT ![g] = e] BY <2>1
  <2> HIDE DEF g
  <2>6. source'[g] = e /\ \A h \in Records : h # g => source'[h] = source[h]
    BY <2>2, <2>4, <2>5
  <2>7. Grows BY <2>1, <2>3, <2>6 DEF Grows
  <2>8. TypeOK'
    <3>1. source' \in [Records -> Experiences \cup {None}] BY <2>2, <2>4, <2>5
    <3>2. calls' \in [Callers -> CallRecords] BY <1>2, <2>1
    <3> QED BY <2>1, <3>1, <3>2 DEF IInv, TypeOK
  <2>9. CallInv' BY <1>3, <2>1, <2>7
  <2>10. OneRecord'
    <3>1. withdrawn' = withdrawn /\ withdrawn \subseteq Records BY <2>1 DEF IInv, TypeOK
    <3> QED BY <2>2, <2>3, <2>6, <3>1 DEF IInv, OneRecord
  <2>11. EligibleInv'
    <3>1. \A x : Vetted(x) => Vetted(x)' BY <2>7, VettedStays DEF Grows
    <3> QED BY <2>1, <2>2, <2>6, <3>1 DEF IInv, EligibleInv
  <2>12. ReleaseInv'
    <3>1. releases' = releases /\ \A r \in Releases : releases[r] \subseteq Records
      BY <2>1 DEF IInv, TypeOK
    <3> QED BY <2>2, <2>6, <3>1 DEF IInv, ReleaseInv
  <2>13. ModelInv'
    <3>1. \A m : Registered(m)' <=> Registered(m) BY <2>1 DEF Registered
    <3> QED BY <2>1, <3>1 DEF IInv, ModelInv
  <2> QED BY <2>8, <2>9, <2>10, <2>11, <2>12, <2>13 DEF IInv
<1>7. CASE ReleaseWrites(c)
  <2> DEFINE r == calls[c].about S == calls[c].ids
  <2>1. /\ r \in Releases /\ S \subseteq Records /\ S # {}
        /\ \A g \in S : g \in ForTraining /\ source[g] # None
    BY <1>1, <1>7 DEF ReleaseWrites, HasRead, CallSound
  <2>2. /\ releases[r] = {} /\ releases' = [releases EXCEPT ![r] = S] /\ Ends(c)
        /\ UNCHANGED <<local, source, withdrawn, models, fit>>
    BY <1>7 DEF ReleaseWrites
  <2>3. releases \in [Releases -> SUBSET Records] BY DEF IInv, TypeOK
  <2> HIDE DEF r, S
  <2>4. releases'[r] = S /\ \A q \in Releases : q # r => releases'[q] = releases[q]
    BY <2>1, <2>2, <2>3
  <2>5. Grows BY <2>2, <2>4 DEF Grows
  <2>6. TypeOK' BY <1>2, <2>1, <2>2, <2>3 DEF IInv, TypeOK
  <2>7. CallInv' BY <1>3, <2>2, <2>5
  <2>8. OneRecord' BY <2>2 DEF IInv, OneRecord
  <2>9. EligibleInv'
    <3>1. \A x : Vetted(x) => Vetted(x)' BY <2>5, VettedStays DEF Grows
    <3> QED BY <2>2, <3>1 DEF IInv, EligibleInv
  <2>10. ReleaseInv' BY <2>1, <2>2, <2>4 DEF IInv, ReleaseInv
  <2>11. ModelInv'
    <3>1. \A m : Registered(m)' <=> Registered(m) BY <2>2 DEF Registered
    <3>2. \A m \in Models : Registered(m) => models[m].release \in Releases
      BY DEF IInv, TypeOK, ModelRecords, Registered
    <3> QED BY <2>1, <2>2, <2>4, <3>1, <3>2 DEF IInv, ModelInv
  <2> QED BY <2>6, <2>7, <2>8, <2>9, <2>10, <2>11 DEF IInv
<1> QED BY <1>4, <1>5, <1>6, <1>7

LEMMA ModelStep == ASSUME LearningAssumption, IInv, ModelNext PROVE IInv'
<1> USE DEF local, global
<1>1. ASSUME NEW m \in Models, RecordC1Disposition(m) PROVE IInv'
  <2>1. Grows BY <1>1 DEF RecordC1Disposition, Grows
  <2>2. CallInv' BY <1>1, <2>1, NoCall DEF RecordC1Disposition, IInv
  <2>3. TypeOK' BY <1>1 DEF RecordC1Disposition, IInv, TypeOK
  <2>4. OneRecord' /\ ReleaseInv' BY <1>1 DEF RecordC1Disposition, IInv, OneRecord, ReleaseInv
  <2>5. \A x : Vetted(x) => Vetted(x)' BY <2>1, VettedStays DEF Grows
  <2>6. EligibleInv' BY <1>1, <2>5 DEF RecordC1Disposition, IInv, EligibleInv
  <2>7. \A n : Registered(n)' <=> Registered(n) BY <1>1 DEF RecordC1Disposition, Registered
  <2>8. ModelInv' BY <1>1, <2>7 DEF RecordC1Disposition, IInv, ModelInv
  <2> QED BY <2>2, <2>3, <2>4, <2>6, <2>8 DEF IInv
<1>2. ASSUME NEW m \in Models, NEW r \in Releases, NEW predecessor \in Models \cup {None},
             NEW passed \in BOOLEAN, RegisterC1Version(m, r, predecessor, passed)
      PROVE  IInv'
  <2> DEFINE new == [release |-> r, predecessor |-> predecessor, passed |-> passed]
  <2>1. /\ releases[r] # {} /\ (predecessor # None => Registered(predecessor))
        /\ ~Registered(m) /\ models' = [models EXCEPT ![m] = new]
        /\ UNCHANGED <<local, source, withdrawn, releases, fit, calls>>
    BY <1>2 DEF RegisterC1Version
  <2>2. models \in [Models -> ModelRecords] /\ new \in ModelRecords
    BY DEF IInv, TypeOK, ModelRecords
  <2>3. new.release = r /\ new.predecessor = predecessor /\ r # None
    BY DEF LearningAssumption
  <2> HIDE DEF new
  <2>4. models'[m] = new /\ \A n \in Models : n # m => models'[n] = models[n]
    BY <2>1, <2>2
  <2>5. Grows BY <2>1, <2>4 DEF Grows, Registered
  <2>6. CallInv' BY <2>1, <2>5, NoCall DEF IInv
  <2>7. TypeOK' BY <2>1, <2>2 DEF IInv, TypeOK
  <2>8. OneRecord' /\ ReleaseInv' BY <2>1 DEF IInv, OneRecord, ReleaseInv
  <2>9. \A x : Vetted(x) => Vetted(x)' BY <2>5, VettedStays DEF Grows
  <2>10. EligibleInv' BY <2>1, <2>9 DEF IInv, EligibleInv
  <2>11. ModelInv'
    <3>1. \A n \in Models : Registered(n)' <=> n = m \/ Registered(n)
      BY <2>3, <2>4 DEF Registered
    <3>2. \A n \in Models : models[n].predecessor \in Models \cup {None}
      BY <2>2 DEF ModelRecords
    <3>3. ASSUME NEW n \in Models, Registered(n)'
          PROVE  (/\ releases[models[n].release] # {}
                  /\ models[n].predecessor # None =>
                        models[n].predecessor # n /\ Registered(models[n].predecessor))'
      <4>1. CASE n = m
        <5>1. models'[n].release = r /\ models'[n].predecessor = predecessor
          BY <2>3, <2>4, <4>1
        <5>2. predecessor # None =>
                predecessor \in Models /\ predecessor # m /\ Registered(predecessor)'
          BY <2>1, <3>1
        <5>3. releases'[models'[n].release] # {} BY <2>1, <5>1
        <5> QED BY <4>1, <5>1, <5>2, <5>3
      <4>2. CASE n # m
        <5>1. models'[n] = models[n] /\ Registered(n) BY <2>4, <3>1, <3>3, <4>2
        <5> QED BY <2>1, <3>1, <3>2, <5>1 DEF IInv, ModelInv
      <4> QED BY <4>1, <4>2
    <3>4. \A n \in fit' : Registered(n)' /\ models'[n].passed
      BY <2>1, <2>4, <3>1 DEF IInv, TypeOK, ModelInv
    <3> QED BY <3>3, <3>4 DEF ModelInv
  <2> QED BY <2>6, <2>7, <2>8, <2>10, <2>11 DEF IInv
<1> QED BY <1>1, <1>2 DEF ModelNext

LEMMA InitIInv == LearningAssumption /\ Init => IInv
<1> SUFFICES ASSUME LearningAssumption, Init PROVE IInv OBVIOUS
<1>1. NoModel \in ModelRecords /\ NoModel.release = None BY DEF NoModel, ModelRecords
<1>2. TypeOK BY <1>1, IdleType DEF Init, TypeOK
<1>3. CallInv BY IdleType DEF Init, CallInv, CallSound
<1>4. ModelInv BY <1>1 DEF Init, ModelInv, Registered
<1> QED BY <1>2, <1>3, <1>4 DEF IInv, Init, OneRecord, EligibleInv, ReleaseInv

LEMMA Inductive == ASSUME LearningAssumption, IInv, [Next]_vars PROVE IInv'
<1>1. ASSUME NEW c \in Callers, LocalNext(c) PROVE IInv'
  <2>1. ASSUME NEW e \in Experiences, RecordModelExposure(c, e) PROVE IInv'
    BY <2>1, StartStep DEF RecordModelExposure
  <2> QED BY <1>1, <2>1, StartStep, ReadStep, WriteStep DEF LocalNext
<1>2. ASSUME NEW c \in Callers, GlobalNext(c) PROVE IInv'
  BY <1>2, StartStep, ReadStep, WriteStep DEF GlobalNext
<1>3. CASE UNCHANGED vars
  <2>1. UNCHANGED <<local, global>> /\ calls' = calls BY <1>3 DEF vars
  <2>2. /\ (OneRecord => OneRecord') /\ (EligibleInv => EligibleInv')
        /\ (ReleaseInv => ReleaseInv') /\ (ModelInv => ModelInv') /\ Grows
    BY <2>1, SameTables
  <2>3. CallInv' BY <2>1, <2>2, NoCall DEF IInv
  <2>4. TypeOK' BY <2>1 DEF IInv, TypeOK, local, global
  <2> QED BY <2>2, <2>3, <2>4 DEF IInv
<1>4. ASSUME NEW c \in Callers, Abandon(c) PROVE IInv' BY <1>4, ReadStep
<1> QED BY <1>1, <1>2, <1>3, <1>4, GovernStep, ModelStep DEF Next

LEMMA Invariance == LearningAssumption => (Spec => []IInv)
<1> SUFFICES ASSUME LearningAssumption PROVE Spec => []IInv OBVIOUS
<1>1. Init => IInv BY InitIInv
<1>2. IInv /\ [Next]_vars => IInv' BY Inductive
<1> QED BY <1>1, <1>2, PTL DEF Spec

\* The constants are as LearningAssumption says.
LEMMA Invariant == Spec => []IInv
BY LearningAssumption, Invariance

-----------------------------------------------------------------------------
(* What a step changes, for the action properties. *)

\* What a call has found after a step it had found before, or finds good now.
CallMove(c) ==
    \/ calls'[c] = calls[c]
    \/ calls'[c].op = "IDLE"
    \/ /\ calls'[c].op = "APPROVE"
       /\ \/ calls[c].op = "APPROVE" /\ calls'[c].ids = calls[c].ids
          \/ \A e \in calls'[c].ids : ReviewsPass(e)
    \/ /\ calls'[c].op \in {"TRAIN", "PROMOTE"}
       /\ \A e \in calls'[c].ids \ calls'[c].left :
            MayTrain(e) \/ (calls[c].op = "TRAIN" /\ e \in calls[c].ids \ calls[c].left)
    \/ /\ calls'[c].op = "RELEASE" /\ source' = source
       /\ \A g \in calls'[c].ids \ calls'[c].left :
            MayRelease(g) \/ (calls[c].op = "RELEASE" /\ g \in calls[c].ids \ calls[c].left)
       /\ \A g \in calls'[c].ids \ (calls'[c].left \cup {calls'[c].half}) :
            /\ calls[c].op = "RELEASE"
            /\ MayPromote(source[g]) \/ g \in calls[c].ids \ (calls[c].left \cup {calls[c].half})

\* What is written is what a call holds.
TableMove ==
    /\ \A e \in eligible' \ eligible : \E c \in Callers :
            calls[c].op = "APPROVE" /\ e \in calls[c].ids
    /\ \A e \in trained' \ trained : \E c \in Callers :
            HasRead(c, "TRAIN") /\ e \in calls[c].ids
    /\ \A g \in Records : source'[g] # source[g] =>
            /\ source[g] = None /\ \A h \in Records : source[h] # source'[g]
            /\ \E c \in Callers : HasRead(c, "PROMOTE") /\ source'[g] \in calls[c].ids
    /\ \A r \in Releases : releases'[r] # releases[r] =>
            /\ releases[r] = {} /\ source' = source
            /\ \E c \in Callers : HasRead(c, "RELEASE") /\ releases'[r] = calls[c].ids

LEMMA SameCalls == calls' = calls => \A c \in Callers : CallMove(c)
BY DEF CallMove

LEMMA StillTables ==
    UNCHANGED <<eligible, trained, source, releases>> => TableMove
BY DEF TableMove

LEMMA GovernMoves == GovernNext \/ ModelNext => (\A c \in Callers : CallMove(c)) /\ TableMove
<1>1. GovernNext => UNCHANGED <<eligible, trained, source, releases, calls>>
  BY DEF GovernNext, RecordExperience, QuarantineExperience, RecordOverlapCheck,
         ReviewExperience, QuarantineGlobalRecord, local, global
<1>2. ModelNext => UNCHANGED <<eligible, trained, source, releases, calls>>
  BY DEF ModelNext, RecordC1Disposition, RegisterC1Version, local, global
<1> QED BY <1>1, <1>2, SameCalls, StillTables

LEMMA StartMoves ==
    ASSUME LearningAssumption, IInv, NEW c \in Callers,
           \/ \E e \in Experiences : ApproveTrainingEligibility(c, e)
           \/ \E S \in SUBSET Experiences : CreateTrainingRelease(c, S)
           \/ \E e \in Experiences, g \in Records : PromoteLocalExperience(c, e, g)
           \/ \E r \in Releases, S \in SUBSET Records : CreateGlobalTrainingRelease(c, r, S)
    PROVE  (\A d \in Callers : CallMove(d)) /\ TableMove
<1>1. ASSUME NEW call \in CallRecords, Starts(c, call),
             calls'[c] = call => CallMove(c)
      PROVE  \A d \in Callers : CallMove(d)
  BY <1>1, StartType DEF CallMove, IInv
<1>2. ASSUME NEW e \in Experiences, ApproveTrainingEligibility(c, e)
      PROVE  (\A d \in Callers : CallMove(d)) /\ TableMove
  <2> DEFINE call == Call("APPROVE", {e}, {e}, None, None)
  <2>1. call \in CallRecords /\ call.op = "APPROVE" /\ call.ids = {e} BY CallType
  <2>2. Starts(c, call) /\ ReviewsPass(e) /\ UNCHANGED <<local, global>>
    BY <1>2 DEF ApproveTrainingEligibility
  <2> HIDE DEF call
  <2>3. calls'[c] = call => CallMove(c) BY <2>1, <2>2 DEF CallMove
  <2> QED BY <1>1, <2>1, <2>2, <2>3, StillTables DEF local, global
<1>3. ASSUME NEW S \in SUBSET Experiences, CreateTrainingRelease(c, S)
      PROVE  (\A d \in Callers : CallMove(d)) /\ TableMove
  <2>1. PICK e \in S : /\ MayTrain(e) /\ UNCHANGED <<local, global>>
                       /\ Starts(c, Call("TRAIN", S, S \ {e}, None, None))
    BY <1>3 DEF CreateTrainingRelease
  <2> DEFINE call == Call("TRAIN", S, S \ {e}, None, None)
  <2>2. call \in CallRecords /\ call.op = "TRAIN" /\ call.ids = S /\ call.left = S \ {e}
    BY CallType
  <2>3. Starts(c, call) BY <2>1
  <2> HIDE DEF call
  <2>4. calls'[c] = call => CallMove(c) BY <2>1, <2>2 DEF CallMove
  <2> QED BY <1>1, <2>1, <2>2, <2>3, <2>4, StillTables DEF local, global
<1>4. ASSUME NEW e \in Experiences, NEW g \in Records, PromoteLocalExperience(c, e, g)
      PROVE  (\A d \in Callers : CallMove(d)) /\ TableMove
  <2> DEFINE call == Call("PROMOTE", {e}, {}, None, g)
  <2>1. call \in CallRecords /\ call.op = "PROMOTE" /\ call.ids = {e} BY CallType
  <2>2. Starts(c, call) /\ MayTrain(e) /\ UNCHANGED <<local, global>>
    BY <1>4 DEF PromoteLocalExperience, MayPromote
  <2> HIDE DEF call
  <2>3. calls'[c] = call => CallMove(c) BY <2>1, <2>2 DEF CallMove
  <2> QED BY <1>1, <2>1, <2>2, <2>3, StillTables DEF local, global
<1>5. ASSUME NEW r \in Releases, NEW S \in SUBSET Records, CreateGlobalTrainingRelease(c, r, S)
      PROVE  (\A d \in Callers : CallMove(d)) /\ TableMove
  <2>1. PICK g \in S : /\ MayRelease(g) /\ UNCHANGED <<local, global>>
                       /\ Starts(c, Call("RELEASE", S, S \ {g}, g, r))
    BY <1>5 DEF CreateGlobalTrainingRelease
  <2> DEFINE call == Call("RELEASE", S, S \ {g}, g, r)
  <2>2. /\ call \in CallRecords /\ call.op = "RELEASE" /\ call.ids = S
        /\ call.left = S \ {g} /\ call.half = g
    BY CallType
  <2>3. Starts(c, call) /\ source' = source BY <2>1 DEF global
  <2> HIDE DEF call
  <2>4. calls'[c] = call => CallMove(c) BY <2>1, <2>2, <2>3 DEF CallMove
  <2> QED BY <1>1, <2>1, <2>2, <2>3, <2>4, StillTables DEF local, global
<1> QED BY <1>2, <1>3, <1>4, <1>5

LEMMA ReadMoves ==
    ASSUME LearningAssumption, IInv, NEW c \in Callers,
           \/ ApprovalReadsEvents(c) \/ TrainingReadsNext(c)
           \/ RevalidateLocalSource(c) \/ ReleaseReadsNext(c) \/ Abandon(c)
    PROVE  (\A d \in Callers : CallMove(d)) /\ TableMove
<1>1. calls[c] \in CallRecords /\ CallSound(c) BY DEF IInv, TypeOK, CallInv
<1>2. TableMove
  <2>1. UNCHANGED <<local, global>>
    BY DEF ApprovalReadsEvents, TrainingReadsNext, RevalidateLocalSource, ReleaseReadsNext, Abandon
  <2> QED BY <2>1, StillTables DEF local, global
<1>3. ASSUME CallMove(c), \A d \in Callers \ {c} : calls'[d] = calls[d]
      PROVE  \A d \in Callers : CallMove(d)
  BY <1>3 DEF CallMove
<1>4. ASSUME NEW e \in calls[c].left, Reads(c, e)
      PROVE  /\ calls'[c].op = calls[c].op /\ calls'[c].ids = calls[c].ids
             /\ calls'[c].left = calls[c].left \ {e}
             /\ \A d \in Callers \ {c} : calls'[d] = calls[d]
  <2>1. /\ calls'[c] = [calls[c] EXCEPT !.left = @ \ {e}]
        /\ \A d \in Callers \ {c} : calls'[d] = calls[d]
    BY <1>4, ReadType DEF IInv
  <2> QED BY <1>1, <2>1 DEF CallRecords
<1>5. CASE ApprovalReadsEvents(c)
  <2>1. CallMove(c) BY <1>4, <1>5 DEF ApprovalReadsEvents, CallMove
  <2> QED BY <1>2, <1>3, <1>4, <1>5, <2>1 DEF ApprovalReadsEvents
<1>6. CASE TrainingReadsNext(c)
  <2>1. PICK e \in calls[c].left : calls[c].op = "TRAIN" /\ MayTrain(e) /\ Reads(c, e)
    BY <1>6 DEF TrainingReadsNext
  <2>2. CallMove(c) BY <1>4, <2>1 DEF CallMove
  <2> QED BY <1>2, <1>3, <1>4, <2>1, <2>2
<1>7. CASE RevalidateLocalSource(c)
  <2>1. /\ calls' = [calls EXCEPT ![c].half = None] /\ calls[c].half # None
        /\ MayPromote(source[calls[c].half]) /\ source' = source
    BY <1>7 DEF RevalidateLocalSource, global
  <2>2. calls \in [Callers -> CallRecords] BY DEF IInv, TypeOK
  <2>3. calls'[c] = [calls[c] EXCEPT !.half = None]
    BY <2>1, <2>2
  <2>4. /\ calls'[c].op = "RELEASE" /\ calls'[c].ids = calls[c].ids
        /\ calls'[c].left = calls[c].left /\ calls'[c].half = None /\ calls[c].op = "RELEASE"
    BY <1>1, <2>1, <2>3 DEF CallRecords, CallSound
  <2>5. CallMove(c) BY <2>1, <2>4 DEF CallMove
  <2> QED BY <1>2, <1>3, <2>1, <2>2, <2>5
<1>8. CASE ReleaseReadsNext(c)
  <2>1. PICK g \in calls[c].left :
            /\ calls[c].op = "RELEASE" /\ calls[c].half = None /\ MayRelease(g)
            /\ calls' = [calls EXCEPT ![c].left = @ \ {g}, ![c].half = g]
            /\ source' = source
    BY <1>8 DEF ReleaseReadsNext, global
  <2>2. calls \in [Callers -> CallRecords] BY DEF IInv, TypeOK
  <2>3. calls'[c] = [calls[c] EXCEPT !.left = @ \ {g}, !.half = g]
    BY <2>1, <2>2
  <2>4. /\ calls'[c].op = "RELEASE" /\ calls'[c].ids = calls[c].ids
        /\ calls'[c].left = calls[c].left \ {g} /\ calls'[c].half = g
    BY <1>1, <2>1, <2>3 DEF CallRecords
  <2>5. None \notin calls[c].ids
    BY <1>1, <2>1 DEF CallSound, LearningAssumption
  <2>6. CallMove(c) BY <2>1, <2>4, <2>5 DEF CallMove
  <2> QED BY <1>2, <1>3, <2>1, <2>2, <2>6
<1>9. CASE Abandon(c)
  <2>1. calls'[c] = Idle /\ \A d \in Callers \ {c} : calls'[d] = calls[d]
    BY <1>9, EndType DEF Abandon, IInv
  <2>2. CallMove(c) BY <2>1, IdleType DEF CallMove
  <2> QED BY <1>2, <1>3, <2>1, <2>2
<1> QED BY <1>5, <1>6, <1>7, <1>8, <1>9

LEMMA WriteMoves ==
    ASSUME LearningAssumption, IInv, NEW c \in Callers,
           \/ ApprovalWrites(c) \/ TrainingWrites(c) \/ PromotionWrites(c) \/ ReleaseWrites(c)
    PROVE  (\A d \in Callers : CallMove(d)) /\ TableMove
<1> USE DEF local, global
<1>1. calls[c] \in CallRecords /\ CallSound(c) BY DEF IInv, TypeOK, CallInv
<1>2. \A d \in Callers : CallMove(d)
  <2>1. Ends(c) BY DEF ApprovalWrites, TrainingWrites, PromotionWrites, ReleaseWrites
  <2>2. calls'[c] = Idle /\ \A d \in Callers \ {c} : calls'[d] = calls[d]
    BY <2>1, EndType DEF IInv
  <2> QED BY <2>2, IdleType DEF CallMove
<1>3. CASE ApprovalWrites(c) BY <1>2, <1>3 DEF ApprovalWrites, HasRead, TableMove
<1>4. CASE TrainingWrites(c) BY <1>2, <1>4 DEF TrainingWrites, TableMove
<1>5. CASE PromotionWrites(c)
  <2>1. PICK e \in calls[c].ids :
            /\ HasRead(c, "PROMOTE") /\ Unused(e, calls[c].about)
            /\ source' = [source EXCEPT ![calls[c].about] = e]
            /\ UNCHANGED <<local, withdrawn, releases, models, fit>>
    BY <1>5 DEF PromotionWrites
  <2>2. calls[c].about \in Records BY <1>1, <2>1 DEF HasRead, CallSound
  <2>3. source \in [Records -> Experiences \cup {None}] BY DEF IInv, TypeOK
  <2>4. \A g \in Records : source'[g] # source[g] =>
            /\ source[g] = None /\ source'[g] = e
            /\ \A h \in Records : source[h] # e
    BY <2>1, <2>2, <2>3 DEF Unused
  <2>5. TableMove BY <2>1, <2>4 DEF TableMove
  <2> QED BY <1>2, <2>5
<1>6. CASE ReleaseWrites(c)
  <2>1. releases \in [Releases -> SUBSET Records] BY DEF IInv, TypeOK
  <2>2. \A r \in Releases : releases'[r] # releases[r] =>
            releases[r] = {} /\ releases'[r] = calls[c].ids
    BY <1>6, <2>1 DEF ReleaseWrites
  <2>3. TableMove BY <1>6, <2>2 DEF ReleaseWrites, TableMove
  <2> QED BY <1>2, <2>3
<1> QED BY <1>3, <1>4, <1>5, <1>6

LEMMA Moves ==
    ASSUME LearningAssumption, IInv, [Next]_vars
    PROVE  (\A d \in Callers : CallMove(d)) /\ TableMove
<1>1. ASSUME NEW c \in Callers, LocalNext(c) PROVE (\A d \in Callers : CallMove(d)) /\ TableMove
  <2>1. ASSUME NEW e \in Experiences, RecordModelExposure(c, e)
        PROVE  (\A d \in Callers : CallMove(d)) /\ TableMove
    BY <2>1, StartMoves DEF RecordModelExposure
  <2> QED BY <1>1, <2>1, StartMoves, ReadMoves, WriteMoves DEF LocalNext
<1>2. ASSUME NEW c \in Callers, GlobalNext(c) PROVE (\A d \in Callers : CallMove(d)) /\ TableMove
  BY <1>2, StartMoves, ReadMoves, WriteMoves DEF GlobalNext
<1>3. CASE UNCHANGED vars
  BY <1>3, SameCalls, StillTables DEF vars, local, global
<1> QED BY <1>1, <1>2, <1>3, GovernMoves, ReadMoves DEF Next

\* A release that is there, and the sources of its records, stay.
LEMMA SameReleased ==
    ASSUME LearningAssumption, IInv, TableMove, NEW e,
           \A c \in Callers : HasRead(c, "RELEASE") =>
                \A g \in calls[c].ids : source[g] # e
    PROVE  Released(e)' = Released(e)
<1>1. releases \in [Releases -> SUBSET Records] BY DEF IInv, TypeOK
<1>2. \A r \in Releases : \A g \in releases[r] : g \in Records /\ source'[g] = source[g]
  BY <1>1 DEF TableMove, IInv, ReleaseInv
<1>3. ASSUME NEW r \in Releases
      PROVE  (\E g \in releases'[r] : source'[g] = e) <=> (\E g \in releases[r] : source[g] = e)
  <2>1. CASE releases'[r] = releases[r] BY <1>2, <2>1
  <2>2. CASE releases'[r] # releases[r] BY <2>2 DEF TableMove
  <2> QED BY <2>1, <2>2
<1> QED BY <1>3 DEF Released

LEMMA RefusedStep ==
    ASSUME LearningAssumption, IInv, [Next]_vars, NEW e \in Experiences,
           e \in quarantined \/ overlap[e] = "FAILED", \A c \in Callers : ~Holds(c, e)
    PROVE  /\ \A c \in Callers : ~Holds(c, e)'
           /\ e \in trained' => e \in trained
           /\ \A g \in Records : source'[g] = e => source[g] = e
           /\ Released(e)' = Released(e)
<1>1. (\A c \in Callers : CallMove(c)) /\ TableMove BY Moves
<1>2. ~MayTrain(e) /\ ~MayPromote(e) BY DEF MayTrain, MayPromote, TrainingEligible
<1>3. \A g \in Records : source'[g] = e => source[g] = e
  BY <1>1 DEF TableMove, HasRead, Holds
<1>4. e \in trained' => e \in trained BY <1>1 DEF TableMove, HasRead, Holds
<1>5. ASSUME NEW c \in Callers PROVE ~Holds(c, e)'
  <2>1. CallMove(c) /\ CallSound(c) /\ calls[c] \in CallRecords
    BY <1>1 DEF IInv, CallInv, TypeOK
  <2>2. CASE calls'[c] = calls[c]
    <3>1. calls[c].op = "RELEASE" => calls[c].ids \subseteq Records BY <2>1 DEF CallSound
    <3> QED BY <1>3, <2>2, <3>1 DEF Holds
  <2>3. CASE calls'[c].op \in {"IDLE", "APPROVE"} BY <2>3 DEF Holds
  <2>4. CASE /\ calls'[c].op \in {"TRAIN", "PROMOTE"}
             /\ \A x \in calls'[c].ids \ calls'[c].left :
                    MayTrain(x) \/ (calls[c].op = "TRAIN" /\ x \in calls[c].ids \ calls[c].left)
    BY <1>2, <2>4 DEF Holds
  <2>5. CASE /\ calls'[c].op = "RELEASE" /\ source' = source
             /\ \A g \in calls'[c].ids \ (calls'[c].left \cup {calls'[c].half}) :
                /\ calls[c].op = "RELEASE"
                /\ MayPromote(source[g]) \/ g \in calls[c].ids \ (calls[c].left \cup {calls[c].half})
    BY <1>2, <2>5 DEF Holds
  <2> QED BY <2>1, <2>2, <2>3, <2>4, <2>5 DEF CallMove
<1>6. Released(e)' = Released(e)
  <2>1. \A c \in Callers : HasRead(c, "RELEASE") => \A g \in calls[c].ids : source[g] # e
    <3> SUFFICES ASSUME NEW c \in Callers, HasRead(c, "RELEASE"), NEW g \in calls[c].ids
                 PROVE  source[g] # e
      OBVIOUS
    <3>1. calls[c].ids \subseteq Records BY DEF IInv, CallInv, CallSound, HasRead
    <3>2. g # None BY <3>1 DEF LearningAssumption
    <3> QED BY <3>2 DEF HasRead, Holds
  <2> QED BY <1>1, <2>1, SameReleased
<1> QED BY <1>3, <1>4, <1>5, <1>6

LEMMA RejectedStep ==
    ASSUME LearningAssumption, IInv, [Next]_vars, NEW e \in Experiences,
           Rejected(e), e \notin eligible,
           \A c \in Callers : calls[c].op = "APPROVE" => e \notin calls[c].ids
    PROVE  /\ e \notin eligible'
           /\ \A c \in Callers : calls'[c].op = "APPROVE" => e \notin calls'[c].ids
<1>1. (\A c \in Callers : CallMove(c)) /\ TableMove BY Moves
<1>2. ~ReviewsPass(e) BY DEF ReviewsPass
<1>3. e \notin eligible' BY <1>1 DEF TableMove
<1>4. ASSUME NEW c \in Callers, calls'[c].op = "APPROVE" PROVE e \notin calls'[c].ids
  BY <1>1, <1>2, <1>4 DEF CallMove
<1> QED BY <1>3, <1>4

LEMMA WithdrawnStep ==
    ASSUME LearningAssumption, IInv, [Next]_vars, NEW w \in withdrawn
    PROVE  /\ source'[w] = source[w]
           /\ (\A c \in Callers : ~HoldsRecord(c, source[w])) =>
                /\ \A c \in Callers : ~HoldsRecord(c, source[w])'
                /\ Released(source[w])' = Released(source[w])
<1>1. (\A c \in Callers : CallMove(c)) /\ TableMove BY Moves
<1>2. w \in Records /\ source[w] # None BY DEF IInv, TypeOK, OneRecord
<1>3. source'[w] = source[w] BY <1>1, <1>2 DEF TableMove
<1>6. PICK e : e = source[w] OBVIOUS
<1>4. \A g \in Records : source'[g] = e => source[g] = e BY <1>1, <1>2, <1>6 DEF TableMove
<1>5. \A g \in Records : source[g] = e => ~MayRelease(g)
  BY <1>2, <1>6 DEF IInv, OneRecord, MayRelease
<1>7. ASSUME \A c \in Callers : ~HoldsRecord(c, e), NEW c \in Callers
      PROVE  ~(calls'[c].op = "RELEASE" /\
                \E g \in calls'[c].ids \ calls'[c].left : source'[g] = e)
  <2>1. CallMove(c) /\ CallSound(c) BY <1>1 DEF IInv, CallInv
  <2>2. CallSound(c)' BY Inductive DEF IInv, CallInv
  <2>3. calls'[c].op = "RELEASE" => calls'[c].ids \subseteq Records
    BY <2>2 DEF CallSound
  <2>4. ~HoldsRecord(c, e) BY <1>7
  <2> QED BY <1>4, <1>5, <2>1, <2>3, <2>4 DEF CallMove, HoldsRecord
<1>8. ASSUME \A c \in Callers : ~HoldsRecord(c, e) PROVE Released(e)' = Released(e)
  <2>1. \A c \in Callers : HasRead(c, "RELEASE") => \A g \in calls[c].ids : source[g] # e
    BY <1>8 DEF HasRead, HoldsRecord
  <2> QED BY <1>1, <2>1, SameReleased
<1>9. ASSUME \A c \in Callers : ~HoldsRecord(c, source[w])
      PROVE  /\ \A c \in Callers : ~HoldsRecord(c, source[w])'
             /\ Released(source[w])' = Released(source[w])
  <2>1. \A c \in Callers : ~HoldsRecord(c, e) BY <1>6, <1>9
  <2>2. source'[w] = e BY <1>3, <1>6
  <2>3. \A c \in Callers : ~HoldsRecord(c, source[w])'
    BY <1>7, <2>1, <2>2 DEF HoldsRecord
  <2>4. Released(e)' = Released(e) BY <1>8, <2>1
  <2>5. Released(source[w])' = Released(e)' BY <2>2 DEF Released
  <2> QED BY <1>6, <2>3, <2>4, <2>5
<1> QED BY <1>3, <1>9

-----------------------------------------------------------------------------
(* The theorems. *)

\* The tables of both stores and the calls keep their types.
THEOREM TypeCorrect == Spec => []TypeOK
BY Invariant, PTL DEF IInv

\* approve_training_eligibility, promote_local_experience and
\* create_global_training_release let only what was vetted train a model.
THEOREM Tracing == Spec => []UsesTraceToReviews
<1>1. IInv => UsesTraceToReviews
  <2> SUFFICES ASSUME IInv PROVE UsesTraceToReviews OBVIOUS
  <2>1. \A m \in Models : Registered(m) => models[m].release \in Releases
    BY DEF IInv, TypeOK, ModelRecords, Registered
  <2> QED BY <2>1 DEF IInv, EligibleInv, ReleaseInv, ModelInv, UsesTraceToReviews
<1> QED BY <1>1, Invariant, PTL

\* Quarantine, a failed overlap check and a rejection are final for every call of
\* approve_training_eligibility, create_training_release, promote_local_experience
\* and create_global_training_release that had not found the experience good before.
THEOREM RefusalsLast == Spec => RefusalIsFinal
<1> DEFINE A == \A e \in Experiences :
        /\ (e \in quarantined \/ overlap[e] = "FAILED") /\ (\A c \in Callers : ~Holds(c, e)) =>
            /\ \A c \in Callers : ~Holds(c, e)'
            /\ e \in trained' => e \in trained
            /\ \A g \in Records : source'[g] = e => source[g] = e
            /\ Released(e)' = Released(e)
        /\ /\ Rejected(e) /\ e \notin eligible
           /\ \A c \in Callers : calls[c].op = "APPROVE" => e \notin calls[c].ids
           => /\ e \notin eligible'
              /\ \A c \in Callers : calls'[c].op = "APPROVE" => e \notin calls'[c].ids
<1>1. IInv /\ [Next]_vars => [A]_vars
  <2> SUFFICES ASSUME IInv, [Next]_vars PROVE A OBVIOUS
  <2> SUFFICES ASSUME NEW e \in Experiences
               PROVE  /\ (e \in quarantined \/ overlap[e] = "FAILED")
                            /\ (\A c \in Callers : ~Holds(c, e)) =>
                          /\ \A c \in Callers : ~Holds(c, e)'
                          /\ e \in trained' => e \in trained
                          /\ \A g \in Records : source'[g] = e => source[g] = e
                          /\ Released(e)' = Released(e)
                      /\ /\ Rejected(e) /\ e \notin eligible
                         /\ \A c \in Callers : calls[c].op = "APPROVE" => e \notin calls[c].ids
                         => /\ e \notin eligible'
                            /\ \A c \in Callers : calls'[c].op = "APPROVE" => e \notin calls'[c].ids
    OBVIOUS
  <2>1. LearningAssumption BY LearningAssumption
  <2> QED BY <2>1, RefusedStep, RejectedStep
<1> QED BY <1>1, Invariant, PTL DEF Spec, RefusalIsFinal

\* The UNIQUE source commitment of actionnet_global_records: what a withdrawn record
\* was made of is not released by another record.
THEOREM WithdrawalsLast == Spec => WithdrawalIsFinal
<1> DEFINE A == \A g \in withdrawn : LET e == source[g] IN
        /\ source'[g] = e
        /\ (\A c \in Callers : ~HoldsRecord(c, e)) =>
            /\ \A c \in Callers : ~HoldsRecord(c, e)'
            /\ Released(e)' = Released(e)
<1>1. IInv /\ [Next]_vars => [A]_vars
  <2> SUFFICES ASSUME IInv, [Next]_vars PROVE A OBVIOUS
  <2>1. LearningAssumption BY LearningAssumption
  <2> QED BY <2>1, WithdrawnStep
<1> QED BY <1>1, Invariant, PTL DEF Spec, WithdrawalIsFinal

=============================================================================
