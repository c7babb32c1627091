--------------------------- MODULE ControlPlane_proofs ---------------------------
(***************************************************************************)
(* Proofs about ControlPlane, for any scopes, values, observations,        *)
(* proposals, commands and clients.  Rows are inserted once; what a call   *)
(* has read can be found in the tables for as long as the call lasts.      *)
(***************************************************************************)
EXTENDS ControlPlane, TLAPS

\* What a call under way relies on.
CallSound(c) ==
    /\ call[c].op = "PROPOSE" => Had(call[c].scope, call[c].seen.version, call[c].seen.value)
    /\ call[c].op \in {"REVIEW", "STATE"} => proposal[call[c].about] # NoProposal
    /\ call[c].op = "STATE" =>
           Had(call[c].scope, call[c].seen.version, proposal[call[c].about].value)
    /\ call[c].op = "TRANSITION" => command[call[c].about] # NoCommand
CallInv == \A c \in Clients : CallSound(c)

IInv ==
    /\ TypeOK /\ StateIsContiguous /\ CallInv
    /\ DecisionsAreGrounded /\ ReviewStandsWhole
    /\ CommandsAreAuthorized /\ TransitionsExplainStatus

-----------------------------------------------------------------------------
(* What the tables hold. *)

LEMMA CallTypes ==
    ASSUME TypeOK, NEW c \in Clients
    PROVE  /\ call[c] \in CallRecords
           /\ call[c].op \in {"PROPOSE", "REVIEW", "STATE"} =>
                  /\ call[c].about \in Proposals /\ call[c].scope \in Scopes
                  /\ call[c].seen \in Seen /\ call[c].read = "NONE"
           /\ call[c].op = "TRANSITION" =>
                  call[c].about \in Commands /\ call[c].read \in Statuses
BY DEF TypeOK, CallRecords

\* A row is not the one that stands for none.
LEMMA RowsAreRows ==
    /\ NoDecision \notin DecisionRows
    /\ \A r \in ProposalRows : r # NoProposal
    /\ \A r \in [by : Clients, approved : BOOLEAN] : r # NoReview
    /\ \A r \in [by : Clients, scope : Scopes, version : Nat, disposition : Dispositions] :
           r # NoEvent
    /\ \A r \in CommandRows : r # NoCommand
<1>1. "NONE" \notin Dispositions
  BY DEF Dispositions
<1>2. \A r \in DecisionRows : r.disposition \in Dispositions
  BY DEF DecisionRows
<1>3. NoDecision \notin DecisionRows
  BY <1>1, <1>2 DEF NoDecision
<1>4. \A r \in ProposalRows : r # NoProposal
  BY ControlPlaneAssumption DEF ProposalRows, NoProposal
<1>5. \A r \in [by : Clients, approved : BOOLEAN] : r # NoReview
  BY ControlPlaneAssumption DEF NoReview
<1>6. \A r \in [by : Clients, scope : Scopes, version : Nat, disposition : Dispositions] :
          r # NoEvent
  BY ControlPlaneAssumption DEF NoEvent
<1>7. \A r \in CommandRows : r # NoCommand
  BY ControlPlaneAssumption DEF CommandRows, NoCommand
<1> QED
  BY <1>3, <1>4, <1>5, <1>6, <1>7

\* The journal replays to a state that the scope has, and where an observation can be
\* stored to the version of its row, with no version missing or passed over.
LEMMA Replay ==
    ASSUME TypeOK, StateIsContiguous, NEW s \in Scopes
    PROVE  /\ State(s) \in Seen
           /\ Had(s, State(s).version, State(s).value)
           /\ Storable(s) => snapshot[s] = State(s).version
           /\ Storable(s) => \A r \in projected[s] : r.value # Odd
           /\ Storable(s) => \A v \in 1..snapshot[s] : \E r \in projected[s] : r.version = v
<1>1. /\ projected[s] \subseteq Rows
      /\ snapshot[s] \in Nat
      /\ \A r, q \in projected[s] : r.version = q.version => r = q
      /\ \A r \in projected[s] : /\ r.version =< snapshot[s]
                                 /\ r.value = Odd => r.version = snapshot[s]
      /\ \A v \in 1..snapshot[s] : v # snapshot[s] => \E r \in projected[s] : r.version = v
  BY DEF TypeOK, StateIsContiguous
<1>2. \A r \in Accepted(s) : r \in projected[s] /\ r \in Seen /\ r.version > 0
  BY <1>1 DEF Accepted, Rows, Seen
<1>3. CASE Accepted(s) = {}
  <2>1. State(s) = Unmoved
    BY <1>3 DEF State
  <2>2. Unmoved \in Seen /\ Unmoved.version = 0 /\ Unmoved.value = Base
    BY ControlPlaneAssumption DEF Unmoved, Seen
  <2>3. snapshot[s] = 0 => projected[s] = {}
    BY <1>1 DEF Rows
  <2> QED
    BY <2>1, <2>2, <2>3 DEF Had, Storable
<1>4. CASE Accepted(s) # {}
  <2>1. \E r \in Accepted(s) : \A q \in Accepted(s) : q.version =< r.version
    <3>1. PICK a \in Accepted(s) : TRUE
      BY <1>4
    <3>2. a \in projected[s] /\ a.version \in Nat /\ a.version > 0 /\ a.version =< snapshot[s]
      BY <1>1, <1>2, <3>1 DEF Rows
    <3>3. CASE \E u \in Accepted(s) : u.version = snapshot[s]
      BY <1>1, <1>2, <3>3
    <3>4. CASE \A r \in Accepted(s) : r.version # snapshot[s]
      <4>1. /\ a.version =< snapshot[s] - 1
            /\ snapshot[s] - 1 \in 1..snapshot[s] /\ snapshot[s] - 1 # snapshot[s]
        BY <1>1, <3>1, <3>2, <3>4
      <4>2. PICK u \in projected[s] : u.version = snapshot[s] - 1
        BY <1>1, <4>1
      <4>3. u \in Accepted(s)
        BY <1>1, <4>1, <4>2 DEF Accepted
      <4>4. \A r \in Accepted(s) : r.version \in Nat /\ r.version =< snapshot[s] - 1
        BY <1>1, <1>2, <3>4 DEF Rows
      <4> QED
        BY <4>2, <4>3, <4>4
    <3> QED
      BY <3>3, <3>4
  <2>2. State(s) \in Accepted(s)
    BY <1>4, <2>1 DEF State
  <2>3. State(s) \in Seen /\ State(s) \in projected[s] /\ State(s).version > 0
    BY <1>2, <2>2
  <2>4. State(s) = [version |-> State(s).version, value |-> State(s).value]
    BY <2>3 DEF Seen
  <2>5. Had(s, State(s).version, State(s).value)
    BY <2>3, <2>4 DEF Had
  <2>6. snapshot[s] # 0
    BY <1>1, <2>3 DEF Seen
  <2>7. State(s).value # Odd
    BY <2>2 DEF Accepted
  <2> QED
    BY <1>1, <2>3, <2>5, <2>6, <2>7 DEF Storable
<1> QED
  BY <1>3, <1>4

\* A journal that grows keeps what a scope had.
LEMMA HadStays ==
    ASSUME NEW s \in Scopes, projected[s] \subseteq projected'[s], NEW v, NEW x, Had(s, v, x)
    PROVE  Had(s, v, x)'
BY DEF Had

LEMMA MovesAdded ==
    ASSUME NEW j, NEW k, NEW f, NEW t,
           transitions' = transitions \cup {[command |-> k, from |-> f, to |-> t]}
    PROVE  /\ j = k => Moves(j)' = Moves(j) \cup {<<f, t>>}
           /\ j # k => Moves(j)' = Moves(j)
<1> DEFINE row == [command |-> k, from |-> f, to |-> t]
<1>1. row.command = k /\ row.from = f /\ row.to = t
  OBVIOUS
<1>2. \A u : u \in transitions' <=> u \in transitions \/ u = row
  OBVIOUS
<1> HIDE DEF row
<1>3. \A m : m \in Moves(j)' <=> \E u \in transitions' : u.command = j /\ m = <<u.from, u.to>>
  BY DEF Moves
<1>4. \A m : m \in Moves(j) <=> \E u \in transitions : u.command = j /\ m = <<u.from, u.to>>
  BY DEF Moves
<1>5. ASSUME j = k PROVE Moves(j)' = Moves(j) \cup {<<f, t>>}
  <2>1. \A m : m \in Moves(j)' <=> m \in Moves(j) \/ m = <<f, t>>
    BY <1>1, <1>2, <1>3, <1>4, <1>5
  <2> QED
    BY <2>1
<1>6. ASSUME j # k PROVE Moves(j)' = Moves(j)
  <2>1. \A m : m \in Moves(j)' <=> m \in Moves(j)
    BY <1>1, <1>2, <1>3, <1>4, <1>6
  <2> QED
    BY <2>1
<1> QED
  BY <1>5, <1>6

-----------------------------------------------------------------------------
(* What a step that leaves a part of the state alone preserves. *)

LEMMA Frames ==
    ASSUME IInv
    PROVE  /\ UNCHANGED observed => StateIsContiguous'
           /\ UNCHANGED <<observed, proposed, decided>> => DecisionsAreGrounded'
           /\ UNCHANGED <<proposed, decided>> => ReviewStandsWhole'
           /\ UNCHANGED <<decided, executed>> => CommandsAreAuthorized'
           /\ UNCHANGED executed => TransitionsExplainStatus'
<1>1. UNCHANGED observed => StateIsContiguous'
  BY DEF IInv, observed, StateIsContiguous
<1>2. UNCHANGED <<observed, proposed, decided>> => DecisionsAreGrounded'
  BY DEF IInv, observed, proposed, decided, DecisionsAreGrounded, Had
<1>3. UNCHANGED <<proposed, decided>> => ReviewStandsWhole'
  BY DEF IInv, proposed, decided, ReviewStandsWhole
<1>4. UNCHANGED <<decided, executed>> => CommandsAreAuthorized'
  BY DEF IInv, decided, executed, CommandsAreAuthorized
<1>5. UNCHANGED executed => TransitionsExplainStatus'
  BY DEF IInv, executed, TransitionsExplainStatus, Moves
<1> QED
  BY <1>1, <1>2, <1>3, <1>4, <1>5

\* Whatever is inserted, a call that does not move keeps what it relies on.
LEMMA CallStays ==
    ASSUME TypeOK, NEW c \in Clients, CallSound(c), call'[c] = call[c],
           \A s \in Scopes : projected[s] \subseteq projected'[s],
           \A p \in Proposals : proposal[p] # NoProposal => proposal'[p] = proposal[p],
           \A k \in Commands : command[k] # NoCommand => command'[k] # NoCommand
    PROVE  CallSound(c)'
BY CallTypes DEF CallSound, Had

LEMMA CallsStay ==
    ASSUME TypeOK, CallInv, NEW c \in Clients, NEW x,
           call' = [call EXCEPT ![c] = x], CallSound(c)',
           \A s \in Scopes : projected[s] \subseteq projected'[s],
           \A p \in Proposals : proposal[p] # NoProposal => proposal'[p] = proposal[p],
           \A k \in Commands : command[k] # NoCommand => command'[k] # NoCommand
    PROVE  CallInv'
<1>1. \A d \in Clients : d # c => call'[d] = call[d]
  BY DEF TypeOK
<1>2. ASSUME NEW d \in Clients, d # c PROVE CallSound(d)'
  BY <1>1, <1>2, CallStays DEF CallInv
<1> QED
  BY <1>2 DEF CallInv

LEMMA IdleIsSound ==
    ASSUME TypeOK, NEW c \in Clients, Ends(c)
    PROVE  CallSound(c)' /\ call' \in [Clients -> CallRecords]
<1>1. call'[c] = Idle
  BY DEF Ends, TypeOK
<1>2. Idle \in CallRecords /\ Idle.op = "IDLE"
  BY DEF Idle, CallRecords
<1> QED
  BY <1>1, <1>2 DEF CallSound, Ends, TypeOK

-----------------------------------------------------------------------------
(* Observations. *)

LEMMA SubmitEventSafe ==
    ASSUME IInv, NEW e \in Events, NEW s \in Scopes, NEW v \in Values \cup {Odd},
           SubmitEvent(e, s, v)
    PROVE  IInv'
<1> DEFINE n == snapshot[s] + 1
           row == [version |-> n, value |-> v]
<1>0. TypeOK /\ StateIsContiguous /\ snapshot[s] \in Nat
  BY DEF IInv, TypeOK
<1>1. /\ snapshot[s] = State(s).version
      /\ \A r \in projected[s] : r.value # Odd
      /\ \A w \in 1..snapshot[s] : \E r \in projected[s] : r.version = w
  BY <1>0, Replay DEF SubmitEvent
<1>2. /\ \/ projected' = [projected EXCEPT ![s] = @ \cup {row}]
         \/ ProjectedId[e] \in received /\ projected' = projected
      /\ snapshot' = [snapshot EXCEPT ![s] = n]
      /\ received \subseteq received' /\ admitted' = admitted \cup {<<e, s>>}
      /\ UNCHANGED <<proposed, decided, executed, call>>
  BY <1>1 DEF SubmitEvent, Project
<1>3. /\ \/ projected'[s] = projected[s] \cup {row}
         \/ ProjectedId[e] \in received /\ projected'[s] = projected[s]
      /\ snapshot'[s] = n
      /\ \A z \in Scopes : z # s => projected'[z] = projected[z] /\ snapshot'[z] = snapshot[z]
  BY <1>0, <1>2 DEF TypeOK
<1>4. row \in Rows /\ row.version = n /\ row.value = v /\ n \in Nat
  BY <1>0 DEF Rows
<1> HIDE DEF row
<1>5. TypeOK'
  <2>1. projected' \in [Scopes -> SUBSET Rows] /\ snapshot' \in [Scopes -> Nat]
    BY <1>0, <1>2, <1>4 DEF TypeOK
  <2>2. /\ received' \subseteq Events /\ admitted' \subseteq Events \X Scopes
        /\ derived' \subseteq Events \cup {None}
    BY <1>0, ControlPlaneAssumption DEF TypeOK, SubmitEvent, Project
  <2> QED
    BY <1>0, <1>2, <2>1, <2>2 DEF TypeOK, proposed, decided, executed
<1>6. StateIsContiguous'
  <2> DEFINE Taken(z) == \E a \in admitted : a[2] = z /\ ProjectedId[a[1]] \in received
  <2>1. ASSUME NEW z \in Scopes
        PROVE  /\ \A r, q \in projected'[z] : r.version = q.version => r = q
               /\ \A r \in projected'[z] : /\ r.version =< snapshot'[z]
                                           /\ r.value = Odd => r.version = snapshot'[z]
               /\ \A w \in 1..snapshot'[z] :
                      \/ \E r \in projected'[z] : r.version = w
                      \/ w = snapshot'[z] /\ Taken(z)'
    <3>1. CASE z # s
      BY <1>0, <1>2, <1>3, <3>1 DEF StateIsContiguous
    <3>2. CASE z = s
      <4>1. \A r \in projected[s] : r.version \in Nat /\ r.version =< snapshot[s]
        BY <1>0 DEF TypeOK, Rows, StateIsContiguous
      <4>2. \A r, q \in projected'[s] : r.version = q.version => r = q
        BY <1>0, <1>3, <1>4, <4>1 DEF StateIsContiguous
      <4>3. \A r \in projected'[s] : /\ r.version =< snapshot'[s]
                                     /\ r.value = Odd => r.version = snapshot'[s]
        BY <1>0, <1>1, <1>3, <1>4, <4>1
      <4>4. \A w \in 1..snapshot'[s] :
                \/ \E r \in projected'[s] : r.version = w
                \/ w = snapshot'[s] /\ Taken(s)'
        <5> SUFFICES ASSUME NEW w \in 1..n
                     PROVE  \/ \E r \in projected'[s] : r.version = w
                            \/ w = n /\ Taken(s)'
          BY <1>3
        <5>1. CASE w \in 1..snapshot[s]
          BY <1>1, <1>3, <5>1
        <5>2. CASE w = n /\ row \in projected'[s]
          BY <1>4, <5>2
        <5>3. CASE w = n /\ ProjectedId[e] \in received
          <6>1. <<e, s>> \in admitted' /\ ProjectedId[e] \in received'
            BY <1>2, <5>3
          <6> QED
            BY <5>3, <6>1
        <5> QED
          BY <1>0, <1>3, <5>1, <5>2, <5>3
      <4> QED
        BY <3>2, <4>2, <4>3, <4>4
    <3> QED
      BY <3>1, <3>2
  <2> QED
    BY <2>1 DEF StateIsContiguous
<1>7. \A z \in Scopes : projected[z] \subseteq projected'[z]
  BY <1>3
<1>8. CallInv'
  <2>1. UNCHANGED <<proposal, command, call>>
    BY <1>2 DEF proposed, executed
  <2>2. ASSUME NEW c \in Clients PROVE CallSound(c)'
    BY <1>0, <1>7, <2>1, CallStays DEF IInv, CallInv
  <2> QED
    BY <2>2 DEF CallInv
<1>9. DecisionsAreGrounded'
  <2>1. ASSUME NEW p \in Proposals, proposal[p] # NoProposal PROVE proposal[p].scope \in Scopes
    BY <1>0, <2>1 DEF TypeOK, ProposalRows
  <2>2. ASSUME NEW p \in Proposals, reviewed[p] # NoDecision PROVE authorized[p].scope \in Scopes
    BY <1>0, <2>2 DEF IInv, TypeOK, ReviewStandsWhole
  <2> QED
    BY <1>2, <1>7, <2>1, <2>2 DEF IInv, DecisionsAreGrounded, Had, proposed, decided
<1> QED
  BY <1>2, <1>5, <1>6, <1>8, <1>9, Frames DEF IInv

LEMMA SetAsideSafe ==
    ASSUME IInv, NEW e \in Events, SetAside(e)
    PROVE  IInv'
<1>1. TypeOK'
  BY DEF IInv, TypeOK, SetAside, proposed, decided, executed
<1>2. StateIsContiguous' /\ DecisionsAreGrounded'
  BY DEF IInv, SetAside, StateIsContiguous, DecisionsAreGrounded, Had, proposed, decided
<1>3. CallInv'
  BY DEF IInv, SetAside, CallInv, CallSound, Had, proposed, executed
<1> QED
  BY <1>1, <1>2, <1>3, Frames DEF IInv, SetAside

-----------------------------------------------------------------------------
(* Proposals. *)

LEMMA OpenProposalSafe ==
    ASSUME IInv, NEW c \in Clients, NEW p \in Proposals, NEW s \in Scopes, OpenProposal(c, p, s)
    PROVE  IInv'
<1> DEFINE request == [Idle EXCEPT !.op = "PROPOSE", !.about = p, !.scope = s, !.seen = State(s)]
<1>0. TypeOK /\ StateIsContiguous /\ CallInv
  BY DEF IInv
<1>1. State(s) \in Seen /\ Had(s, State(s).version, State(s).value)
  BY <1>0, Replay
<1>2. call' = [call EXCEPT ![c] = request] /\ UNCHANGED <<observed, proposed, decided, executed>>
  BY DEF OpenProposal, Starts
<1>3. /\ request \in CallRecords
      /\ request.op = "PROPOSE" /\ request.scope = s /\ request.seen = State(s)
  BY <1>1 DEF Idle, CallRecords
<1> HIDE DEF request
<1>4. call'[c] = request
  BY <1>0, <1>2 DEF TypeOK
<1>5. TypeOK'
  BY <1>0, <1>2, <1>3 DEF TypeOK, observed, proposed, decided, executed
<1>6. CallSound(c)'
  BY <1>1, <1>2, <1>3, <1>4 DEF CallSound, Had, observed
<1>7. CallInv'
  <2>1. UNCHANGED <<projected, proposal, command>>
    BY <1>2 DEF observed, proposed, executed
  <2> QED
    BY <1>0, <1>2, <1>6, <2>1, CallsStay
<1> QED
  BY <1>2, <1>5, <1>7, Frames DEF IInv

LEMMA PutProposalSafe ==
    ASSUME IInv, NEW c \in Clients, NEW sound \in BOOLEAN, NEW stamp \in Stamps,
           PutProposal(c, sound, stamp)
    PROVE  IInv'
<1> DEFINE p == call[c].about
           row == [scope |-> call[c].scope, version |-> call[c].seen.version,
                   value |-> call[c].seen.value, sound |-> sound]
           decision == [disposition |-> Initially(sound), version |-> call[c].seen.version,
                        stamp |-> stamp]
<1>0. TypeOK /\ CallInv /\ ReviewStandsWhole /\ DecisionsAreGrounded
  BY DEF IInv
<1>1. call[c].op = "PROPOSE" /\ p \in Proposals /\ call[c].scope \in Scopes /\ call[c].seen \in Seen
  BY <1>0, CallTypes DEF PutProposal
<1>2. Had(call[c].scope, call[c].seen.version, call[c].seen.value)
  BY <1>0, <1>1 DEF CallInv, CallSound
<1>3. row \in ProposalRows /\ decision \in DecisionRows /\ decision.disposition # "ALLOW"
  BY <1>1 DEF ProposalRows, DecisionRows, Seen, Initially, Dispositions
<1>4. /\ row.scope = call[c].scope /\ row.version = call[c].seen.version
      /\ row.value = call[c].seen.value
  OBVIOUS
<1>5. /\ proposal' = [proposal EXCEPT ![p] = Kept(@, NoProposal, row)]
      /\ initial' = [initial EXCEPT ![p] = Kept(@, NoDecision, decision)]
      /\ Ends(c) /\ UNCHANGED <<observed, decided, executed>>
  BY DEF PutProposal
<1> HIDE DEF row, decision, p
<1>6. row # NoProposal /\ decision # NoDecision
  BY <1>3, RowsAreRows
<1>7. CASE proposal[p] # NoProposal
  <2>1. initial[p] # NoDecision
    BY <1>0, <1>1, <1>7 DEF ReviewStandsWhole
  <2>2. UNCHANGED <<proposed>>
    BY <1>0, <1>5, <1>7, <2>1 DEF Kept, proposed, TypeOK
  <2>3. TypeOK'
    BY <1>0, <1>5, <2>2, IdleIsSound DEF TypeOK, observed, proposed, decided, executed
  <2>4. CallInv'
    <3>1. UNCHANGED <<projected, proposal, command>>
      BY <1>5, <2>2 DEF observed, proposed, executed
    <3> QED
      BY <1>0, <1>5, <3>1, IdleIsSound, CallsStay DEF Ends
  <2> QED
    BY <1>5, <2>2, <2>3, <2>4, Frames DEF IInv
<1>8. CASE proposal[p] = NoProposal
  <2>1. initial[p] = NoDecision /\ reviewed[p] = NoDecision
    BY <1>0, <1>1, <1>8 DEF ReviewStandsWhole
  <2>2. /\ proposal' = [proposal EXCEPT ![p] = row] /\ initial' = [initial EXCEPT ![p] = decision]
    BY <1>5, <1>8, <2>1 DEF Kept
  <2>3. /\ proposal'[p] = row /\ initial'[p] = decision
        /\ \A q \in Proposals : q # p => proposal'[q] = proposal[q] /\ initial'[q] = initial[q]
    BY <1>0, <1>1, <2>2 DEF TypeOK
  <2>4. TypeOK'
    <3>1. proposal' \in [Proposals -> ProposalRows \cup {NoProposal}]
      BY <1>0, <1>3, <2>2 DEF TypeOK
    <3>2. initial' \in [Proposals -> DecisionRows \cup {NoDecision}]
      BY <1>0, <1>3, <2>2 DEF TypeOK
    <3> QED
      BY <1>0, <1>5, <3>1, <3>2, IdleIsSound DEF TypeOK, observed, decided, executed
  <2>5. CallInv'
    <3>1. UNCHANGED <<projected, command>>
      BY <1>5 DEF observed, executed
    <3>2. \A q \in Proposals : proposal[q] # NoProposal => proposal'[q] = proposal[q]
      BY <1>8, <2>3
    <3> QED
      BY <1>0, <1>5, <3>1, <3>2, IdleIsSound, CallsStay DEF Ends
  <2>6. ReviewStandsWhole'
    <3>1. UNCHANGED <<reviewed, review, authorized, record>>
      BY <1>5 DEF decided
    <3> QED
      BY <1>0, <1>6, <2>1, <2>3, <3>1 DEF ReviewStandsWhole
  <2>7. DecisionsAreGrounded'
    <3>1. UNCHANGED <<reviewed, review, authorized, projected>>
      BY <1>5 DEF decided, observed
    <3>2. ASSUME NEW q \in Proposals
          PROVE  /\ proposal'[q] # NoProposal =>
                        Had(proposal[q].scope, proposal[q].version, proposal[q].value)'
                 /\ reviewed'[q] # NoDecision =>
                        /\ Had(authorized[q].scope, authorized[q].version, proposal[q].value)'
                        /\ reviewed'[q].version = authorized'[q].version
                 /\ initial'[q].disposition # "ALLOW"
                 /\ reviewed'[q].disposition = "ALLOW" =>
                        review'[q].approved /\ proposal'[q].sound
      <4>1. CASE q = p
        <5>1. initial'[q].disposition # "ALLOW" /\ reviewed'[q].disposition # "ALLOW"
          BY <1>3, <2>1, <2>3, <3>1, <4>1 DEF NoDecision
        <5> QED
          BY <1>2, <1>4, <2>1, <2>3, <3>1, <4>1, <5>1 DEF Had
      <4>2. CASE q # p
        BY <1>0, <2>3, <3>1, <4>2 DEF DecisionsAreGrounded, Had
      <4> QED
        BY <4>1, <4>2
    <3> QED
      BY <3>2 DEF DecisionsAreGrounded
  <2> QED
    BY <1>5, <2>4, <2>5, <2>6, <2>7, Frames DEF IInv
<1> QED
  BY <1>7, <1>8

-----------------------------------------------------------------------------
(* Reviews. *)

LEMMA OpenReviewSafe ==
    ASSUME IInv, NEW c \in Clients, NEW p \in Proposals, NEW s \in Scopes, OpenReview(c, p, s)
    PROVE  IInv'
<1> DEFINE request == [Idle EXCEPT !.op = "REVIEW", !.about = p, !.scope = s]
<1>0. TypeOK /\ CallInv
  BY DEF IInv
<1>1. /\ call' = [call EXCEPT ![c] = request] /\ UNCHANGED <<observed, proposed, decided, executed>>
      /\ proposal[p] # NoProposal
  BY DEF OpenReview, Starts
<1>2. Unmoved \in Seen
  BY ControlPlaneAssumption DEF Unmoved, Seen
<1>3. request \in CallRecords /\ request.op = "REVIEW" /\ request.about = p
  BY <1>2 DEF Idle, CallRecords
<1> HIDE DEF request
<1>4. call'[c] = request
  BY <1>0, <1>1 DEF TypeOK
<1>5. TypeOK'
  BY <1>0, <1>1, <1>3 DEF TypeOK, observed, proposed, decided, executed
<1>6. UNCHANGED <<projected, proposal, command>>
  BY <1>1 DEF observed, proposed, executed
<1>7. CallSound(c)'
  BY <1>1, <1>3, <1>4, <1>6 DEF CallSound
<1>8. CallInv'
  BY <1>0, <1>1, <1>6, <1>7, CallsStay
<1> QED
  BY <1>1, <1>5, <1>8, Frames DEF IInv

LEMMA ReadStateSafe ==
    ASSUME IInv, NEW c \in Clients, ReadState(c)
    PROVE  IInv'
<1> DEFINE s == call[c].scope
           request == [call[c] EXCEPT !.op = "STATE", !.seen = State(s)]
<1>0. TypeOK /\ CallInv /\ StateIsContiguous
  BY DEF IInv
<1>1. /\ call[c].op = "REVIEW" /\ State(s).value = proposal[call[c].about].value
      /\ UNCHANGED <<observed, proposed, decided, executed>>
  BY DEF ReadState
<1>2. call[c].about \in Proposals /\ s \in Scopes /\ call[c].read = "NONE" /\ call[c] \in CallRecords
  BY <1>0, <1>1, CallTypes
<1>3. State(s) \in Seen /\ Had(s, State(s).version, State(s).value)
  BY <1>0, <1>2, Replay
<1>4. call' = [call EXCEPT ![c] = request]
  BY <1>0 DEF ReadState, TypeOK
<1>5. /\ request \in CallRecords /\ request.op = "STATE" /\ request.about = call[c].about
      /\ request.scope = s /\ request.seen = State(s)
  BY <1>1, <1>2, <1>3 DEF CallRecords
<1>6. call'[c] = request
  BY <1>0, <1>4 DEF TypeOK
<1>7. proposal[call[c].about] # NoProposal
  BY <1>0, <1>1 DEF CallInv, CallSound
<1> HIDE DEF request, s
<1>8. TypeOK'
  BY <1>0, <1>1, <1>4, <1>5 DEF TypeOK, observed, proposed, decided, executed
<1>9. UNCHANGED <<projected, proposal, command>>
  BY <1>1 DEF observed, proposed, executed
<1>10. CallSound(c)'
  BY <1>1, <1>3, <1>5, <1>6, <1>7, <1>9 DEF CallSound, Had
<1>11. CallInv'
  BY <1>0, <1>4, <1>9, <1>10, CallsStay
<1> QED
  BY <1>1, <1>8, <1>11, Frames DEF IInv

LEMMA PutReviewSafe ==
    ASSUME IInv, NEW c \in Clients, NEW approved \in BOOLEAN, NEW covered \in BOOLEAN,
           NEW stamp \in Stamps, PutReview(c, approved, covered, stamp)
    PROVE  IInv'
<1> DEFINE p == call[c].about
           disposition == Reevaluated(proposal[p].sound, approved, covered)
           decision == [disposition |-> disposition, version |-> call[c].seen.version,
                        stamp |-> stamp]
           row == [by |-> c, approved |-> approved]
           event == [by |-> c, scope |-> call[c].scope, version |-> call[c].seen.version,
                     disposition |-> disposition]
<1>0. /\ TypeOK /\ CallInv /\ ReviewStandsWhole /\ DecisionsAreGrounded
      /\ CommandsAreAuthorized
  BY DEF IInv
<1>1. call[c].op = "STATE" /\ p \in Proposals /\ call[c].scope \in Scopes /\ call[c].seen \in Seen
  BY <1>0, CallTypes DEF PutReview
<1>2. /\ proposal[p] # NoProposal /\ proposal[p].sound \in BOOLEAN
      /\ Had(call[c].scope, call[c].seen.version, proposal[p].value)
  BY <1>0, <1>1 DEF CallInv, CallSound, TypeOK, ProposalRows, NoProposal
<1>3. /\ disposition \in Dispositions
      /\ disposition = "ALLOW" => approved /\ proposal[p].sound
  BY <1>2 DEF Reevaluated, Dispositions
<1>4. /\ decision \in DecisionRows /\ decision.disposition = disposition
      /\ decision.version = call[c].seen.version
      /\ row \in [by : Clients, approved : BOOLEAN] /\ row.by = c /\ row.approved = approved
      /\ event \in [by : Clients, scope : Scopes, version : Nat, disposition : Dispositions]
      /\ event.by = c /\ event.disposition = disposition /\ event.scope = call[c].scope
      /\ event.version = call[c].seen.version
  BY <1>1, <1>3 DEF DecisionRows, Seen
<1>5. /\ reviewed' = [reviewed EXCEPT ![p] = Kept(@, NoDecision, decision)]
      /\ review' = [review EXCEPT ![p] = Kept(@, NoReview, row)]
      /\ authorized' = [authorized EXCEPT ![p] = Kept(@, NoEvent, event)]
      /\ record' = [record EXCEPT ![c][p] = Kept(@, NoDecision, decision)]
      /\ Ends(c) /\ UNCHANGED <<observed, proposed, executed>>
  <2>1. Stored(p, decision) = Kept(reviewed[p], NoDecision, decision)
    BY DEF Stored
  <2> QED
    BY <1>0, <1>1, <2>1 DEF PutReview, TypeOK
<1> HIDE DEF decision, row, event, disposition, p
<1>6. decision # NoDecision /\ row # NoReview /\ event # NoEvent
  BY <1>4, RowsAreRows
<1>7. record' \in [Clients -> [Proposals -> DecisionRows \cup {NoDecision}]]
  BY <1>0, <1>1, <1>4, <1>5 DEF TypeOK, Kept
<1>8. /\ record'[c][p] = IF record[c][p] = NoDecision THEN decision ELSE record[c][p]
      /\ \A q \in Proposals : q # p => record'[c][q] = record[c][q]
      /\ \A d \in Clients : d # c => record'[d] = record[d]
  BY <1>0, <1>1, <1>5 DEF TypeOK, Kept
<1>9. UNCHANGED <<projected, proposal, initial, command, requested, transitions>>
  BY <1>5 DEF observed, proposed, executed
<1>10. CallInv'
  BY <1>0, <1>5, <1>9, IdleIsSound, CallsStay DEF Ends
<1>11. CASE reviewed[p] # NoDecision
  <2>1. review[p] # NoReview /\ authorized[p] # NoEvent
    BY <1>0, <1>1, <1>11 DEF ReviewStandsWhole
  <2>2. UNCHANGED <<reviewed, review, authorized>>
    BY <1>0, <1>5, <1>11, <2>1 DEF Kept, TypeOK
  <2>3. TypeOK'
    BY <1>0, <1>5, <1>7, <2>2, IdleIsSound DEF TypeOK, observed, proposed, executed
  <2>4. ReviewStandsWhole'
    <3>1. ASSUME NEW q \in Proposals, reviewed[q] # NoDecision
          PROVE  record'[review[q].by][q] = reviewed[q]
      <4>1. review[q].by \in Clients /\ record[review[q].by][q] = reviewed[q]
        BY <1>0, <3>1 DEF ReviewStandsWhole, TypeOK
      <4> QED
        BY <1>8, <3>1, <4>1
    <3>2. ASSUME NEW q \in Proposals, NEW d \in Clients, record'[d][q] # NoDecision
          PROVE  reviewed[q] # NoDecision
      BY <1>0, <1>8, <1>11, <3>2 DEF ReviewStandsWhole
    <3> QED
      BY <1>0, <1>9, <2>2, <3>1, <3>2 DEF ReviewStandsWhole
  <2>5. DecisionsAreGrounded' /\ CommandsAreAuthorized'
    BY <1>0, <1>9, <2>2 DEF DecisionsAreGrounded, CommandsAreAuthorized, Had
  <2> QED
    BY <1>5, <1>10, <2>3, <2>4, <2>5, Frames DEF IInv
<1>12. CASE reviewed[p] = NoDecision
  <2>1. review[p] = NoReview /\ authorized[p] = NoEvent /\ record[c][p] = NoDecision
    BY <1>0, <1>1, <1>12 DEF ReviewStandsWhole
  <2>2. /\ reviewed' = [reviewed EXCEPT ![p] = decision]
        /\ review' = [review EXCEPT ![p] = row]
        /\ authorized' = [authorized EXCEPT ![p] = event]
    BY <1>5, <1>12, <2>1 DEF Kept
  <2>3. /\ reviewed'[p] = decision /\ review'[p] = row /\ authorized'[p] = event
        /\ record'[c][p] = decision
        /\ \A q \in Proposals : q # p => /\ reviewed'[q] = reviewed[q] /\ review'[q] = review[q]
                                         /\ authorized'[q] = authorized[q]
    BY <1>0, <1>1, <1>8, <2>1, <2>2 DEF TypeOK
  <2>4. TypeOK'
    <3>1. /\ reviewed' \in [Proposals -> DecisionRows \cup {NoDecision}]
          /\ review' \in [Proposals -> [by : Clients, approved : BOOLEAN] \cup {NoReview}]
      BY <1>0, <1>4, <2>2 DEF TypeOK
    <3>2. authorized' \in [Proposals -> [by : Clients, scope : Scopes, version : Nat,
                                         disposition : Dispositions] \cup {NoEvent}]
      BY <1>0, <1>4, <2>2 DEF TypeOK
    <3> QED
      BY <1>0, <1>5, <1>7, <3>1, <3>2, IdleIsSound DEF TypeOK, observed, proposed, executed
  <2>5. ReviewStandsWhole'
    <3> SUFFICES ASSUME NEW q \in Proposals
          PROVE  /\ (proposal[q] = NoProposal) = (initial[q] = NoDecision)
                 /\ (reviewed'[q] = NoDecision) = (review'[q] = NoReview)
                 /\ (reviewed'[q] = NoDecision) = (authorized'[q] = NoEvent)
                 /\ reviewed'[q] # NoDecision =>
                        /\ proposal[q] # NoProposal
                        /\ review'[q].by = authorized'[q].by
                        /\ record'[review'[q].by][q] = reviewed'[q]
                        /\ authorized'[q].disposition = reviewed'[q].disposition
                 /\ \A d \in Clients : record'[d][q] # NoDecision => reviewed'[q] # NoDecision
      BY <1>9 DEF ReviewStandsWhole
    <3>0. (proposal[q] = NoProposal) = (initial[q] = NoDecision)
      BY <1>0 DEF ReviewStandsWhole
    <3>1. CASE q = p
      BY <1>2, <1>4, <1>6, <2>3, <3>0, <3>1
    <3>2. CASE q # p
      <4>1. \A d \in Clients : record'[d][q] = record[d][q]
        BY <1>8, <3>2
      <4>2. reviewed[q] # NoDecision => review[q].by \in Clients
        BY <1>0 DEF ReviewStandsWhole, TypeOK
      <4> QED
        BY <1>0, <2>3, <3>2, <4>1, <4>2 DEF ReviewStandsWhole
    <3> QED
      BY <3>1, <3>2
  <2>6. DecisionsAreGrounded'
    <3> SUFFICES ASSUME NEW q \in Proposals
          PROVE  /\ proposal'[q] # NoProposal =>
                        Had(proposal[q].scope, proposal[q].version, proposal[q].value)'
                 /\ reviewed'[q] # NoDecision =>
                        /\ Had(authorized[q].scope, authorized[q].version, proposal[q].value)'
                        /\ reviewed'[q].version = authorized'[q].version
                 /\ initial'[q].disposition # "ALLOW"
                 /\ reviewed'[q].disposition = "ALLOW" =>
                        review'[q].approved /\ proposal'[q].sound
      BY DEF DecisionsAreGrounded
    <3>1. CASE q = p
      <4>1. initial[p].disposition # "ALLOW"
        BY <1>0, <1>1 DEF DecisionsAreGrounded
      <4>2. Had(proposal[p].scope, proposal[p].version, proposal[p].value)
        BY <1>0, <1>1, <1>2 DEF DecisionsAreGrounded
      <4>3. /\ authorized'[q].scope = call[c].scope /\ authorized'[q].version = call[c].seen.version
            /\ proposal'[q] = proposal[p] /\ projected' = projected /\ initial'[q] = initial[p]
            /\ reviewed'[q].version = authorized'[q].version
        BY <1>4, <1>9, <2>3, <3>1
      <4>4. Had(authorized[q].scope, authorized[q].version, proposal[q].value)'
        BY <1>2, <4>3 DEF Had
      <4>5. Had(proposal[q].scope, proposal[q].version, proposal[q].value)'
        BY <4>2, <4>3 DEF Had
      <4>6. /\ initial'[q].disposition # "ALLOW"
            /\ reviewed'[q].disposition = "ALLOW" => review'[q].approved /\ proposal'[q].sound
        BY <1>3, <1>4, <2>3, <3>1, <4>1, <4>3
      <4> QED
        BY <4>3, <4>4, <4>5, <4>6
    <3>2. CASE q # p
      BY <1>0, <1>9, <2>3, <3>2 DEF DecisionsAreGrounded, Had
    <3> QED
      BY <3>1, <3>2
  <2>7. CommandsAreAuthorized'
    <3>1. \A r \in requested : r[2] # p
      BY <1>0, <1>12 DEF CommandsAreAuthorized, NoDecision
    <3>2. \A k \in Commands : command[k] # NoCommand => command[k].proposal \in Proposals \ {p}
      <4> SUFFICES ASSUME NEW k \in Commands, command[k] # NoCommand
                   PROVE  command[k].proposal \in Proposals \ {p}
        OBVIOUS
      <4>1. <<k, command[k].proposal>> \in requested /\ command[k].proposal \in Proposals
        BY <1>0 DEF CommandsAreAuthorized, TypeOK, CommandRows
      <4> QED
        BY <3>1, <4>1
    <3>3. \A r \in requested : r[2] \in Proposals
      BY <1>0 DEF TypeOK
    <3> QED
      BY <1>0, <1>9, <2>3, <3>1, <3>2, <3>3 DEF CommandsAreAuthorized
  <2> QED
    BY <1>5, <1>10, <2>4, <2>5, <2>6, <2>7, Frames DEF IInv
<1> QED
  BY <1>11, <1>12

-----------------------------------------------------------------------------
(* Executions. *)

\* What allows is the decision of a review.
LEMMA AllowedByReview ==
    ASSUME TypeOK, DecisionsAreGrounded, NEW p \in Proposals, Authorized(p)
    PROVE  /\ Decision(p) = reviewed[p] /\ reviewed[p].disposition = "ALLOW"
           /\ reviewed[p] \in DecisionRows
<1>1. Decision(p) = reviewed[p] /\ reviewed[p].disposition = "ALLOW"
  BY DEF Authorized, Decision, DecisionsAreGrounded
<1> QED
  BY <1>1 DEF TypeOK, NoDecision

LEMMA ExecuteSafe ==
    ASSUME IInv, NEW k \in Commands, NEW p \in Proposals, NEW x \in Keys, Execute(k, p, x)
    PROVE  IInv'
<1> DEFINE row == [proposal |-> p, key |-> x, authorization |-> Decision(p),
                   status |-> "DISPATCH_PENDING"]
           made == [command |-> k, from |-> "NONE", to |-> "DISPATCH_PENDING"]
<1>0. /\ TypeOK /\ CallInv /\ DecisionsAreGrounded /\ CommandsAreAuthorized
      /\ TransitionsExplainStatus
  BY DEF IInv
<1>1. Decision(p) = reviewed[p] /\ reviewed[p].disposition = "ALLOW" /\ reviewed[p] \in DecisionRows
  BY <1>0, AllowedByReview DEF Execute
<1>2. /\ row \in CommandRows /\ row.proposal = p /\ row.key = x /\ row.authorization = reviewed[p]
      /\ row.status = "DISPATCH_PENDING"
      /\ made \in [command : Commands, from : Statuses \cup {"NONE"}, to : Statuses]
  BY <1>1 DEF CommandRows, Statuses
<1>3. /\ command' = [command EXCEPT ![k] = Kept(@, NoCommand, row)]
      /\ requested' = requested \cup {<<k, p>>}
      /\ transitions' = transitions \cup {made}
      /\ command[k] # NoCommand \/ \A j \in Commands : command[j].key # x
      /\ UNCHANGED <<observed, proposed, decided, call>>
  BY DEF Execute
<1>4. \A j : /\ j = k => Moves(j)' = Moves(j) \cup {<<"NONE", "DISPATCH_PENDING">>}
             /\ j # k => Moves(j)' = Moves(j)
  BY <1>3, MovesAdded
<1> HIDE DEF row, made
<1>5. row # NoCommand
  BY <1>2, RowsAreRows
<1>6. /\ command'[k] = IF command[k] = NoCommand THEN row ELSE command[k]
      /\ \A j \in Commands : j # k => command'[j] = command[j]
  BY <1>0, <1>3 DEF TypeOK, Kept
<1>7. TypeOK'
  <2>1. command' \in [Commands -> CommandRows \cup {NoCommand}]
    BY <1>0, <1>2, <1>3 DEF TypeOK, Kept
  <2>2. requested' \subseteq Commands \X Proposals
    BY <1>0, <1>3 DEF TypeOK
  <2>3. transitions' \subseteq [command : Commands, from : Statuses \cup {"NONE"}, to : Statuses]
    BY <1>0, <1>2, <1>3 DEF TypeOK
  <2> QED
    BY <1>0, <1>3, <2>1, <2>2, <2>3 DEF TypeOK, observed, proposed, decided
<1>8. CallInv'
  <2>1. UNCHANGED <<projected, proposal, call>>
    BY <1>3 DEF observed, proposed
  <2>2. \A j \in Commands : command[j] # NoCommand => command'[j] # NoCommand
    BY <1>5, <1>6
  <2>3. ASSUME NEW c \in Clients PROVE CallSound(c)'
    BY <1>0, <2>1, <2>2, CallStays DEF CallInv
  <2> QED
    BY <2>3 DEF CallInv
<1>9. CommandsAreAuthorized'
  <2>1. UNCHANGED reviewed
    BY <1>3 DEF decided
  <2>2. ASSUME NEW j \in Commands, command'[j] # NoCommand
        PROVE  /\ command'[j].authorization = reviewed'[command'[j].proposal]
               /\ <<j, command'[j].proposal>> \in requested'
    <3>1. CASE j = k /\ command[k] = NoCommand
      BY <1>2, <1>3, <1>6, <2>1, <3>1
    <3>2. CASE j # k \/ command[k] # NoCommand
      <4>1. command'[j] = command[j]
        BY <1>6, <3>2
      <4> QED
        BY <1>0, <1>3, <2>1, <2>2, <4>1 DEF CommandsAreAuthorized
    <3> QED
      BY <3>1, <3>2
  <2>3. ASSUME NEW j \in Commands, NEW i \in Commands, command'[j] # NoCommand,
               command'[i].key = command'[j].key
        PROVE  i = j
    <3>0. \A g, h \in Commands : command[g] # NoCommand /\ command[h].key = command[g].key => h = g
      BY <1>0 DEF CommandsAreAuthorized
    <3>1. CASE command[k] # NoCommand
      <4>1. \A h \in Commands : command'[h] = command[h]
        BY <1>6, <3>1
      <4> QED
        BY <2>3, <3>0, <4>1
    <3>2. CASE command[k] = NoCommand
      <4>1. \A h \in Commands : command[h].key # x
        BY <1>3, <3>2
      <4>2. command'[k].key = x
        BY <1>2, <1>6, <3>2
      <4>3. CASE j = k
        BY <1>6, <2>3, <4>1, <4>2, <4>3
      <4>4. CASE j # k
        <5>1. command'[j] = command[j] /\ i # k
          BY <1>6, <2>3, <4>1, <4>2, <4>4
        <5>2. command'[i] = command[i]
          BY <1>6, <5>1
        <5> QED
          BY <2>3, <3>0, <5>1, <5>2
      <4> QED
        BY <4>3, <4>4
    <3> QED
      BY <3>1, <3>2
  <2>4. ASSUME NEW r \in requested'
        PROVE  reviewed'[r[2]].disposition = "ALLOW" /\ command'[r[1]] # NoCommand
    <3>1. CASE r = <<k, p>>
      BY <1>1, <1>5, <1>6, <2>1, <3>1
    <3>2. CASE r \in requested
      <4>1. r[1] \in Commands /\ command[r[1]] # NoCommand /\ reviewed[r[2]].disposition = "ALLOW"
        BY <1>0, <3>2 DEF CommandsAreAuthorized, TypeOK
      <4> QED
        BY <1>5, <1>6, <2>1, <4>1
    <3> QED
      BY <1>3, <3>1, <3>2
  <2> QED
    BY <2>2, <2>3, <2>4 DEF CommandsAreAuthorized
<1>10. TransitionsExplainStatus'
  <2> SUFFICES ASSUME NEW j \in Commands
      PROVE \/ command'[j] = NoCommand /\ Moves(j)' = {}
            \/ /\ command'[j].status = "DISPATCH_PENDING"
               /\ Moves(j)' = {<<"NONE", "DISPATCH_PENDING">>}
            \/ /\ command'[j].status \in {"DISPATCH_REJECTED", "CANCELLED"}
               /\ Moves(j)' = {<<"NONE", "DISPATCH_PENDING">>,
                               <<"DISPATCH_PENDING", command'[j].status>>}
    BY DEF TransitionsExplainStatus
  <2>1. CASE j # k
    BY <1>0, <1>4, <1>6, <2>1 DEF TransitionsExplainStatus
  <2>2. CASE j = k /\ command[k] # NoCommand
    BY <1>0, <1>4, <1>6, <2>2 DEF TransitionsExplainStatus
  <2>3. CASE j = k /\ command[k] = NoCommand
    <3>1. Moves(k) = {}
      BY <1>0, <2>3 DEF TransitionsExplainStatus, NoCommand
    <3> QED
      BY <1>2, <1>4, <1>6, <2>3, <3>1
  <2> QED
    BY <2>1, <2>2, <2>3
<1> QED
  BY <1>3, <1>7, <1>8, <1>9, <1>10, Frames DEF IInv

LEMMA OpenTransitionSafe ==
    ASSUME IInv, NEW c \in Clients, NEW k \in Commands, OpenTransition(c, k)
    PROVE  IInv'
<1> DEFINE request == [Idle EXCEPT !.op = "TRANSITION", !.about = k, !.read = command[k].status]
<1>0. TypeOK /\ CallInv
  BY DEF IInv
<1>1. /\ command[k] # NoCommand /\ call' = [call EXCEPT ![c] = request]
      /\ UNCHANGED <<observed, proposed, decided, executed>>
  BY DEF OpenTransition, Starts
<1>2. command[k].status \in Statuses
  BY <1>0, <1>1 DEF TypeOK, CommandRows
<1>3. request \in CallRecords /\ request.op = "TRANSITION" /\ request.about = k
  BY <1>2 DEF Idle, CallRecords
<1> HIDE DEF request
<1>4. call'[c] = request
  BY <1>0, <1>1 DEF TypeOK
<1>5. TypeOK'
  BY <1>0, <1>1, <1>3 DEF TypeOK, observed, proposed, decided, executed
<1>6. UNCHANGED <<projected, proposal, command>>
  BY <1>1 DEF observed, proposed, executed
<1>7. CallSound(c)'
  BY <1>1, <1>3, <1>4, <1>6 DEF CallSound
<1>8. CallInv'
  BY <1>0, <1>1, <1>6, <1>7, CallsStay
<1> QED
  BY <1>1, <1>5, <1>8, Frames DEF IInv

\* A command moves once: from pending to one of the two ends.
LEMMA MovesOnce ==
    ASSUME IInv, NEW c \in Clients, NEW to \in Targets, CommitTransition(c, to)
    PROVE  /\ call[c].about \in Commands /\ command[call[c].about] # NoCommand
           /\ command[call[c].about].status = "DISPATCH_PENDING"
           /\ call[c].read = "DISPATCH_PENDING"
           /\ to \in {"DISPATCH_REJECTED", "CANCELLED"}
<1>0. TypeOK /\ CallInv /\ TransitionsExplainStatus
  BY DEF IInv
<1>1. call[c].op = "TRANSITION" /\ to \in Transitions[call[c].read]
      /\ command[call[c].about].status = call[c].read
  BY DEF CommitTransition, Updatable
<1>2. call[c].about \in Commands /\ call[c].read \in Statuses /\ command[call[c].about] # NoCommand
  BY <1>0, <1>1, CallTypes DEF CallInv, CallSound
<1>3. call[c].read \in {"DISPATCH_PENDING", "DISPATCH_REJECTED", "CANCELLED"}
  BY <1>0, <1>1, <1>2 DEF TransitionsExplainStatus
<1>4. call[c].read = "DISPATCH_PENDING"
  BY <1>1, <1>2, <1>3 DEF Transitions
<1>5. to \in {"DISPATCH_REJECTED", "CANCELLED"}
  BY <1>1, <1>2, <1>4 DEF Transitions, Targets
<1> QED
  BY <1>1, <1>2, <1>4, <1>5

LEMMA CommitTransitionSafe ==
    ASSUME IInv, NEW c \in Clients, NEW to \in Targets, CommitTransition(c, to)
    PROVE  IInv'
<1> DEFINE k == call[c].about
           row == [command[k] EXCEPT !.status = to]
           move == [command |-> k, from |-> "DISPATCH_PENDING", to |-> to]
<1>0. TypeOK /\ CallInv /\ CommandsAreAuthorized /\ TransitionsExplainStatus
  BY DEF IInv
<1>1. /\ k \in Commands /\ command[k] # NoCommand /\ command[k].status = "DISPATCH_PENDING"
      /\ call[c].read = "DISPATCH_PENDING" /\ to \in {"DISPATCH_REJECTED", "CANCELLED"}
  BY MovesOnce
<1>2. /\ command' = [command EXCEPT ![k] = row]
      /\ transitions' = transitions \cup {move}
      /\ Ends(c) /\ UNCHANGED <<observed, proposed, decided, requested>>
  BY <1>0, <1>1 DEF CommitTransition, TypeOK
<1>3. \A j : /\ j = k => Moves(j)' = Moves(j) \cup {<<"DISPATCH_PENDING", to>>}
             /\ j # k => Moves(j)' = Moves(j)
  BY <1>2, MovesAdded
<1>4. command[k] \in CommandRows /\ to \in Statuses
  BY <1>0, <1>1 DEF TypeOK, Statuses
<1>5. /\ row \in CommandRows /\ row.proposal = command[k].proposal /\ row.key = command[k].key
      /\ row.authorization = command[k].authorization /\ row.status = to
      /\ move \in [command : Commands, from : Statuses \cup {"NONE"}, to : Statuses]
  BY <1>1, <1>4 DEF CommandRows, Statuses
<1> HIDE DEF row, move, k
<1>6. row # NoCommand
  BY <1>5, RowsAreRows
<1>7. command'[k] = row /\ \A j \in Commands : j # k => command'[j] = command[j]
  BY <1>0, <1>1, <1>2 DEF TypeOK
<1>8. TypeOK'
  <2>1. /\ command' \in [Commands -> CommandRows \cup {NoCommand}]
        /\ transitions' \subseteq [command : Commands, from : Statuses \cup {"NONE"}, to : Statuses]
    BY <1>0, <1>2, <1>5 DEF TypeOK
  <2> QED
    BY <1>0, <1>2, <2>1, IdleIsSound DEF TypeOK, observed, proposed, decided
<1>9. CallInv'
  <2>1. UNCHANGED <<projected, proposal>>
    BY <1>2 DEF observed, proposed
  <2>2. \A j \in Commands : command[j] # NoCommand => command'[j] # NoCommand
    BY <1>6, <1>7
  <2> QED
    BY <1>0, <1>2, <2>1, <2>2, IdleIsSound, CallsStay DEF Ends
<1>10. CommandsAreAuthorized'
  <2>1. UNCHANGED <<reviewed, requested>>
    BY <1>2 DEF decided
  <2>2. \A j \in Commands : /\ command'[j].proposal = command[j].proposal
                            /\ command'[j].key = command[j].key
                            /\ command'[j].authorization = command[j].authorization
                            /\ command'[j] # NoCommand <=> command[j] # NoCommand
    BY <1>1, <1>5, <1>6, <1>7
  <2>3. \A r \in requested : r[1] \in Commands
    BY <1>0 DEF TypeOK
  <2> QED
    BY <1>0, <2>1, <2>2, <2>3 DEF CommandsAreAuthorized
<1>11. TransitionsExplainStatus'
  <2> SUFFICES ASSUME NEW j \in Commands
      PROVE \/ command'[j] = NoCommand /\ Moves(j)' = {}
            \/ /\ command'[j].status = "DISPATCH_PENDING"
               /\ Moves(j)' = {<<"NONE", "DISPATCH_PENDING">>}
            \/ /\ command'[j].status \in {"DISPATCH_REJECTED", "CANCELLED"}
               /\ Moves(j)' = {<<"NONE", "DISPATCH_PENDING">>,
                               <<"DISPATCH_PENDING", command'[j].status>>}
    BY DEF TransitionsExplainStatus
  <2>1. CASE j # k
    BY <1>0, <1>3, <1>7, <2>1 DEF TransitionsExplainStatus
  <2>2. CASE j = k
    <3>1. Moves(k) = {<<"NONE", "DISPATCH_PENDING">>}
      BY <1>0, <1>1 DEF TransitionsExplainStatus
    <3> QED
      BY <1>1, <1>3, <1>5, <1>7, <2>2, <3>1
  <2> QED
    BY <2>1, <2>2
<1> QED
  BY <1>2, <1>8, <1>9, <1>10, <1>11, Frames DEF IInv

LEMMA GiveUpSafe ==
    ASSUME IInv, NEW c \in Clients, GiveUp(c)
    PROVE  IInv'
<1>0. TypeOK /\ CallInv
  BY DEF IInv
<1>1. Ends(c) /\ UNCHANGED <<observed, proposed, decided, executed>>
  BY DEF GiveUp
<1>2. TypeOK'
  BY <1>0, <1>1, IdleIsSound DEF TypeOK, observed, proposed, decided, executed
<1>3. UNCHANGED <<projected, proposal, command>>
  BY <1>1 DEF observed, proposed, executed
<1>4. CallInv'
  BY <1>0, <1>1, <1>3, IdleIsSound, CallsStay DEF Ends
<1> QED
  BY <1>1, <1>2, <1>4, Frames DEF IInv

-----------------------------------------------------------------------------
(* The invariant. *)

LEMMA InitSafe == Init => IInv
<1> SUFFICES ASSUME Init PROVE IInv
  OBVIOUS
<1>1. Idle \in CallRecords /\ Idle.op = "IDLE"
  BY DEF Idle, CallRecords
<1>2. TypeOK
  BY <1>1 DEF Init, TypeOK
<1>3. CallInv
  BY <1>1 DEF Init, CallInv, CallSound
<1>4. StateIsContiguous
  <2>1. \A s \in Scopes : projected[s] = {} /\ snapshot[s] = 0
    BY DEF Init
  <2>2. 1..0 = {}
    OBVIOUS
  <2> QED
    BY <2>1, <2>2 DEF StateIsContiguous
<1>5. DecisionsAreGrounded
  BY DEF Init, DecisionsAreGrounded, NoDecision
<1>6. ReviewStandsWhole
  BY DEF Init, ReviewStandsWhole
<1>7. CommandsAreAuthorized
  BY DEF Init, CommandsAreAuthorized
<1>8. TransitionsExplainStatus
  BY DEF Init, TransitionsExplainStatus, Moves
<1> QED
  BY <1>2, <1>3, <1>4, <1>5, <1>6, <1>7, <1>8 DEF IInv

LEMMA StepSafe == IInv /\ [Next]_vars => IInv'
<1> SUFFICES ASSUME IInv, [Next]_vars PROVE IInv'
  OBVIOUS
<1>1. CASE EventNext
  BY <1>1, SubmitEventSafe, SetAsideSafe DEF EventNext
<1>2. CASE ProposalNext
  BY <1>2, OpenProposalSafe, PutProposalSafe, ControlPlaneAssumption DEF ProposalNext
<1>3. CASE ReviewNext
  BY <1>3, OpenReviewSafe, ReadStateSafe, PutReviewSafe DEF ReviewNext
<1>4. CASE ExecutionNext
  BY <1>4, ExecuteSafe, OpenTransitionSafe, CommitTransitionSafe, GiveUpSafe DEF ExecutionNext
<1>5. CASE UNCHANGED vars
  <2>1. UNCHANGED <<observed, proposed, decided, executed, call>>
    BY <1>5 DEF vars
  <2>2. TypeOK'
    BY <2>1 DEF IInv, TypeOK, observed, proposed, decided, executed
  <2>3. CallInv'
    BY <2>1 DEF IInv, CallInv, CallSound, Had, observed, proposed, executed
  <2> QED
    BY <2>1, <2>2, <2>3, Frames DEF IInv
<1> QED
  BY <1>1, <1>2, <1>3, <1>4, <1>5 DEF Next

THEOREM Invariance == Spec => []IInv
BY InitSafe, StepSafe, PTL DEF Spec

\* Every table and every call keeps its type, for any number of them.
THEOREM TypeCorrect == Spec => []TypeOK
<1>1. IInv => TypeOK
  BY DEF IInv
<1> QED
  BY <1>1, Invariance, PTL

\* However many observations are submitted, under whatever identities, the versions of
\* a scope are contiguous and its row is at the last one; an event that the projector or
\* the journal passes over is the last, the journal's for an identity already taken.
THEOREM Contiguity == Spec => []StateIsContiguous
<1>1. IInv => StateIsContiguous
  BY DEF IInv
<1> QED
  BY <1>1, Invariance, PTL

\* Whatever comes between the reads and the writes of proposals and reviews, what
\* was decided on was the state of the scope at the version named.
THEOREM Grounding == Spec => []DecisionsAreGrounded
<1>1. IInv => DecisionsAreGrounded
  BY DEF IInv
<1> QED
  BY <1>1, Invariance, PTL

\* Of any number of reviewers one decides, with decision, review, event and answer.
THEOREM OneReview == Spec => []ReviewStandsWhole
<1>1. IInv => ReviewStandsWhole
  BY DEF IInv
<1> QED
  BY <1>1, Invariance, PTL

\* Every command and every request for one rests on a review that allows it.
THEOREM Authority == Spec => []CommandsAreAuthorized
<1>1. IInv => CommandsAreAuthorized
  BY DEF IInv
<1> QED
  BY <1>1, Invariance, PTL

\* A command is made once and moves at most once, to DISPATCH_REJECTED or
\* CANCELLED, whatever the callers of its endpoints had read.
THEOREM OneTransition == Spec => []TransitionsExplainStatus
<1>1. IInv => TransitionsExplainStatus
  BY DEF IInv
<1> QED
  BY <1>1, Invariance, PTL

-----------------------------------------------------------------------------
(* What is decided stands. *)

StandsAtStep ==
    /\ \A p \in Proposals :
         /\ proposal[p] # NoProposal =>
                /\ proposal'[p] = proposal[p]
                /\ initial'[p] = initial[p]
         /\ review[p] # NoReview =>
                /\ review'[p] = review[p]
                /\ reviewed'[p] = reviewed[p]
                /\ authorized'[p] = authorized[p]
                /\ Decision(p)' = Decision(p)
    /\ \A k \in Commands : command[k] # NoCommand =>
         /\ [command'[k] EXCEPT !.status = command[k].status] = command[k]
         /\ command[k].status # "DISPATCH_PENDING" => command'[k] = command[k]

\* Rows that are kept, and commands that do not move, stand.
LEMMA RowsStand ==
    ASSUME IInv,
           \A p \in Proposals : proposal[p] # NoProposal =>
               proposal'[p] = proposal[p] /\ initial'[p] = initial[p],
           \A p \in Proposals : review[p] # NoReview =>
               /\ review'[p] = review[p] /\ reviewed'[p] = reviewed[p]
               /\ authorized'[p] = authorized[p],
           \A k \in Commands : command[k] # NoCommand => command'[k] = command[k]
    PROVE  StandsAtStep
<1>1. ASSUME NEW p \in Proposals, review[p] # NoReview PROVE Decision(p)' = Decision(p)
  <2>1. proposal[p] # NoProposal
    BY <1>1 DEF IInv, ReviewStandsWhole
  <2> QED
    BY <1>1, <2>1 DEF Decision
<1>2. ASSUME NEW k \in Commands, command[k] # NoCommand
      PROVE  [command[k] EXCEPT !.status = command[k].status] = command[k]
  <2>1. command[k] \in CommandRows
    BY <1>2 DEF IInv, TypeOK
  <2> QED
    BY <2>1 DEF CommandRows
<1> QED
  BY <1>1, <1>2 DEF StandsAtStep

\* For any clients and interleavings, a proposal, a review with its decision, the
\* binding of a command and its end never change.
THEOREM DecidedStands == Spec => WhatIsDecidedStands
<1>1. ASSUME IInv, [Next]_vars PROVE StandsAtStep \/ UNCHANGED vars
  <2>1. CASE UNCHANGED <<proposed, decided, executed>>
    BY <1>1, <2>1, RowsStand DEF proposed, decided, executed
  <2>2. ASSUME NEW c \in Clients, NEW sound \in BOOLEAN, NEW stamp \in Opening,
               PutProposal(c, sound, stamp)
        PROVE  StandsAtStep
    <3>1. \A p \in Proposals : proposal[p] # NoProposal =>
              proposal'[p] = proposal[p] /\ initial'[p] = initial[p]
      BY <1>1, <2>2 DEF IInv, PutProposal, Kept, TypeOK, ReviewStandsWhole
    <3> QED
      BY <1>1, <2>2, <3>1, RowsStand DEF PutProposal, decided, executed
  <2>3. ASSUME NEW c \in Clients, NEW approved \in BOOLEAN, NEW covered \in BOOLEAN,
               NEW stamp \in Stamps, PutReview(c, approved, covered, stamp)
        PROVE  StandsAtStep
    <3>1. \A p \in Proposals : review[p] # NoReview =>
              /\ review'[p] = review[p] /\ reviewed'[p] = reviewed[p]
              /\ authorized'[p] = authorized[p]
      BY <1>1, <2>3 DEF IInv, PutReview, Stored, Kept, TypeOK, ReviewStandsWhole
    <3> QED
      BY <1>1, <2>3, <3>1, RowsStand DEF PutReview, proposed, executed
  <2>4. ASSUME NEW k \in Commands, NEW p \in Proposals, NEW x \in Keys, Execute(k, p, x)
        PROVE  StandsAtStep
    <3>1. \A j \in Commands : command[j] # NoCommand => command'[j] = command[j]
      BY <1>1, <2>4 DEF IInv, Execute, Kept, TypeOK
    <3> QED
      BY <1>1, <2>4, <3>1, RowsStand DEF Execute, proposed, decided
  <2>5. ASSUME NEW c \in Clients, NEW to \in Targets, CommitTransition(c, to)
        PROVE  StandsAtStep
    <3> DEFINE k == call[c].about
    <3>1. k \in Commands /\ command[k].status = "DISPATCH_PENDING" /\ command[k] \in CommandRows
      BY <1>1, <2>5, MovesOnce DEF IInv, TypeOK
    <3>2. /\ command'[k] = [command[k] EXCEPT !.status = to]
          /\ \A j \in Commands : j # k => command'[j] = command[j]
      BY <1>1, <2>5, <3>1 DEF CommitTransition, IInv, TypeOK
    <3>3. UNCHANGED <<proposal, initial, reviewed, review, authorized>>
      BY <2>5 DEF CommitTransition, proposed, decided
    <3>4. \A p \in Proposals : Decision(p)' = Decision(p)
      BY <3>3 DEF Decision
    <3>5. [command'[k] EXCEPT !.status = command[k].status] = command[k]
      BY <3>1, <3>2 DEF CommandRows
    <3>6. \A j \in Commands : command[j] # NoCommand => command[j] \in CommandRows
      BY <1>1 DEF IInv, TypeOK
    <3>7. ASSUME NEW j \in Commands, j # k, command[j] # NoCommand
          PROVE  [command'[j] EXCEPT !.status = command[j].status] = command[j]
      BY <3>2, <3>6, <3>7 DEF CommandRows
    <3> QED
      BY <3>1, <3>2, <3>3, <3>4, <3>5, <3>7 DEF StandsAtStep
  <2>6. CASE EventNext
    BY <2>1, <2>6 DEF EventNext, SubmitEvent, SetAside
  <2>7. CASE ProposalNext
    BY <2>1, <2>2, <2>7 DEF ProposalNext, OpenProposal
  <2>8. CASE ReviewNext
    BY <2>1, <2>3, <2>8 DEF ReviewNext, OpenReview, ReadState
  <2>9. CASE ExecutionNext
    BY <2>1, <2>4, <2>5, <2>9 DEF ExecutionNext, OpenTransition, GiveUp
  <2> QED
    BY <1>1, <2>6, <2>7, <2>8, <2>9 DEF Next
<1>2. IInv /\ [Next]_vars => [StandsAtStep]_vars
  BY <1>1
<1>3. Spec => [][StandsAtStep]_vars
  BY <1>2, Invariance, PTL DEF Spec
<1> QED
  BY <1>3, PTL DEF WhatIsDecidedStands, StandsAtStep
=============================================================================
