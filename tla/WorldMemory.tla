------------------------------ MODULE WorldMemory ------------------------------
(***************************************************************************)
(* Outcomes and observations in the two stores that keep them: the world   *)
(* (src/src/edon/world/store.py) lists them among its operational state,   *)
(* the episodic memory (src/src/edon/memory/store.py) has an episode under *)
(* the same identity.  The stores are two databases.  A handler of the     *)
(* operations control plane writes one and then the other, an outcome to   *)
(* the world first, an observation to the memory first, and may end        *)
(* between its writes.  The same roles may also write either store         *)
(* directly: restore an earlier version of the world, append an event to   *)
(* it, record an episode (src/src/edon/api/server.py).                     *)
(*                                                                         *)
(* Operations extends this module with the rest of what its handlers do.   *)
(*                                                                         *)
(* Data.  Outcomes and observations are identities.  A tombstone hides an  *)
(* episode from recall and keeps its row: it changes nothing here.  Several *)
(* handlers at work on one identity count as one.                          *)
(***************************************************************************)
EXTENDS Integers, FiniteSets

CONSTANTS
    Outcomes, Observations,
    MaxDisturbed      \* bound of the handlers that end between their writes and
                      \* of the episodes recorded directly

ASSUME WorldMemoryAssumption ==
    /\ Outcomes \cap Observations = {} \* record_episode refuses an identity it has for another
    /\ MaxDisturbed \in Nat

VARIABLES
    outcomes,       \* the outcomes in the world
    observations,   \* the observations in the world
    episodes,       \* the outcomes and observations in the memory
    linking,        \* what a handler has written to one store and is about to
                    \* write to the other
    interrupted,    \* whose handler ended between its writes
    written,        \* the episodes that were recorded directly
    restored,       \* what a restore took out of the world
    edited          \* what an event appended directly put in or took out

stores == <<outcomes, observations, episodes, linking, interrupted, written, restored, edited>>
history == <<interrupted, written, restored, edited>>

Identities == Outcomes \cup Observations

\* Bound
Disturbable == Cardinality(interrupted) + Cardinality(written) < MaxDisturbed

-----------------------------------------------------------------------------
(* The handlers. *)

\* record_step_outcome writes the world and goes on to the memory.
RecordOutcome(o) ==
    /\ o \notin outcomes
    /\ outcomes' = outcomes \cup {o}
    /\ linking' = linking \cup {o}
    /\ UNCHANGED <<observations, episodes, history>>

RememberOutcome(o) ==
    /\ o \in linking /\ o \notin episodes
    /\ episodes' = episodes \cup {o}
    /\ linking' = linking \ {o}
    /\ UNCHANGED <<outcomes, observations, history>>

\* The memory has another episode under the identity and raises: an outcome's own
\* names the world version it was recorded with, so it is never there before.
RefuseOutcome(o) ==
    /\ o \in linking \cap episodes
    /\ linking' = linking \ {o}
    /\ UNCHANGED <<outcomes, observations, episodes, history>>

\* Mutant: the world first.
IngestObservationLast(x) ==
    /\ observations' = observations \cup {x}
    /\ linking' = linking \cup {x}
    /\ UNCHANGED <<outcomes, episodes, history>>

\* ingest_observation writes the memory and goes on to the world.  The memory accepts
\* the same observation again; one that differs it refuses, and nothing is written.
IngestObservation(x) ==
    /\ episodes' = episodes \cup {x}
    /\ linking' = linking \cup {x}
    /\ UNCHANGED <<outcomes, observations, history>>

\* APPEND_UNIQUE
AppendObservation(x) ==
    /\ x \in linking
    /\ observations' = observations \cup {x}
    /\ linking' = linking \ {x}
    /\ UNCHANGED <<outcomes, episodes, history>>

\* The process is killed, or the second store refuses (a stale world version, a
\* sensitivity the memory does not know).
Interrupt(i) ==
    /\ i \in linking
    /\ Disturbable
    /\ linking' = linking \ {i}
    /\ interrupted' = interrupted \cup {i}
    /\ UNCHANGED <<outcomes, observations, episodes, written, restored, edited>>

-----------------------------------------------------------------------------
(* Whoever else writes. *)

\* POST of an episode; one that is there is left as it is.
RecordMemory(i) ==
    /\ i \notin episodes
    /\ Disturbable
    /\ episodes' = episodes \cup {i}
    /\ written' = written \cup {i}
    /\ UNCHANGED <<outcomes, observations, linking, interrupted, restored, edited>>

\* restore_version: the world lists again what an earlier version listed, that is
\* some of what it lists now, of what restores took out and of what was edited.
RestoreVersion(O, X) ==
    /\ O \cup X \subseteq outcomes \cup observations \cup restored \cup edited
    /\ outcomes' = O
    /\ observations' = X
    /\ restored' = restored \cup (outcomes \ O) \cup (observations \ X)
    /\ UNCHANGED <<episodes, linking, interrupted, written, edited>>

\* append_event with any mutations
AppendEvent(O, X) ==
    /\ outcomes' = O
    /\ observations' = X
    /\ edited' = edited \cup (outcomes \ O) \cup (O \ outcomes)
                        \cup (observations \ X) \cup (X \ observations)
    /\ UNCHANGED <<episodes, linking, interrupted, written, restored>>

-----------------------------------------------------------------------------

StoresInit ==
    /\ outcomes = {} /\ observations = {} /\ episodes = {} /\ linking = {}
    /\ interrupted = {} /\ written = {} /\ restored = {} /\ edited = {}

\* What changes no other part of the world.
LinkStep ==
    \/ \E o \in Outcomes : RememberOutcome(o) \/ RefuseOutcome(o)
    \/ \E x \in Observations : IngestObservation(x) \/ AppendObservation(x)
    \/ \E i \in Identities : Interrupt(i) \/ RecordMemory(i)

StoresNext ==
    \/ LinkStep
    \/ \E o \in Outcomes : RecordOutcome(o)
    \/ \E O \in SUBSET Outcomes, X \in SUBSET Observations :
            RestoreVersion(O, X) \/ AppendEvent(O, X)

StoresSpec == StoresInit /\ [][StoresNext]_stores

-----------------------------------------------------------------------------
(* Properties. *)

\* The types of the two stores.
StoresTypeOK ==
    /\ outcomes \subseteq Outcomes
    /\ observations \subseteq Observations
    /\ episodes \subseteq Identities
    /\ linking \subseteq Identities
    /\ interrupted \subseteq Identities
    /\ written \subseteq Identities
    /\ restored \subseteq Identities
    /\ edited \subseteq Identities

\* Whatever appended events left alone is in both stores or in none, but for a handler
\* at work or interrupted, and then only in the order of its writes, and for what
\* the memory keeps when a restore took it out of the world or has been told directly.
\* An observation in the world is always in the memory (control.py:200-274, 1112-1136;
\* server.py:269-335).
StoresAgree ==
    /\ \A o \in Outcomes \ edited :
        /\ o \in outcomes \ episodes => o \in linking \cup interrupted
        /\ o \in episodes \ outcomes => o \in restored \cup written
    /\ \A x \in Observations \ edited :
        /\ x \in observations => x \in episodes
        /\ x \in episodes \ observations =>
               x \in linking \cup interrupted \cup restored \cup written
=============================================================================
