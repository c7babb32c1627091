---------------------------- MODULE AuthorizedLog ----------------------------
(***************************************************************************)
(* What the secure commit path promises its users: one log per world.  It  *)
(* starts with a creation event and grows by one event at a time, each at  *)
(* the version its request expected, each under an identity of its own and *)
(* each either from an endpoint that needs no token or granted to the      *)
(* token it carries.  A token is granted once and for good.  KernelWorld   *)
(* implements it with two databases, concurrent callers and crashes.       *)
(***************************************************************************)
EXTENDS Integers, Sequences

CONSTANTS Tokens, Created, Direct

VARIABLES log, granted

Identities == {log[i].request.event_id : i \in DOMAIN log}

BoundFields(r) == [event_id |-> r.event_id, expected |-> r.expected, body |-> r.body]

Init == log = <<>> /\ granted = {}

Grant ==
    \E t \in Tokens :
        /\ \A g \in granted : g.token # t
        /\ \E g \in granted' : g.token = t /\ granted' = granted \cup {g}
        /\ UNCHANGED log

Commit ==
    /\ Len(log') = Len(log) + 1
    /\ \A i \in DOMAIN log : log'[i] = log[i]
    /\ LET r == log'[Len(log')].request
       IN  /\ r.event_id \notin Identities
           /\ (r.event_id = Created) <=> (log = <<>>)
           /\ r.expected = Len(log) - 1
           /\ r.auth # Direct => [token |-> r.auth, grant |-> BoundFields(r)] \in granted
    /\ UNCHANGED granted

Next == Grant \/ Commit

Spec == Init /\ [][Next]_<<log, granted>>
=============================================================================
