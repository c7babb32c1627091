------------------------------ MODULE AgentGateway ------------------------------
(***************************************************************************)
(* Connectors of the agent gateway, their status, and the custody of the   *)
(* messages that come through them: AgentGateway and AgentGatewayStore of  *)
(* src/src/edon/gateway/.  A handler runs in a thread of the HTTP server.  *)
(* It reads the connector's row, which no transaction protects, and writes *)
(* in a transaction that begins with its first INSERT or UPDATE.           *)
(*                                                                         *)
(* Data.  A profile is reduced to whether it may be enabled and which      *)
(* messages it accepts (protocol, allowlists, sensitivity, payload), a     *)
(* message to its content; the hash of the envelope is the message.  The   *)
(* audit keeps what the events say of a status and which message was       *)
(* recorded.  One tenant is modelled, since every query names the tenant.  *)
(***************************************************************************)
EXTENDS Naturals, Sequences, FiniteSets, ServerCalls

CONSTANTS
    Connectors, Profiles,
    Secured,        \* profiles with a secret reference and production authentication
    Messages,       \* records with connector, direction, id, key and body
    Accepts,        \* the messages that a profile lets through
    Reviews,        \* security review references
    MaxChanges      \* bounds the status changes of a connector

ConnectorStatuses == {"DISABLED", "ENABLED", "SUSPENDED"}

\* None is no connector, profile, message, reference or status.
ASSUME GatewayAssumption ==
    /\ Secured \subseteq Profiles /\ Accepts \in [Profiles -> SUBSET Messages]
    /\ \A m \in Messages : m.connector \in Connectors
    /\ None \notin Connectors \cup Profiles \cup Messages \cup Reviews
    /\ None \notin ConnectorStatuses

VARIABLES
    profile,    \* of each connector, or None
    status,     \* of each connector
    review,     \* the security review reference of its row, or None
    messages,   \* the messages in custody
    audit       \* the events, in order

custodyTables == <<profile, status, review, messages, audit>>
gatewayVars == <<custodyTables, calls>>

\* to and given: the status and reference asked for; read: the reference of the row.
StatusCall(k, to, r, read) ==
    [op |-> "STATUS", about |-> k, to |-> to, given |-> r, read |-> read]

RecordCall(m) == [op |-> "RECORD", about |-> m]

StatusEvents(k) == {i \in DOMAIN audit : audit[i].event = "STATUS" /\ audit[i].about = k}
MessageEvents(m) == {i \in DOMAIN audit : audit[i].event = "MESSAGE" /\ audit[i].about = m}

Appends(event, about, to, reference) ==
    audit' = Append(audit, [event |-> event, about |-> about, status |-> to,
                            review |-> reference])

-----------------------------------------------------------------------------
(* Connectors. *)

\* A repeated registration is answered with the row or refused.
RegisterConnector(k, p) ==
    /\ profile[k] = None
    /\ profile' = [profile EXCEPT ![k] = p]
    /\ status' = [status EXCEPT ![k] = "DISABLED"]
    /\ Appends("STATUS", k, "DISABLED", None)
    /\ UNCHANGED <<review, messages, calls>>

\* Mutant: a reference that is stored counts as one that is given.
MayEnableAgain(k, r) == (r # None \/ review[k] # None) /\ profile[k] \in Secured

MayEnable(k, r) == r # None /\ profile[k] \in Secured

\* set_connector_status: the checks of the service, then the row that the store reads.
SetConnectorStatus(c, k, to, r) ==
    /\ profile[k] # None
    /\ Cardinality(StatusEvents(k)) < MaxChanges
    /\ to = "ENABLED" => MayEnable(k, r)
    /\ Starts(c, StatusCall(k, to, r, review[k]))
    /\ UNCHANGED custodyTables

ReviewKept(call) == IF call.given # None THEN call.given ELSE call.read

StatusWrites(c) == LET k == calls[c].about IN
    /\ At(c, "STATUS")
    /\ status' = [status EXCEPT ![k] = calls[c].to]
    /\ review' = [review EXCEPT ![k] = ReviewKept(calls[c])]
    /\ Appends("STATUS", k, calls[c].to, ReviewKept(calls[c]))
    /\ Ends(c)
    /\ UNCHANGED <<profile, messages>>

-----------------------------------------------------------------------------
(* Messages. *)

\* Mutant: the status of the connector is not looked at.
IsRegistered(k) == profile[k] # None

IsEnabled(k) == profile[k] # None /\ status[k] = "ENABLED"

\* ingest and stage_egress: _normalize reads the connector and makes the envelope.
Normalize(c, m) ==
    /\ IsEnabled(m.connector) /\ m \in Accepts[profile[m.connector]]
    /\ Starts(c, RecordCall(m))
    /\ UNCHANGED custodyTables

SameChannel(m, n) == m.connector = n.connector /\ m.direction = n.direction

\* Mutant: the message identity may be used again.
FreeKey(m) == \A n \in messages : SameChannel(m, n) => n.key # m.key

\* UNIQUE of the idempotency key and of the message identity
KeysFree(m) == \A n \in messages : SameChannel(m, n) => n.key # m.key /\ n.id # m.id

\* A key or identity that is bound gets the receipt of its message or a refusal: Abandon.
RecordEnvelope(c) == LET m == calls[c].about IN
    /\ At(c, "RECORD")
    /\ KeysFree(m)
    /\ messages' = messages \cup {m}
    /\ Appends("MESSAGE", m, None, None)
    /\ Ends(c)
    /\ UNCHANGED <<profile, status, review>>

Abandon(c) == calls[c] # Idle /\ Ends(c) /\ UNCHANGED custodyTables

-----------------------------------------------------------------------------

GatewayInit ==
    /\ profile = [k \in Connectors |-> None] /\ status = [k \in Connectors |-> None]
    /\ review = [k \in Connectors |-> None]
    /\ messages = {} /\ audit = <<>>
    /\ calls = [c \in Callers |-> Idle]

CallNext(c) ==
    \/ \E k \in Connectors, to \in ConnectorStatuses, r \in Reviews \cup {None} :
            SetConnectorStatus(c, k, to, r)
    \/ \E m \in Messages : Normalize(c, m)
    \/ StatusWrites(c) \/ RecordEnvelope(c) \/ Abandon(c)

GatewayNext ==
    \/ \E k \in Connectors, p \in Profiles : RegisterConnector(k, p)
    \/ \E c \in Callers : CallNext(c)

GatewaySpec == GatewayInit /\ [][GatewayNext]_gatewayVars

-----------------------------------------------------------------------------
(* Properties. *)

\* Two messages of one channel that are in custody share neither their key nor their
\* identity, each was recorded by one audit event, and no message is in custody that
\* the profile of its connector does not let through.  (record_envelope, with two
\* callers that both found the key free)
CustodyIsUnique ==
    /\ \A m, n \in messages : m # n /\ SameChannel(m, n) => m.key # n.key /\ m.id # n.id
    /\ \A m \in messages : m \in Accepts[profile[m.connector]]
    /\ \A m \in Messages : Cardinality(MessageEvents(m)) = IF m \in messages THEN 1 ELSE 0

\* The audit explains the rows: the last status event of a connector has its status
\* and its review, and every message came after the connector was enabled under a
\* review, however the status changed since it was read.  (set_connector_status,
\* record_envelope: the audit is written in their transactions)
AuditExplainsCustody ==
    /\ \A k \in Connectors : profile[k] # None =>
        \E i \in StatusEvents(k) :
            /\ \A j \in StatusEvents(k) : j <= i
            /\ audit[i].status = status[k] /\ audit[i].review = review[k]
    /\ \A m \in messages, i \in DOMAIN audit : i \in MessageEvents(m) =>
        \E j \in StatusEvents(m.connector) :
            j < i /\ audit[j].status = "ENABLED" /\ audit[j].review # None

\* "connector enablement requires security_review_ref": every enabling has a reference
\* of its own, given with it, though another status change may have stored or dropped
\* one meanwhile.  (gateway/service.py, set_connector_status)
EnablingIsReviewed == [][\A k \in Connectors :
    status'[k] = "ENABLED" /\ status'[k] # status[k] =>
        /\ profile[k] \in Secured
        /\ \E c \in Callers : /\ At(c, "STATUS") /\ calls[c].about = k
                              /\ calls[c].given \in Reviews /\ review'[k] = calls[c].given]_gatewayVars

Recording(c, k) == At(c, "RECORD") /\ calls[c].about.connector = k

\* While a connector is not enabled, custody of its messages only grows by calls that
\* had found it enabled before, and no further call gets so far.  (_normalize)
SuspensionHolds == [][\A k \in Connectors :
    status[k] # "ENABLED" =>
        /\ \A c \in Callers : Recording(c, k)' => Recording(c, k)
        /\ (\A c \in Callers : ~Recording(c, k)) =>
                {m \in messages' : m.connector = k} = {m \in messages : m.connector = k}]_gatewayVars

\* "Suspension stops new gateway custody" (product/agent-gateway/SECURITY.md:45)
SuspensionStopsCustody == [][\A k \in Connectors :
    status[k] = "SUSPENDED" =>
        {m \in messages' : m.connector = k} = {m \in messages : m.connector = k}]_gatewayVars
=============================================================================
