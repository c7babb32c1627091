----------------------------- MODULE MCAgentGateway -----------------------------
(* One connector, a profile that can be enabled and one that cannot, and messages that
   share a key, share an identity, or repeat in the other direction. *)
EXTENDS AgentGateway, TLC

CONSTANTS mcp, shared, dev

Message(direction, id, key, body) ==
    [connector |-> mcp, direction |-> direction, id |-> id, key |-> key, body |-> body]

FewMessages ==
    {Message("INGRESS", 1, 1, 1), Message("INGRESS", 2, 1, 2),
     Message("INGRESS", 1, 2, 3), Message("EGRESS", 1, 1, 1)}

AcceptsMost ==
    [p \in Profiles |-> {m \in Messages : p = shared \/ m.direction = "INGRESS"}]

Symmetry == Permutations(Callers) \cup Permutations(Reviews)
=============================================================================
