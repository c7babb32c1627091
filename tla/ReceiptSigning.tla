----------------------------- MODULE ReceiptSigning -----------------------------
(***************************************************************************)
(* Signing of decision receipts: the RECEIPT_SIGN handler of worker.ts     *)
(* over receipt_signing_claims and receipt_custody, driven by the outbox.  *)
(*                                                                         *)
(* The handler takes the place of the abstract one of DurableOutbox.  Its  *)
(* calls are one transaction or one request to the key service each, and   *)
(* one action each: load the receipt, look for custody, claim the signing  *)
(* under a lease of its own, sign, store custody, complete the claim.  A   *)
(* worker that finds custody, or does not get the claim, returns normally. *)
(* Any call may throw; the outbox then retries the message.                *)
(*                                                                         *)
(* Data.  A receipt and the message that has it signed are one: they are   *)
(* inserted by one transaction, under one dedupe key.  A signature is its  *)
(* number among those of its receipt; custody is the signature it holds.   *)
(***************************************************************************)
EXTENDS DurableOutbox

CONSTANT MaxClaimLapses  \* bound of the signing claims that lapse under a worker

Unsigned == 0

ASSUME ReceiptSigningAssumption == MaxClaimLapses \in Nat

VARIABLES
    step,         \* where each worker is in the handler
    signature,    \* signature each worker has in memory
    loaded,       \* whether the receipt in memory already showed a signature
    claim,        \* receipt_signing_claims
    custody,      \* receipt_custody
    made,         \* signatures the key service has made of each receipt
    altered,      \* receipts of which a signed version was signed again
    claimLapses   \* signing claims of each receipt that lapsed

memory == <<step, signature, loaded>>
custodian == <<claim, custody, made, altered, claimLapses>>
signing == <<memory, custodian>>
all == <<vars, signing>>

-----------------------------------------------------------------------------
(* Claims and the handler's place. *)

NoClaim == [status |-> "NONE", lease |-> "NULL"]

Running == [status |-> "CLAIMED", lease |-> "RUNNING"]

Receipt(w) == job[w].message

OnStep(w, place) == step[w] = place

Step(w, place) == step' = [step EXCEPT ![w] = place]

\* The worker that signs under the claim, or one whose claim was taken over.
Signing(w, r) == job[w].message = r /\ step[w] \in {"SIGN", "STORE", "FINISH"}

-----------------------------------------------------------------------------
(* The handler. *)

\* verify passes and the handler begins.
Begin(w) ==
    /\ VerifyPasses(w)
    /\ Step(w, "LOAD")
    /\ UNCHANGED <<signature, loaded, custodian>>

\* getReceipt: a join that shows the custody, if there is one.
LoadReceipt(w) ==
    /\ OnStep(w, "LOAD")
    /\ loaded' = [loaded EXCEPT ![w] = custody[Receipt(w)] # Unsigned]
    /\ Step(w, "CHECK")
    /\ UNCHANGED <<vars, signature, custodian>>

\* getReceiptCustody
CheckCustody(w) ==
    /\ OnStep(w, "CHECK")
    /\ Step(w, IF custody[Receipt(w)] # Unsigned THEN "RETURN" ELSE "CLAIM")
    /\ UNCHANGED <<vars, signature, loaded, custodian>>

\* Mutant: a claim under way is taken over.
ClaimableRunning(c) == c.status \in {"NONE", "CLAIMED"}

\* INSERT ... ON CONFLICT DO UPDATE ... WHERE status='CLAIMED' AND
\* lease_expires_at <= now()
ClaimFree(c) ==
    \/ c.status = "NONE"
    \/ c.status = "CLAIMED" /\ c.lease = "EXPIRED"

ClaimReceiptSigning(w) ==
    /\ OnStep(w, "CLAIM")
    /\ IF ClaimFree(claim[Receipt(w)])
         THEN claim' = [claim EXCEPT ![Receipt(w)] = Running] /\ Step(w, "SIGN")
         ELSE UNCHANGED claim /\ Step(w, "RETURN")
    /\ UNCHANGED <<vars, signature, loaded, custody, made, altered, claimLapses>>

\* Mutant: the signature is made and not stored.
SignUnstored(w) ==
    LET r == Receipt(w)
    IN  /\ OnStep(w, "SIGN")
        /\ made' = [made EXCEPT ![r] = @ + 1]
        /\ Step(w, "FINISH")
        /\ UNCHANGED <<vars, signature, loaded, claim, custody, altered, claimLapses>>

\* The key service signs the digest of the receipt in memory.
Sign(w) ==
    LET r == Receipt(w)
    IN  /\ OnStep(w, "SIGN")
        /\ made' = [made EXCEPT ![r] = @ + 1]
        /\ signature' = [signature EXCEPT ![w] = made'[r]]
        /\ altered' = IF loaded[w] THEN altered \cup {r} ELSE altered
        /\ Step(w, "STORE")
        /\ UNCHANGED <<vars, loaded, claim, custody, claimLapses>>

\* INSERT ... ON CONFLICT DO NOTHING
Stored(stored, new) == IF stored = Unsigned THEN new ELSE stored

PutReceiptCustody(w) ==
    /\ OnStep(w, "STORE")
    /\ custody' = [custody EXCEPT ![Receipt(w)] = Stored(@, signature[w])]
    /\ Step(w, "FINISH")
    /\ UNCHANGED <<vars, signature, loaded, claim, made, altered, claimLapses>>

\* UPDATE ... SET status='COMPLETED', lease_expires_at=now() WHERE
\* status='CLAIMED', whoever claimed it.
CompleteReceiptSigning(w) ==
    LET r == Receipt(w)
    IN  /\ OnStep(w, "FINISH")
        /\ claim' = [claim EXCEPT ![r] = [status |-> "COMPLETED", lease |-> "EXPIRED"]]
        /\ Step(w, "RETURN")
        /\ UNCHANGED <<vars, signature, loaded, custody, made, altered, claimLapses>>

\* The handler returns, with or without a signature.
Return(w) ==
    /\ OnStep(w, "RETURN")
    /\ HandlerReturns(w)
    /\ Step(w, "OUT")
    /\ UNCHANGED <<signature, loaded, custodian>>

\* Mutant: the handler swallows what a call throws.
ThrowSwallowed(w) ==
    /\ ~OnStep(w, "OUT")
    /\ Step(w, "RETURN")
    /\ UNCHANGED <<vars, signature, loaded, custodian>>

\* A call of the handler throws: the key service is not available, a
\* transaction is rolled back, or its answer is lost after the commit.
Throw(w) ==
    /\ ~OnStep(w, "OUT")
    /\ HandlerThrows(w)
    /\ Step(w, "OUT")
    /\ UNCHANGED <<signature, loaded, custodian>>

StopSigning(w) ==
    /\ Stop(w)
    /\ Step(w, "OUT")
    /\ UNCHANGED <<signature, loaded, custodian>>

\* The claim's lease_expires_at passes, perhaps under a worker that is slow.
ClaimExpires(r) ==
    /\ claim[r] = Running
    /\ (\E w \in Workers : Signing(w, r)) => claimLapses[r] < MaxClaimLapses
    /\ claim' = [claim EXCEPT ![r].lease = "EXPIRED"]
    /\ claimLapses' = [claimLapses EXCEPT ![r] = @ + 1]
    /\ UNCHANGED <<vars, memory, custody, made, altered>>

-----------------------------------------------------------------------------
SigningInit ==
    /\ Init
    /\ step = [w \in Workers |-> "OUT"]
    /\ signature = [w \in Workers |-> Unsigned]
    /\ loaded = [w \in Workers |-> FALSE]
    /\ claim = [r \in Messages |-> NoClaim]
    /\ custody = [r \in Messages |-> Unsigned]
    /\ made = [r \in Messages |-> 0]
    /\ altered = {}
    /\ claimLapses = [r \in Messages |-> 0]

Handler(w) ==
    \/ LoadReceipt(w) \/ CheckCustody(w) \/ ClaimReceiptSigning(w) \/ Sign(w)
    \/ PutReceiptCustody(w) \/ CompleteReceiptSigning(w) \/ Return(w) \/ Throw(w)

\* What the outbox does around the handler.
Around ==
    /\ \/ \E m \in Messages :
            Enqueue(m) \/ Environment(m) \/ \E w \in Workers : ClaimOutbox(w, m)
       \/ \E w \in Workers : VerifyThrows(w) \/ Settle(w) \/ CompletionThrows(w)
    /\ UNCHANGED signing

SigningNext ==
    \/ Around
    \/ \E w \in Workers : Begin(w) \/ Handler(w) \/ StopSigning(w)
    \/ \E r \in Messages : ClaimExpires(r)

SigningSpec == SigningInit /\ [][SigningNext]_all

\* As in DurableOutbox: calls return or throw, workers poll, time passes.
SigningFairness ==
    /\ \A w \in Workers :
        /\ WF_all((\E m \in Messages : ClaimOutbox(w, m)) /\ UNCHANGED signing)
        /\ WF_all(Begin(w) \/ (VerifyThrows(w) /\ UNCHANGED signing))
        /\ WF_all(Handler(w))
        /\ WF_all(Settle(w) /\ UNCHANGED signing)
    /\ \A m \in Messages :
        /\ WF_all(LeaseExpires(m) /\ UNCHANGED signing)
        /\ WF_all(BecomesDue(m) /\ UNCHANGED signing)
        /\ WF_all(ClaimExpires(m))

FairSigning == SigningSpec /\ SigningFairness

-----------------------------------------------------------------------------
(* Properties. *)

\* Whoever signs what, at whichever time: the signature that readers of a receipt
\* have seen is never replaced.  (putReceiptCustody)
CustodyIsPermanent ==
    [][\A r \in Messages : custody[r] # Unsigned => custody'[r] = custody[r]]_all

\* Claims and custody agree: a claim is completed only when a signature that was
\* made is stored, and a message that was completed without one leaves a claim
\* that is not completed, so nothing else keeps a receipt unsigned.  (handle,
\* completeReceiptSigning)
ClaimsTellCustody ==
    \A r \in Messages :
        /\ claim[r].status = "COMPLETED" => custody[r] \in 1 .. made[r]
        /\ row[r].status = "COMPLETED" /\ custody[r] = Unsigned
               => claim[r].status = "CLAIMED"

\* Duplicate signing is rejected: however often the message is delivered, a
\* receipt is signed again only after a signing claim on it has lapsed, and then
\* as it was issued, not as a receipt that shows a signature.  (claimReceiptSigning;
\* handle reads the receipt, which joins the custody, before it looks for custody)
SignaturesFollowLapses ==
    \A r \in Messages : made[r] <= 1 + claimLapses[r] /\ r \notin altered

\* A receipt is signed in the end, unless its message becomes a dead letter or
\* a worker fails or stops with the signing claim in its hands.  (handle)
Interrupted(r) ==
    /\ claim[r].status = "CLAIMED"
    /\ \A w \in Workers : ~Signing(w, r)

EventuallySigned ==
    \A r \in Messages :
        []<>(\/ row[r].status \in {"NONE", "DEAD_LETTER"}
             \/ custody[r] # Unsigned
             \/ Interrupted(r))

\* "The outbox provides restart-safe, at-least-once processing" (docs/platform/
\* CEREBRUM_PLATFORM_ARCHITECTURE.md:688): once RECEIPT_SIGN is completed, the
\* receipt is signed or a worker is about to sign it.
CompletedIsSigned ==
    \A r \in Messages :
        row[r].status = "COMPLETED"
            => custody[r] # Unsigned \/ \E w \in Workers : Signing(w, r)
=============================================================================
