------------------------------- MODULE Outbox -------------------------------
(***************************************************************************)
(* What the send buffer of a wire promises, without its threads, locks and *)
(* three queues: packages leave it in the order they were put, none        *)
(* before its receipt is known, and none is left out.                      *)
(***************************************************************************)
EXTENDS Naturals, Sequences

VARIABLES
    box,        \* the packages accepted and not forgotten, oldest first
    accepted,   \* how many were ever accepted; a package is its number
    receipt     \* the highest package whose receipt is known

boxVars == <<box, accepted, receipt>>

Empty == box = <<>> /\ accepted = 0 /\ receipt = 0

Accept ==
    /\ accepted' = accepted + 1
    /\ box' = Append(box, accepted')
    /\ UNCHANGED receipt

Acknowledged ==
    /\ receipt' \in receipt .. accepted
    /\ UNCHANGED <<box, accepted>>

Forget ==
    /\ \E n \in 0 .. Len(box) :
         /\ \A k \in 1 .. n : box[k] <= receipt
         /\ box' = SubSeq(box, n + 1, Len(box))
    /\ UNCHANGED <<accepted, receipt>>

\* The process starts anew, with nothing of the old one.
StartAnew == Empty'

OutboxNext == Accept \/ Acknowledged \/ Forget \/ StartAnew

OutboxSpec == Empty /\ [][OutboxNext]_boxVars
=============================================================================
