------------------------------ MODULE BytePipe ------------------------------
(***************************************************************************)
(* What a reliable byte transfer promises its two users: the bytes that    *)
(* come out are, at every moment, an initial piece of the bytes that went  *)
(* in, and neither end ever takes back a byte.                             *)
(***************************************************************************)
EXTENDS Naturals, Sequences

CONSTANT Byte

VARIABLES
    sent,       \* every byte the sending user handed over, in order
    delivered   \* every byte the receiving user can read, in order

vars == <<sent, delivered>>

Extends(longer, shorter) ==
    /\ Len(shorter) <= Len(longer)
    /\ \A i \in 1..Len(shorter) : longer[i] = shorter[i]

Init == sent = <<>> /\ delivered = <<>>

Submit ==
    /\ sent' \in Seq(Byte)
    /\ Extends(sent', sent)
    /\ Len(sent') > Len(sent)
    /\ UNCHANGED delivered

Deliver ==
    /\ delivered' \in Seq(Byte)
    /\ Extends(delivered', delivered)
    /\ Len(delivered') > Len(delivered)
    /\ Extends(sent, delivered')
    /\ UNCHANGED sent

Next == Submit \/ Deliver

Spec == Init /\ [][Next]_vars
=============================================================================
