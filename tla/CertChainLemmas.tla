-------------------------- MODULE CertChainLemmas ---------------------------
(***************************************************************************)
(* Lemmas about the operators of CertChain, cited by the proofs of the     *)
(* parsing loop (PemParsingProofs) and of the validate command            *)
(* (ValidateProofs).                                                       *)
(***************************************************************************)
EXTENDS CertChain, TLAPS

(* A file of certificates only: nothing stops the loop before its end.     *)
LEMMA FirstStopNone ==
    ASSUME NEW c \in Seq(Certs)
    PROVE  /\ FirstStop(c) = Len(c) + 1
           /\ LeadingCerts(c) = c
           /\ ~ParseFails(c)
<1>1. {i \in 1..Len(c) : c[i] \notin Certs} = {}
    OBVIOUS
<1>2. FirstStop(c) = Len(c) + 1
    BY <1>1 DEF FirstStop
<1>. QED  BY <1>2 DEF LeadingCerts, ParseFails

(* Certificates followed by a block that is not one: the loop stops there. *)
LEMMA FirstStopAt ==
    ASSUME NEW c \in Seq(Certs), NEW d \in Seq(Blocks), d # << >>,
           Head(d) \notin Certs
    PROVE  /\ FirstStop(c \o d) = Len(c) + 1
           /\ (c \o d)[Len(c) + 1] = Head(d)
           /\ LeadingCerts(c \o d) = c
<1> DEFINE bs == c \o d
           stops == {i \in 1..Len(bs) : bs[i] \notin Certs}
           k == Len(c) + 1
<1>1. bs[k] = Head(d) /\ k \in 1..Len(bs)
    OBVIOUS
<1>2. k \in stops /\ \A j \in stops : k <= j
    BY <1>1
<1>3. \A i \in stops : (\A j \in stops : i <= j) => i = k
    BY <1>2
<1>4. FirstStop(bs) = k
    BY <1>2, <1>3 DEF FirstStop
<1>5. SubSeq(bs, 1, k - 1) = c
    OBVIOUS
<1>. QED  BY <1>1, <1>4, <1>5 DEF LeadingCerts
=============================================================================
