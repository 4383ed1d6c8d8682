-------------------------- MODULE PemParsingProofs --------------------------
(***************************************************************************)
(* Proofs about the decoding loop of parseCertificates (PemParsing).       *)
(***************************************************************************)
EXTENDS PemParsing, CertChainLemmas, TLAPS

USE PemParsingAssumption, CertChainAssumption

(* The inductive invariant: the type invariant and the prefix property.    *)
IInv == TypeOK /\ ParsedPrefixInOrder

LEMMA InitIInv == Init => IInv
<1> SUFFICES ASSUME Init PROVE IInv
    OBVIOUS
<1>1. input \in Seq(Blocks)
    <2>1. PICK n \in 0..MaxBlocks : input \in [1..n -> Blocks]
        BY DEF Init
    <2>. QED  BY <2>1
<1>. QED  BY <1>1 DEF Init, IInv, TypeOK, ParsedPrefixInOrder

LEMMA StepIInv == IInv /\ [Next]_vars => IInv'
<1> SUFFICES ASSUME IInv, [Next]_vars PROVE IInv'
    OBVIOUS
<1>1. CASE UNCHANGED vars
    BY <1>1 DEF vars, IInv, TypeOK, ParsedPrefixInOrder
<1>2. CASE result = "running" /\ EndOfData /\ UNCHANGED input
    <2>1. input' = input /\ pemData' = pemData /\ certs' = certs
        BY <1>2 DEF EndOfData
    <2>2. result' = "ok"
        BY <1>2 DEF EndOfData
    <2>. QED  BY <1>2, <2>1, <2>2 DEF IInv, TypeOK, ParsedPrefixInOrder
<1>3. CASE result = "running" /\ NotCertificate /\ UNCHANGED input
    <2>1. input' = input /\ pemData' = pemData /\ certs' = certs
        BY <1>3 DEF NotCertificate
    <2>2. result' = "ok"
        BY <1>3 DEF NotCertificate
    <2>. QED  BY <1>3, <2>1, <2>2 DEF IInv, TypeOK, ParsedPrefixInOrder
<1>4. CASE result = "running" /\ Rejected /\ UNCHANGED input
    BY <1>4 DEF Rejected, IInv, TypeOK, ParsedPrefixInOrder
<1>5. CASE result = "running" /\ Accepted /\ UNCHANGED input
    <2>1. pemData # << >> /\ Head(pemData) \in Certs
        BY <1>5 DEF Accepted
    <2>2. TypeOK'
        BY <1>5, <2>1 DEF Accepted, IInv, TypeOK, Blocks
    <2>3. certs' \o pemData' = certs \o pemData
        BY <1>5, <2>1 DEF Accepted, IInv, TypeOK
    <2>4. result' = result
        BY <1>5 DEF Accepted
    <2>. QED  BY <1>5, <2>2, <2>3, <2>4 DEF IInv, ParsedPrefixInOrder
<1>. QED  BY <1>1, <1>2, <1>3, <1>4, <1>5 DEF Next, ParseStep

(***************************************************************************)
(* The loop of parseCertificates consumes its input in order: whenever it  *)
(* has not failed, the chain it holds followed by the undecoded rest is    *)
(* exactly the file, for every file and every set of certificates.         *)
(***************************************************************************)
THEOREM PrefixInOrder == Spec => []ParsedPrefixInOrder
<1>1. Init => IInv
    BY InitIInv
<1>2. IInv /\ [Next]_vars => IInv'
    BY StepIInv
<1>3. IInv => ParsedPrefixInOrder
    BY DEF IInv
<1>. QED  BY <1>1, <1>2, <1>3, PTL DEF Spec
-----------------------------------------------------------------------------
(* ParseChain's operators, seen through the instance, are CertChain's.     *)
LEMMA ChainOps ==
    \A bs : /\ Chain!LeadingCerts(bs) = LeadingCerts(bs)
           /\ Chain!ParseFails(bs) = ParseFails(bs)
BY DEF Chain!LeadingCerts, LeadingCerts, Chain!ParseFails, ParseFails,
       Chain!FirstStop, FirstStop

(* Every step of the loop is a step of ParseChain or leaves its state alone. *)
LEMMA StepRefines == IInv /\ [Next]_vars => [Chain!ANext]_Chain!avars
<1> SUFFICES ASSUME IInv, [Next]_vars PROVE [Chain!ANext]_Chain!avars
    OBVIOUS
<1>0. /\ certs \in Seq(Certs) /\ pemData \in Seq(Blocks)
      /\ result \in {"running", "ok", "error"}
    BY DEF IInv, TypeOK
<1>1. CASE UNCHANGED vars
    BY <1>1 DEF vars, Chain!avars
<1>2. CASE result = "running" /\ EndOfData /\ UNCHANGED input
    <2>1. input = certs
        BY <1>2 DEF EndOfData, IInv, ParsedPrefixInOrder
    <2>2. LeadingCerts(input) = certs /\ ~ParseFails(input)
        BY <1>0, <2>1, FirstStopNone
    <2>. QED  BY <1>2, <2>2, ChainOps DEF EndOfData, Chain!ANext, Chain!Parse
<1>3. CASE result = "running" /\ NotCertificate /\ UNCHANGED input
    <2>1. input = certs \o pemData /\ pemData # << >>
          /\ Head(pemData) = "Other"
        BY <1>3 DEF NotCertificate, IInv, ParsedPrefixInOrder
    <2>2. /\ FirstStop(input) = Len(certs) + 1
          /\ input[Len(certs) + 1] = "Other"
          /\ LeadingCerts(input) = certs
        BY <1>0, <2>1, FirstStopAt, CertChainAssumption
    <2>3. ~ParseFails(input)
        BY <1>0, <2>2 DEF ParseFails
    <2>. QED  BY <1>3, <2>2, <2>3, ChainOps DEF NotCertificate, Chain!ANext, Chain!Parse
<1>4. CASE result = "running" /\ Rejected /\ UNCHANGED input
    <2>1. input = certs \o pemData /\ pemData # << >>
          /\ Head(pemData) = "BadCert"
        BY <1>4 DEF Rejected, IInv, ParsedPrefixInOrder
    <2>2. /\ FirstStop(input) = Len(certs) + 1
          /\ input[Len(certs) + 1] = "BadCert"
          /\ Len(certs) + 1 <= Len(input)
        BY <1>0, <2>1, FirstStopAt, CertChainAssumption
    <2>3. ParseFails(input)
        BY <2>2 DEF ParseFails
    <2>. QED  BY <1>4, <2>3, ChainOps DEF Rejected, Chain!ANext, Chain!Parse
<1>5. CASE result = "running" /\ Accepted /\ UNCHANGED input
    BY <1>5 DEF Accepted, Chain!avars
<1>. QED  BY <1>1, <1>2, <1>3, <1>4, <1>5 DEF Next, ParseStep

(***************************************************************************)
(* The block-by-block loop of parseCertificates implements the atomic      *)
(* ParseChain (its safety part): the only visible step is the return of    *)
(* the leading certificates, or of an error at a rejected certificate.     *)
(***************************************************************************)
THEOREM Refinement == Spec => Chain!SafeSpec
<1>1. Init => Chain!AInit
    BY DEF Init, Chain!AInit, Chain!Blocks, Blocks
<1>2. IInv /\ [Next]_vars => [Chain!ANext]_Chain!avars
    BY StepRefines
<1>. QED  BY <1>1, <1>2, InitIInv, StepIInv, PTL DEF Spec, Chain!SafeSpec
-----------------------------------------------------------------------------
(* Type correctness of the loop, a corollary of the inductive invariant.   *)
THEOREM TypeCorrect == Spec => []TypeOK
<1>1. IInv => TypeOK
    BY DEF IInv
<1>. QED  BY <1>1, InitIInv, StepIInv, PTL DEF Spec

(* Once the loop has returned ok, it holds ParseChain's chain of the file. *)
ChainReturned == result = "ok" => certs = LeadingCerts(input)

(***************************************************************************)
(* A step keeps ChainReturned: read through the refinement mapping, a step *)
(* either is Parse, which returns the leading certificates, or leaves the  *)
(* abstract chain and outcome alone.                                       *)
(***************************************************************************)
LEMMA StepChainReturned ==
    IInv /\ ChainReturned /\ [Next]_vars => ChainReturned'
<1> SUFFICES ASSUME IInv, ChainReturned, [Next]_vars, result' = "ok"
             PROVE  certs' = LeadingCerts(input')
    BY DEF ChainReturned
<1>1. UNCHANGED input
    BY DEF Next, ParseStep, vars
<1>2. CASE Chain!ANext
    BY <1>1, <1>2, ChainOps DEF Chain!ANext, Chain!Parse
<1>3. CASE UNCHANGED Chain!avars
    <2>1. result = "ok"
        BY <1>3 DEF Chain!avars
    <2>. QED  BY <1>1, <1>3, <2>1 DEF Chain!avars, ChainReturned
<1>. QED  BY <1>2, <1>3, StepRefines
=============================================================================
