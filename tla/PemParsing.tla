----------------------------- MODULE PemParsing -----------------------------
(***************************************************************************)
(* parseCertificates and parseCertificate (src/manager/cmd/serve.go), the  *)
(* loop that turns a PEM file into the trust roots and chains the manager  *)
(* validates against.  A PEM file is abstracted to its sequence of blocks: *)
(* a certificate that x509.ParseCertificate accepts (one of Certs), a      *)
(* CERTIFICATE block it rejects ("BadCert"), or a block of another type    *)
(* ("Other", e.g. a private key).  The end of the sequence is where        *)
(* pem.Decode finds no further block.                                      *)
(***************************************************************************)
EXTENDS CertChain

CONSTANT MaxBlocks   \* bound on the number of blocks in a file

ASSUME PemParsingAssumption == MaxBlocks \in Nat

VARIABLES
    input,    \* the blocks of the file read (never changes)
    pemData,  \* the blocks not yet decoded
    certs,    \* the certificates parsed so far
    result    \* "running", then "ok" or "error"

vars == <<input, pemData, certs, result>>

Init ==
    /\ input \in UNION {[1..n -> Blocks] : n \in 0..MaxBlocks}
    /\ pemData = input
    /\ certs = << >>
    /\ result = "running"

(***************************************************************************)
(* The outcomes of one call of parseCertificate, each with what the loop   *)
(* of parseCertificates then does with it.                                 *)
(***************************************************************************)

(* Mutant: running out of blocks is reported as an error.                 *)
EndOfDataError ==
    /\ pemData = << >>
    /\ result' = "error"
    /\ certs' = << >>
    /\ UNCHANGED pemData

(* pem.Decode finds no block: nil certificate, the loop breaks.            *)
EndOfData ==
    /\ pemData = << >>
    /\ result' = "ok"
    /\ UNCHANGED <<pemData, certs>>

(* Wrong: a nil certificate makes the loop go on instead of breaking.      *)
NotCertificateContinue ==
    /\ pemData # << >>
    /\ Head(pemData) = "Other"
    /\ UNCHANGED <<pemData, certs, result>>

(* A block whose type is not CERTIFICATE: nil certificate, the loop        *)
(* breaks with what it has.                                                *)
NotCertificate ==
    /\ pemData # << >>
    /\ Head(pemData) = "Other"
    /\ result' = "ok"
    /\ UNCHANGED <<pemData, certs>>

(* Wrong: the error of parseCertificate is not checked.                    *)
RejectedIgnored ==
    /\ pemData # << >>
    /\ Head(pemData) = "BadCert"
    /\ certs' = Append(certs, Head(pemData))
    /\ pemData' = Tail(pemData)
    /\ UNCHANGED result

(* x509.ParseCertificate fails: parseCertificates returns nil and the error. *)
Rejected ==
    /\ pemData # << >>
    /\ Head(pemData) = "BadCert"
    /\ result' = "error"
    /\ certs' = << >>
    /\ UNCHANGED pemData

(* Wrong: pemData is not advanced to the rest after a certificate.         *)
AcceptedNoAdvance ==
    /\ pemData # << >>
    /\ Head(pemData) \in Certs
    /\ certs' = Append(certs, Head(pemData))
    /\ UNCHANGED <<pemData, result>>

(* A certificate: appended to the chain, decoding goes on with the rest.   *)
Accepted ==
    /\ pemData # << >>
    /\ Head(pemData) \in Certs
    /\ certs' = Append(certs, Head(pemData))
    /\ pemData' = Tail(pemData)
    /\ UNCHANGED result

(* One iteration of the for loop of parseCertificates.                     *)
ParseStep ==
    /\ result = "running"
    /\ EndOfData \/ NotCertificate \/ Rejected \/ Accepted
    /\ UNCHANGED input

Next == ParseStep

Spec == Init /\ [][Next]_vars /\ WF_vars(ParseStep)

-----------------------------------------------------------------------------
TypeOK ==
    /\ input \in Seq(Blocks)
    /\ pemData \in Seq(Blocks)
    /\ certs \in Seq(Certs)
    /\ result \in {"running", "ok", "error"}

(***************************************************************************)
(* Until it fails, the loop has consumed exactly a prefix of the file: the *)
(* certificates it holds, in the file's order, followed by what is still   *)
(* to be decoded.  No block is skipped, repeated or reordered.             *)
(***************************************************************************)
ParsedPrefixInOrder ==
    result # "error" => input = certs \o pemData

(* The loop always ends, with the chain or with an error.                  *)
ParsingTerminates == <>(result # "running")

(***************************************************************************)
(* The loop seen through the abstract specification ParseChain: the chain  *)
(* it returns is visible only once it has returned.                        *)
(***************************************************************************)
Chain == INSTANCE ParseChain
             WITH chain <- IF result = "running" THEN << >> ELSE certs,
                  outcome <- result

(***************************************************************************)
(* The block-by-block loop of parseCertificates implements the atomic      *)
(* ParseChain: it returns, once, the certificates before the first block   *)
(* that is not a parsable certificate, or an error if that block is a      *)
(* CERTIFICATE x509 rejects.                                               *)
(***************************************************************************)
ImplementsParseChain == Chain!ASpec

(* The certificates of a sequence of blocks, in order.                     *)
CertsOf(bs) == SelectSeq(bs, LAMBDA b : b \in Certs)

(***************************************************************************)
(* Spec 4.7 step 1: all PEM blocks of type CERTIFICATE are parsed into an  *)
(* ordered chain.  A successful parse therefore returns every certificate  *)
(* of the file.                                                            *)
(***************************************************************************)
AllCertificatesParsed ==
    result = "ok" => certs = CertsOf(input)
=============================================================================
