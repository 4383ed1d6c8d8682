----------------------------- MODULE ParseChain -----------------------------
(***************************************************************************)
(* What parseCertificates (src/manager/cmd/serve.go) promises, as one      *)
(* atomic step: from the blocks of a PEM file it returns the certificates  *)
(* before the first block that is not a parsable certificate, or an error  *)
(* when that block is a CERTIFICATE that x509 rejects.  PemParsing, the    *)
(* block-by-block loop of the code, is shown to implement it.              *)
(***************************************************************************)
EXTENDS CertChain

CONSTANT MaxBlocks

VARIABLES
    input,    \* the blocks of the file
    chain,    \* the certificates returned (empty until parsing is done)
    outcome   \* "running", then "ok" or "error"

avars == <<input, chain, outcome>>

AInit ==
    /\ input \in UNION {[1..n -> Blocks] : n \in 0..MaxBlocks}
    /\ chain = << >>
    /\ outcome = "running"

(* parseCertificates returns.                                              *)
Parse ==
    /\ outcome = "running"
    /\ outcome' = IF ParseFails(input) THEN "error" ELSE "ok"
    /\ chain' = IF ParseFails(input) THEN << >> ELSE LeadingCerts(input)
    /\ UNCHANGED input

ANext == Parse

(* The safety part, which the proofs establish.                            *)
SafeSpec == AInit /\ [][ANext]_avars

(* The specification: parseCertificates eventually returns.               *)
ASpec == SafeSpec /\ WF_avars(Parse)
=============================================================================
