----------------------------- MODULE CertChain ------------------------------
(***************************************************************************)
(* The abstraction of a PEM file shared by the parsing modules, and what   *)
(* parseCertificates (src/manager/cmd/serve.go) computes from it.  A file  *)
(* is its sequence of blocks: a certificate x509.ParseCertificate accepts  *)
(* (one of Certs), a CERTIFICATE block it rejects ("BadCert"), or a block  *)
(* of another type ("Other", e.g. a private key).                          *)
(***************************************************************************)
EXTENDS Naturals, Sequences

CONSTANT Certs   \* certificates that parse

(* The two special blocks are not certificates.                            *)
ASSUME CertChainAssumption == "Other" \notin Certs /\ "BadCert" \notin Certs

Blocks == Certs \cup {"Other", "BadCert"}

(* The position of the first block that stops the loop, Len + 1 if none.   *)
FirstStop(bs) ==
    LET stops == {i \in 1..Len(bs) : bs[i] \notin Certs}
    IN  IF stops = {} THEN Len(bs) + 1
        ELSE CHOOSE i \in stops : \A j \in stops : i <= j

(* The certificates before the first stop.                                 *)
LeadingCerts(bs) == SubSeq(bs, 1, FirstStop(bs) - 1)

(* The first stop is a certificate x509 rejects.                           *)
ParseFails(bs) == FirstStop(bs) <= Len(bs) /\ bs[FirstStop(bs)] = "BadCert"
=============================================================================
