------------------------------ MODULE Validate ------------------------------
(***************************************************************************)
(* The contract validate command (validateCmd.RunE in                      *)
(* src/manager/ocpp/ocpp16/reservation_response.go): it reads every        *)
(* --trust-root PEM file with readCertificatesFromPEMFile, whose parsing   *)
(* loop is the one of PemParsing, appends the certificates to the trust    *)
(* roots, and then validates each <emaid>:<pemFile> argument.              *)
(*                                                                         *)
(* The loop over one trust-root file is PemParsing's, instantiated on the  *)
(* parser variables input, pemData, certs and result.  An argument is      *)
(* abstracted to how strings.Split cuts it and whether its file can be     *)
(* read; the validator's verdict is only printed and is left out.          *)
(***************************************************************************)
EXTENDS CertChain

CONSTANTS
    MaxBlocks,   \* bound on the blocks of a file
    MaxFiles,    \* bound on the --trust-root files
    MaxArgs      \* bound on the <emaid>:<pemFile> arguments

(* The bounds are numbers.                                                 *)
ASSUME ValidateAssumption ==
    MaxBlocks \in Nat /\ MaxFiles \in Nat /\ MaxArgs \in Nat

VARIABLES
    input, pemData, certs, result,   \* the parser of the current root file
    rootFiles,   \* the blocks of each --trust-root file, in flag order
    fileIdx,     \* the next trust-root file to read
    trustRoots,  \* the trust roots collected so far
    args,        \* the command-line arguments
    argIdx,      \* the next argument to validate
    validated,   \* the arguments whose chain went to the validator
    pc,          \* "readRoot", "parseRoot", "validate" or "returned"
    retErr       \* what RunE returned

P == INSTANCE PemParsing

parser == <<input, pemData, certs, result>>
vars == <<input, pemData, certs, result, rootFiles, fileIdx, trustRoots,
          args, argIdx, validated, pc, retErr>>

Files == UNION {[1..n -> Blocks] : n \in 0..MaxBlocks}

(***************************************************************************)
(* An argument: "pair" has one colon between the emaid and the path,       *)
(* "bare" has none; pathColon says the path itself holds a colon (as a     *)
(* Windows drive letter does); readable says os.ReadFile succeeds.         *)
(***************************************************************************)
Args == {a \in [form : {"pair", "bare"}, pathColon : BOOLEAN,
                readable : BOOLEAN] : a.form = "bare" => ~a.pathColon}

(* len(strings.Split(arg, ":")).                                           *)
Parts(a) == IF a.form = "bare" THEN 1 ELSE IF a.pathColon THEN 3 ELSE 2

(* RunE returns.                                                           *)
Return(e) == pc' = "returned" /\ retErr' = e

-----------------------------------------------------------------------------
(***************************************************************************)
(* The next trust-root file: os.ReadFile may fail, which ends the command; *)
(* otherwise its blocks are handed to parseCertificates.  After the last   *)
(* file the command goes on to the arguments.                              *)
(***************************************************************************)
ReadRootFile ==
    /\ pc = "readRoot"
    /\ \/ /\ fileIdx > Len(rootFiles)
          /\ pc' = "validate"
          /\ UNCHANGED <<parser, retErr>>
       \/ /\ fileIdx <= Len(rootFiles)
          /\ Return("error")
          /\ UNCHANGED parser
       \/ /\ fileIdx <= Len(rootFiles)
          /\ input' = rootFiles[fileIdx]
          /\ pemData' = rootFiles[fileIdx]
          /\ certs' = << >>
          /\ result' = "running"
          /\ pc' = "parseRoot"
          /\ UNCHANGED retErr
    /\ UNCHANGED <<rootFiles, fileIdx, trustRoots, args, argIdx, validated>>

(* One iteration of the parsing loop on the current file.                  *)
ParseRoot ==
    /\ pc = "parseRoot"
    /\ P!ParseStep
    /\ UNCHANGED <<rootFiles, fileIdx, trustRoots, args, argIdx, validated,
                   pc, retErr>>

(* Mutant: the file's certificates replace the roots gathered so far.      *)
CollectRootsOverwrite ==
    /\ pc = "parseRoot"
    /\ result = "ok"
    /\ trustRoots' = certs
    /\ fileIdx' = fileIdx + 1
    /\ pc' = "readRoot"
    /\ UNCHANGED <<parser, rootFiles, args, argIdx, validated, retErr>>

(* Mutant: the file's blocks are appended instead of the parsed chain.     *)
CollectRootsRawBlocks ==
    /\ pc = "parseRoot"
    /\ result = "ok"
    /\ trustRoots' = trustRoots \o input
    /\ fileIdx' = fileIdx + 1
    /\ pc' = "readRoot"
    /\ UNCHANGED <<parser, rootFiles, args, argIdx, validated, retErr>>

(***************************************************************************)
(* parseCertificates has returned: an error ends the command, otherwise    *)
(* the certificates are appended to the trust roots.                       *)
(***************************************************************************)
CollectRoots ==
    /\ pc = "parseRoot"
    /\ \/ /\ result = "error"
          /\ Return("error")
          /\ UNCHANGED <<trustRoots, fileIdx>>
       \/ /\ result = "ok"
          /\ trustRoots' = trustRoots \o certs
          /\ fileIdx' = fileIdx + 1
          /\ pc' = "readRoot"
          /\ UNCHANGED retErr
    /\ UNCHANGED <<parser, rootFiles, args, argIdx, validated>>

(***************************************************************************)
(* One iteration of the loop over the arguments: an argument that does not *)
(* split into exactly two parts, or whose file cannot be read, ends the    *)
(* command with an error; otherwise its chain is validated and the verdict *)
(* printed.  After the last argument RunE returns nil.                     *)
(***************************************************************************)
ValidateArg ==
    /\ pc = "validate"
    /\ \/ /\ argIdx > Len(args)
          /\ Return("nil")
          /\ UNCHANGED <<argIdx, validated>>
       \/ /\ argIdx <= Len(args)
          /\ Parts(args[argIdx]) # 2 \/ ~args[argIdx].readable
          /\ Return("error")
          /\ UNCHANGED <<argIdx, validated>>
       \/ /\ argIdx <= Len(args)
          /\ Parts(args[argIdx]) = 2
          /\ args[argIdx].readable
          /\ validated' = validated \cup {argIdx}
          /\ argIdx' = argIdx + 1
          /\ UNCHANGED <<pc, retErr>>
    /\ UNCHANGED <<parser, rootFiles, fileIdx, trustRoots, args>>

-----------------------------------------------------------------------------
Init ==
    /\ rootFiles \in UNION {[1..n -> Files] : n \in 0..MaxFiles}
    /\ args \in UNION {[1..n -> Args] : n \in 0..MaxArgs}
    /\ input = << >> /\ pemData = << >> /\ certs = << >> /\ result = "ok"
    /\ fileIdx = 1
    /\ trustRoots = << >>
    /\ argIdx = 1
    /\ validated = {}
    /\ pc = "readRoot"
    /\ retErr = "none"

Next == ReadRootFile \/ ParseRoot \/ CollectRoots \/ ValidateArg

Spec == Init /\ [][Next]_vars /\ WF_vars(Next)

-----------------------------------------------------------------------------
TypeOK ==
    /\ P!TypeOK
    /\ rootFiles \in Seq(Files)
    /\ fileIdx \in 1..(Len(rootFiles) + 1)
    /\ trustRoots \in Seq(Certs)
    /\ args \in Seq(Args)
    /\ argIdx \in 1..(Len(args) + 1)
    /\ validated \subseteq 1..Len(args)
    /\ pc \in {"readRoot", "parseRoot", "validate", "returned"}
    /\ retErr \in {"none", "nil", "error"}

(***************************************************************************)
(* The trust roots the validator is built with are exactly the chains      *)
(* parsed from the --trust-root files, all of them and in flag order: cut  *)
(* splits trustRoots into consecutive pieces, the i-th of which is what    *)
(* parseCertificates returns for the i-th file.  No file's certificates    *)
(* are lost, repeated or reordered across the loop, and no argument is     *)
(* validated before every file has been read.                              *)
(***************************************************************************)
RootsAreParsedChains ==
    /\ \E cut \in [0..(fileIdx - 1) -> 0..Len(trustRoots)] :
          /\ cut[0] = 0
          /\ cut[fileIdx - 1] = Len(trustRoots)
          /\ \A i \in 1..(fileIdx - 1) :
                /\ cut[i - 1] <= cut[i]
                /\ SubSeq(trustRoots, cut[i - 1] + 1, cut[i])
                       = LeadingCerts(rootFiles[i])
    /\ pc = "validate" => fileIdx = Len(rootFiles) + 1
=============================================================================
