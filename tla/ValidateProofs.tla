--------------------------- MODULE ValidateProofs ---------------------------
(***************************************************************************)
(* Proofs about the validate command (Validate): the trust roots are the   *)
(* chains parsed from the --trust-root files, in flag order, for every     *)
(* number of files, of blocks and of arguments.                            *)
(***************************************************************************)
EXTENDS Validate, CertChainLemmas, TLAPS

USE ValidateAssumption, CertChainAssumption

(* The parser works on the file fileIdx while the loop is parsing.         *)
ParserAtFile ==
    pc = "parseRoot" => fileIdx <= Len(rootFiles) /\ input = rootFiles[fileIdx]

(* Once parseCertificates has returned ok, certs is the file's chain.      *)
ChainReturned == result = "ok" => certs = LeadingCerts(input)

(***************************************************************************)
(* The inductive invariant.  RootsAreParsedChains is not inductive alone:  *)
(* CollectRoots appends certs, and only the parser's invariants say that   *)
(* certs is then the chain of the current file.                           *)
(***************************************************************************)
VInv ==
    /\ TypeOK
    /\ P!ParsedPrefixInOrder
    /\ ChainReturned
    /\ ParserAtFile
    /\ RootsAreParsedChains

-----------------------------------------------------------------------------
(* A piece that ends within s is unchanged by appending t.                 *)
LEMMA SubSeqConcatLeft ==
    ASSUME NEW S, NEW s \in Seq(S), NEW t \in Seq(S),
           NEW a \in Nat, NEW b \in Nat, b <= Len(s)
    PROVE  SubSeq(s \o t, a + 1, b) = SubSeq(s, a + 1, b)
OBVIOUS

(* The piece after s in s \o t is t.                                       *)
LEMMA SubSeqConcatRight ==
    ASSUME NEW S, NEW s \in Seq(S), NEW t \in Seq(S)
    PROVE  SubSeq(s \o t, Len(s) + 1, Len(s) + Len(t)) = t
OBVIOUS

(* A file is a sequence of blocks.                                         *)
LEMMA FilesAreSeqs == Files \subseteq Seq(Blocks)
BY DEF Files

(* The parser's blocks are CertChain's blocks.                            *)
LEMMA ParserBlocks == P!Blocks = Blocks
BY DEF P!Blocks, Blocks

-----------------------------------------------------------------------------
(***************************************************************************)
(* One iteration of the parsing loop keeps the parser's invariants: the   *)
(* chain and the rest make up the file until it fails, and a return ok    *)
(* holds the file's chain.                                                 *)
(***************************************************************************)
LEMMA ParseStepInv ==
    ASSUME P!TypeOK, P!ParsedPrefixInOrder, ChainReturned, P!ParseStep
    PROVE  P!TypeOK' /\ P!ParsedPrefixInOrder' /\ ChainReturned'
<1>0. /\ certs \in Seq(Certs) /\ pemData \in Seq(Blocks)
      /\ input = certs \o pemData /\ input' = input
    BY ParserBlocks DEF P!TypeOK, P!ParsedPrefixInOrder, P!ParseStep
<1>1. CASE P!EndOfData
    <2>1. input = certs /\ certs' = certs /\ pemData' = pemData
        BY <1>0, <1>1 DEF P!EndOfData
    <2>2. LeadingCerts(input) = certs
        BY <1>0, <2>1, FirstStopNone
    <2>. QED  BY <1>0, <1>1, <2>1, <2>2
              DEF P!EndOfData, P!TypeOK, P!ParsedPrefixInOrder, ChainReturned
<1>2. CASE P!NotCertificate
    <2>1. pemData # << >> /\ Head(pemData) = "Other"
          /\ certs' = certs /\ pemData' = pemData
        BY <1>2 DEF P!NotCertificate
    <2>2. LeadingCerts(input) = certs
        BY <1>0, <2>1, FirstStopAt
    <2>. QED  BY <1>0, <1>2, <2>1, <2>2
              DEF P!NotCertificate, P!TypeOK, P!ParsedPrefixInOrder,
                  ChainReturned
<1>3. CASE P!Rejected
    BY <1>0, <1>3 DEF P!Rejected, P!TypeOK, P!ParsedPrefixInOrder,
                      ChainReturned
<1>4. CASE P!Accepted
    <2>1. pemData # << >> /\ Head(pemData) \in Certs
        BY <1>4 DEF P!Accepted
    <2>2. certs' \o pemData' = certs \o pemData /\ result' = "running"
        BY <1>0, <1>4, <2>1 DEF P!Accepted, P!ParseStep
    <2>3. P!TypeOK'
        BY <1>0, <1>4, <2>1, ParserBlocks DEF P!Accepted, P!TypeOK, P!ParseStep
    <2>. QED  BY <1>0, <2>2, <2>3 DEF P!ParsedPrefixInOrder, ChainReturned
<1>. QED  BY <1>1, <1>2, <1>3, <1>4 DEF P!ParseStep

-----------------------------------------------------------------------------
(* The trust roots are left alone by a step that does not touch them.      *)
LEMMA RootsFrame ==
    ASSUME RootsAreParsedChains,
           UNCHANGED <<fileIdx, trustRoots, rootFiles>>,
           pc' = "validate" => (pc = "validate" \/ fileIdx = Len(rootFiles) + 1)
    PROVE  RootsAreParsedChains'
BY DEF RootsAreParsedChains

LEMMA InitVInv == Init => VInv
<1> SUFFICES ASSUME Init PROVE VInv
    OBVIOUS
<1>1. << >> \in Seq(Blocks) /\ << >> \in Seq(Certs)
    OBVIOUS
<1>2. rootFiles \in Seq(Files) /\ args \in Seq(Args)
    BY DEF Init
<1>3. TypeOK
    BY <1>1, <1>2, ParserBlocks DEF Init, TypeOK, P!TypeOK
<1>4. LeadingCerts(<< >>) = << >>
    BY <1>1, FirstStopNone
<1>5. RootsAreParsedChains
    <2>1. fileIdx - 1 = 0 /\ Len(trustRoots) = 0 /\ 1..(fileIdx - 1) = {}
        BY DEF Init
    <2>2. \E cut \in [0..(fileIdx - 1) -> 0..Len(trustRoots)] :
              /\ cut[0] = 0
              /\ cut[fileIdx - 1] = Len(trustRoots)
              /\ \A i \in 1..(fileIdx - 1) :
                    /\ cut[i - 1] <= cut[i]
                    /\ SubSeq(trustRoots, cut[i - 1] + 1, cut[i])
                           = LeadingCerts(rootFiles[i])
        <3>1. [i \in 0..0 |-> 0] \in [0..(fileIdx - 1) -> 0..Len(trustRoots)]
            BY <2>1
        <3>. WITNESS [i \in 0..0 |-> 0] \in [0..(fileIdx - 1) -> 0..Len(trustRoots)]
        <3>. QED  BY <2>1
    <2>. QED  BY <2>2 DEF Init, RootsAreParsedChains
<1>. QED  BY <1>3, <1>4, <1>5
          DEF Init, VInv, P!ParsedPrefixInOrder, ChainReturned, ParserAtFile

LEMMA ReadRootFileVInv == VInv /\ ReadRootFile => VInv'
<1> SUFFICES ASSUME VInv, ReadRootFile PROVE VInv'
    OBVIOUS
<1>1. CASE fileIdx > Len(rootFiles) /\ pc' = "validate"
                 /\ UNCHANGED <<parser, retErr>>
    <2>1. fileIdx = Len(rootFiles) + 1
        BY <1>1 DEF VInv, TypeOK
    <2>2. RootsAreParsedChains'
        BY <2>1, RootsFrame DEF VInv, ReadRootFile
    <2>. QED  BY <1>1, <2>2
              DEF VInv, ReadRootFile, TypeOK, P!TypeOK, P!ParsedPrefixInOrder,
                  ChainReturned, ParserAtFile, parser
<1>2. CASE fileIdx <= Len(rootFiles) /\ Return("error") /\ UNCHANGED parser
    <2>1. RootsAreParsedChains'
        BY <1>2, RootsFrame DEF VInv, ReadRootFile, Return
    <2>. QED  BY <1>2, <2>1
              DEF VInv, ReadRootFile, Return, TypeOK, P!TypeOK,
                  P!ParsedPrefixInOrder, ChainReturned, ParserAtFile, parser
<1>3. CASE /\ fileIdx <= Len(rootFiles)
           /\ input' = rootFiles[fileIdx] /\ pemData' = rootFiles[fileIdx]
           /\ certs' = << >> /\ result' = "running" /\ pc' = "parseRoot"
           /\ UNCHANGED retErr
    <2>1. rootFiles[fileIdx] \in Seq(Blocks)
        BY <1>3, FilesAreSeqs DEF VInv, TypeOK
    <2>2. RootsAreParsedChains'
        BY <1>3, RootsFrame DEF VInv, ReadRootFile
    <2>3. P!TypeOK' /\ P!ParsedPrefixInOrder'
        BY <1>3, <2>1, ParserBlocks DEF P!TypeOK, P!ParsedPrefixInOrder
    <2>. QED  BY <1>3, <2>2, <2>3
              DEF VInv, ReadRootFile, TypeOK, ChainReturned, ParserAtFile
<1>. QED  BY <1>1, <1>2, <1>3 DEF ReadRootFile

LEMMA ParseRootVInv == VInv /\ ParseRoot => VInv'
<1> SUFFICES ASSUME VInv, ParseRoot PROVE VInv'
    OBVIOUS
<1>1. P!TypeOK' /\ P!ParsedPrefixInOrder' /\ ChainReturned'
    BY ParseStepInv DEF VInv, TypeOK, ParseRoot
<1>2. RootsAreParsedChains'
    BY RootsFrame DEF VInv, ParseRoot
<1>3. input' = input
    BY DEF ParseRoot, P!ParseStep
<1>. QED  BY <1>1, <1>2, <1>3 DEF VInv, ParseRoot, TypeOK, ParserAtFile

LEMMA ValidateArgVInv == VInv /\ ValidateArg => VInv'
<1> SUFFICES ASSUME VInv, ValidateArg PROVE VInv'
    OBVIOUS
<1>1. RootsAreParsedChains'
    BY RootsFrame DEF VInv, ValidateArg, Return
<1>2. TypeOK'
    <2>1. P!TypeOK' /\ UNCHANGED <<rootFiles, fileIdx, trustRoots, args>>
        BY DEF VInv, ValidateArg, TypeOK, P!TypeOK, parser
    <2>2. /\ argIdx' \in 1..(Len(args) + 1)
          /\ validated' \subseteq 1..Len(args)
          /\ pc' \in {"readRoot", "parseRoot", "validate", "returned"}
          /\ retErr' \in {"none", "nil", "error"}
        <3>1. CASE argIdx > Len(args) /\ Return("nil")
                   /\ UNCHANGED <<argIdx, validated>>
            BY <3>1 DEF VInv, ValidateArg, Return, TypeOK
        <3>2. CASE argIdx <= Len(args) /\ Return("error")
                   /\ UNCHANGED <<argIdx, validated>>
            BY <3>2 DEF VInv, ValidateArg, Return, TypeOK
        <3>3. CASE /\ argIdx <= Len(args)
                   /\ validated' = validated \cup {argIdx}
                   /\ argIdx' = argIdx + 1
                   /\ UNCHANGED <<pc, retErr>>
            BY <3>3 DEF VInv, ValidateArg, TypeOK
        <3>. QED  BY <3>1, <3>2, <3>3 DEF ValidateArg
    <2>. QED  BY <2>1, <2>2 DEF VInv, TypeOK
<1>. QED  BY <1>1, <1>2
          DEF VInv, ValidateArg, Return, P!ParsedPrefixInOrder, ChainReturned,
              ParserAtFile, parser

(***************************************************************************)
(* Appending a returned chain extends the split of the trust roots by one  *)
(* piece, the chain of the file just parsed: the earlier pieces end within *)
(* the old roots, and the new piece is exactly what was appended.          *)
(***************************************************************************)
LEMMA CollectRootsVInv == VInv /\ CollectRoots => VInv'
<1> SUFFICES ASSUME VInv, CollectRoots PROVE VInv'
    OBVIOUS
<1>1. CASE result = "error" /\ Return("error")
           /\ UNCHANGED <<trustRoots, fileIdx>>
    <2>1. RootsAreParsedChains'
        BY <1>1, RootsFrame DEF VInv, CollectRoots, Return
    <2>. QED  BY <1>1, <2>1
              DEF VInv, CollectRoots, Return, TypeOK, P!TypeOK,
                  P!ParsedPrefixInOrder, ChainReturned, ParserAtFile, parser
<1>2. CASE /\ result = "ok"
           /\ trustRoots' = trustRoots \o certs
           /\ fileIdx' = fileIdx + 1
           /\ pc' = "readRoot"
           /\ UNCHANGED retErr
    <2> DEFINE T == trustRoots
               c == certs
               n == fileIdx
    <2>1. /\ T \in Seq(Certs) /\ c \in Seq(Certs)
          /\ n \in 1..Len(rootFiles)
          /\ c = LeadingCerts(rootFiles[n])
          /\ UNCHANGED <<parser, rootFiles>>
        BY <1>2 DEF VInv, TypeOK, P!TypeOK, ChainReturned, ParserAtFile,
                    CollectRoots
    <2>2. PICK cut \in [0..(n - 1) -> 0..Len(T)] :
              /\ cut[0] = 0
              /\ cut[n - 1] = Len(T)
              /\ \A i \in 1..(n - 1) :
                    /\ cut[i - 1] <= cut[i]
                    /\ SubSeq(T, cut[i - 1] + 1, cut[i])
                           = LeadingCerts(rootFiles[i])
        BY DEF VInv, RootsAreParsedChains
    <2> DEFINE cut2 == [i \in 0..n |-> IF i = n THEN Len(T) + Len(c)
                                                  ELSE cut[i]]
    <2>3. cut2 \in [0..n -> 0..Len(T \o c)]
        BY <2>1, <2>2 DEF cut2
    <2>4. cut2[0] = 0 /\ cut2[n] = Len(T \o c)
        BY <2>1, <2>2 DEF cut2
    <2>5. ASSUME NEW i \in 1..n
          PROVE  /\ cut2[i - 1] <= cut2[i]
                 /\ SubSeq(T \o c, cut2[i - 1] + 1, cut2[i])
                        = LeadingCerts(rootFiles[i])
        <3>1. CASE i < n
            <4>0. n \in Nat /\ i - 1 \in 0..(n - 1) /\ i \in 0..(n - 1)
                BY <2>1, <3>1
            <4>1. cut2[i - 1] = cut[i - 1] /\ cut2[i] = cut[i]
                  /\ cut[i - 1] \in Nat /\ cut[i] \in Nat /\ cut[i] <= Len(T)
                BY <2>2, <4>0 DEF cut2
            <4>2. SubSeq(T \o c, cut[i - 1] + 1, cut[i])
                      = SubSeq(T, cut[i - 1] + 1, cut[i])
                <5>1. \A a, b \in Nat :
                          b <= Len(T) =>
                              SubSeq(T \o c, a + 1, b) = SubSeq(T, a + 1, b)
                    <6>. SUFFICES ASSUME NEW a \in Nat, NEW b \in Nat, b <= Len(T)
                                  PROVE  SubSeq(T \o c, a + 1, b) = SubSeq(T, a + 1, b)
                        OBVIOUS
                    <6>. QED  BY <2>1, SubSeqConcatLeft DEF T, c
                <5>. QED  BY <4>1, <5>1, Zenon
            <4>3. i \in 1..(n - 1)
                BY <2>1, <3>1 DEF n
            <4>4. /\ cut[i - 1] <= cut[i]
                  /\ SubSeq(T, cut[i - 1] + 1, cut[i]) = LeadingCerts(rootFiles[i])
                BY <2>2, <4>3, Zenon
            <4>. QED  BY <4>1, <4>2, <4>4
        <3>2. CASE i = n
            <4>1. cut2[i - 1] = Len(T) /\ cut2[i] = Len(T) + Len(c)
                BY <2>1, <2>2, <3>2 DEF cut2
            <4>2. SubSeq(T \o c, Len(T) + 1, Len(T) + Len(c)) = c
                BY <2>1, SubSeqConcatRight
            <4>. QED  BY <2>1, <3>2, <4>1, <4>2
        <3>0. i < n \/ i = n
            BY <2>1 DEF n
        <3>. QED  BY <3>0, <3>1, <3>2
    <2>6. RootsAreParsedChains'
        <3>1. \E cut3 \in [0..n -> 0..Len(T \o c)] :
                  /\ cut3[0] = 0
                  /\ cut3[n] = Len(T \o c)
                  /\ \A i \in 1..n :
                        /\ cut3[i - 1] <= cut3[i]
                        /\ SubSeq(T \o c, cut3[i - 1] + 1, cut3[i])
                               = LeadingCerts(rootFiles[i])
            <4>. WITNESS cut2 \in [0..n -> 0..Len(T \o c)]
            <4>. QED  BY <2>4, <2>5
        <3>2. /\ fileIdx' - 1 = n
              /\ trustRoots' = T \o c
              /\ rootFiles' = rootFiles
              /\ pc' = "readRoot"
            BY <1>2, <2>1 DEF T, c, n
        <3>. QED  BY <3>1, <3>2 DEF RootsAreParsedChains
    <2>7. TypeOK'
        BY <1>2, <2>1 DEF VInv, TypeOK, P!TypeOK, CollectRoots, parser
    <2>. QED  BY <1>2, <2>1, <2>6, <2>7
              DEF VInv, P!ParsedPrefixInOrder, ChainReturned, ParserAtFile,
                  parser
<1>. QED  BY <1>1, <1>2 DEF CollectRoots

LEMMA StepVInv == VInv /\ [Next]_vars => VInv'
<1> SUFFICES ASSUME VInv, [Next]_vars PROVE VInv'
    OBVIOUS
<1>1. CASE ReadRootFile
    BY <1>1, ReadRootFileVInv
<1>2. CASE ParseRoot
    BY <1>2, ParseRootVInv
<1>3. CASE CollectRoots
    BY <1>3, CollectRootsVInv
<1>4. CASE ValidateArg
    BY <1>4, ValidateArgVInv
<1>5. CASE UNCHANGED vars
    <2>1. RootsAreParsedChains'
        BY <1>5, RootsFrame DEF VInv, vars
    <2>. QED  BY <1>5, <2>1
              DEF vars, VInv, TypeOK, P!TypeOK, P!ParsedPrefixInOrder,
                  ChainReturned, ParserAtFile
<1>. QED  BY <1>1, <1>2, <1>3, <1>4, <1>5 DEF Next

-----------------------------------------------------------------------------
(***************************************************************************)
(* validateCmd keeps its variables within their types: the indexes of the  *)
(* two loops stay within their slices, and the roots are certificates.     *)
(***************************************************************************)
THEOREM TypeCorrect == Spec => []TypeOK
<1>1. VInv => TypeOK
    BY DEF VInv
<1>. QED  BY <1>1, InitVInv, StepVInv, PTL DEF Spec

(***************************************************************************)
(* The trust roots validateCmd builds its validator from are the chains    *)
(* readCertificatesFromPEMFile parses from the --trust-root files, every   *)
(* file's chain once and in flag order, and the arguments are validated    *)
(* only once every file has been read: for every number of files, of      *)
(* blocks per file and of arguments.                                       *)
(***************************************************************************)
THEOREM RootsParsed == Spec => []RootsAreParsedChains
<1>1. VInv => RootsAreParsedChains
    BY DEF VInv
<1>. QED  BY <1>1, InitVInv, StepVInv, PTL DEF Spec
=============================================================================
