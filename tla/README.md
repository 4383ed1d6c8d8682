# TLA+ models of the MaEVe CSMS manager (reservations branch)

This directory holds TLA+ specifications of the parts of `src/` that keep
control state, the TLC configurations that check them on small instances,
and TLAPS proofs of their main safety properties. `PROJECT.json` lists the
components, the runs, the mutants that show each property can fail, the map
from every definition to the source lines it models, the findings and the
hazards.

## 1. The system

The manager is the back end of a charge station management system (CSMS).
Charge stations speak OCPP 1.6 or 2.0.1 to a gateway. The gateway forwards
each message as a JSON envelope (`Message`: MessageType, Action, MessageId,
RequestPayload, ResponsePayload, State) over an MQTT broker. The manager's
workers take envelopes off a shared subscription and call `Router.Route`.

| Component | Source | State it keeps | Operations |
|---|---|---|---|
| Router dispatch | `mqtt/router.go` 277-359 | none of its own: it reads the route tables and the envelope | `Route`, with a Call, a CallResult and a CallError branch |
| Route tables | `mqtt/router.go` 29-275 | `CallRoutes` and `CallResultRoutes` maps, one pair per OCPP version | built once by `NewV16Router` / `NewV201Router` |
| Call makers | `mqtt/router.go` 39-47, 189-194 | the map from request type to action | `Send` (not under `src/`; modelled from spec 4.5) |
| Handlers | `unnamed/part_000`, `handlers/ocpp16/reservation.go` | the stores they consult (tokens, transactions) | `HandleCall`, `HandleCallResult` |
| PEM parsing | `cmd/serve.go` 291-330 | the undecoded rest of the file and the chain so far | `readCertificatesFromPEMFile`, `parseCertificates`, `parseCertificate` |
| Startup (`serve`) | `cmd/serve.go` 125-240, `ocpp/ocpp16/reservation_response.go` 198-329 | configuration, services, the error channel | `RunE` |
| `validate` command | `reservation_response.go` 27-72 | trust roots | `RunE` |
| MO trust anchors | `cmd/serve.go` 242-289 | none | `pullMoTrustAnchors`, `retrieveCertificates` |

**How they interact.** A station publishes a Call. Route looks up the action,
validates the request against its schema, decodes it, runs the handler,
validates the handler's response (a failure is only logged) and emits a
CallResult. An error returned by Route is turned into a CallError by the
caller.

A server-initiated call works the other way. The call maker emits a Call
that carries an opaque State. The station's CallResult comes back with the
original request and that State. Route validates both payloads and hands
the State to the result handler.

CallErrors from stations are not handled yet: Route always returns an error.

**What makes it hard.**
- The bus delivers at least once (MQTT QoS 1), so any message may arrive twice.
- Stations may send any action with any payload.
- The handler may fail after it has changed a store, and so may the emit after it.
- The classification of an error into an OCPP error code depends on Go's
  `errors.As`, which the code calls on the wrong argument.
- Correlating a result with its call relies on the envelope alone.

**What makes each part correct.**
- Router: an answer only for a routed, valid request of the same station;
  a result handler runs at most once per call (spec 3); validation and
  decode failures become FormatViolation and nothing else does, and a
  handler's nil response becomes InternalError (spec 4.3).
- PEM parsing: the chain is every certificate of the file in file order
  (spec 4.7), and parsing ends.
- Startup: a failing server is never left blocked on the error channel.
- `validate`: the trust roots are the chains of all `--trust-root` files, in
  flag order, before any argument is validated.

## 2. Modules

| Module | Models | Role |
|---|---|---|
| `Router.tla` | `Router.Route`, the route-table domains, the call maker and the environment (stations, bus) | component and its environment |
| `MCRouter.tla` | instance with the OCPP 2.0.1 tables plus an unrouted action and `ReserveNow` | TLC model |
| `RouterProofs.tla` | TLAPS proofs about `Router` | proofs |
| `PemParsing.tla` | the PEM decoding loop | component; small enough to be its own TLC model |
| `CertChain.tla` | the blocks of a PEM file and what `parseCertificates` returns for them (`FirstStop`, `LeadingCerts`, `ParseFails`) | shared constant operators |
| `CertChainLemmas.tla` | TLAPS lemmas about those operators | proofs |
| `ParseChain.tla` | what `parseCertificates` promises, as one atomic step | abstract specification |
| `PemParsingProofs.tla` | TLAPS proofs about `PemParsing`, including its refinement of `ParseChain` | proofs |
| `Serve.tla` | both `serve` `RunE` versions, `initProvider`, `pullMoTrustAnchors`, the two server goroutines and `errCh` | component; its own TLC model |
| `Validate.tla` | `validateCmd.RunE`, composing `PemParsing` for each trust-root file | composition |
| `ValidateProofs.tla` | TLAPS proofs about `Validate` | proofs |

### Router

**State.**
- `toCsms[s]`: the station's in-topic, the envelopes not yet routed, in order.
- `toStation[s]`: what the manager emitted to the station.
- `called[s]`: every Call the station published. This is history.
- `pending[s]`: every call the call maker issued: id, action and State.
- `answered[s]`: the CallResults Route emitted.
- `errs[s]`: the errors Route returned, each with the return statement it
  came from (`Returns`: the route lookup, request validation, request
  decode, the handler, the nil-response check, Marshal, Emit, response
  validation, response decode, the CallError branch) and its OCPP code.
- `handled[s]`: the sequence of result-handler invocations.
- `dups`: the number of redeliveries so far, at most `MaxDup`.

**Data abstraction.** A payload is one of four kinds, the only ones Route
tells apart:

| Kind | Meaning |
|---|---|
| `Valid` | passes the schema and decodes |
| `SchemaViolation` | `schemas.Validate` returns a `*jsonschema.ValidationError` |
| `NotJson` | Validate fails for another reason |
| `Undecodable` | passes the schema, but `json.Unmarshal` fails |

Error codes are `NotImplemented`, `FormatViolation`, `Handler` (a handler's
own error, passed on) and `Unclassified` (an error without an OCPP code).

**Actions.**
- `Route(s)` models `Router.Route` on the head of `toCsms[s]`. It is the
  disjunction of `RouteCall`, `RouteCallResult` and `RouteCallError`.
  - Each disjunct of these is one path through the branch, with its guard
    taken from the code's conditions and its early return.
  - The handler's outcome is a nondeterministic choice: its own error, a
    nil response, a failed Marshal, a failed Emit, or a CallResult whose
    response may fail its schema, which is only logged. In the three
    failures after the handler its effects have already happened.
  - `RequestValidationCode` and `ResponseValidationCode` model the
    `errors.As` test. The test is on a typed nil, so it is always true.
- `StationCall`: a station publishes a Call with a MessageId it has not used
  yet, for any action, with any payload.
- `CallMakerSend`: the call maker issues a Call with a fresh MessageId and a
  State.
- `StationReceive`: a station takes the next message off its out-topic and
  may answer a Call with a CallResult or a CallError that echoes the request
  and the State.
- `BusDuplicate`: the bus redelivers any message still in flight.

### PemParsing

**State.**
- `input`: the blocks of the file, which never change.
- `pemData`: the blocks not yet decoded.
- `certs`: the chain so far.
- `result`: `running`, `ok` or `error`.

**Data abstraction.** A block is one of:
- a certificate that parses (a model value of `Certs`);
- `BadCert`: a CERTIFICATE block that x509 rejects;
- `Other`: a block of another type.

**Actions.** `ParseStep` is one iteration of the loop of `parseCertificates`
with its call of `parseCertificate`. It is the disjunction of the four
outcomes of the call:

| Disjunct | Outcome |
|---|---|
| `EndOfData` | no block left |
| `NotCertificate` | a block of another type |
| `Rejected` | a CERTIFICATE block that x509 rejects |
| `Accepted` | a certificate |

### ParseChain and the refinement

`ParseChain` has the variables `input`, `chain` and `outcome` and one action,
`Parse`: from `running` it sets `chain` to `LeadingCerts(input)`, the blocks
before the first block that is not a parsable certificate (`FirstStop`), and
`outcome` to `ok`; or, when that block is `BadCert` (`ParseFails`), `chain` to
`<< >>` and `outcome` to `error`. This is what `parseCertificates` returns.
These three operators live in `CertChain`, which `ParseChain`, `PemParsing`
and `Validate` all extend, so that the proofs of every module can use the
same operators and the lemmas of `CertChainLemmas` about them.

`PemParsing` defines `Chain == INSTANCE ParseChain WITH chain <- IF result =
"running" THEN << >> ELSE certs, outcome <- result`. While the loop runs the
abstract chain is empty; the loop's last step is the abstract `Parse`, every
`Accepted` step is a stutter. `ImplementsParseChain == Chain!ASpec` is a
property of `pem_parse`.

### Serve

**State.**
- `version`: which of the two `RunE`s runs. `reservation_response.go`
  retrieves the MO roots through a retrieval service; `cmd/serve.go` calls
  `pullMoTrustAnchors`. The rest of the two is the same.
- `cfg`: the flags the control depends on (storage engine, key log file,
  and whether each CSO/MO OPCP token and URL is set).
- `pc`: the next step of the main goroutine; `retErr`: what `RunE` returned.
- `provider`, `deferred`, `shutdownCalled`: `initProvider` succeeded, its
  shutdown was deferred, the deferred call has run.
- `signer`, `evProvider`: the two PnC services are non-nil.
- `server[g]` for `api` and `mqtt`: `stopped`, `running`, `sending` (failed,
  blocked in `errCh <- err`), `sent`.
- `errCh`: the errors buffered in the channel (capacity `ErrChCapacity = 1`).

**Actions.** One per step of `RunE`, each with its error return
(`Return(e)`, which also runs the deferred functions): `InitProvider`,
`ParseBrokerUrl`, `OpenStorage`, `RetrieveMoRootCertificates` /
`PullMoTrustAnchors`, `OpenKeyLog`, `WireServices`, `StartApi`,
`ConnectMqtt` and `Receive` (`err = <-errCh; return err`, taking a buffered
error or, with an empty buffer, the error of a blocked sender). The server
goroutines (their code is not under `src/`; modelled from the spec) are
`ServerFail(g)` and `Send(g)`, which completes when the buffer has room.

### Validate

**State.** The parser variables of `PemParsing` for the current trust-root
file; `rootFiles` (the blocks of each file, in flag order), `fileIdx`,
`trustRoots`; `args`, `argIdx`, `validated`; `pc`, `retErr`.

**Actions.**
- `ReadRootFile`: past the last file go on to the arguments; `os.ReadFile`
  may fail; otherwise load the file into the parser.
- `ParseRoot`: `PemParsing!ParseStep` on the current file.
- `CollectRoots`: an error ends the command; otherwise append the chain to
  the roots and go to the next file.
- `ValidateArg`: `strings.Split(arg, ":")` must give two parts and the file
  must be readable, else the command returns an error; the validator's
  verdict is only printed and is left out. An argument is abstracted to its
  form (`pair` or `bare`), whether its path holds a colon, and whether it is
  readable (`Parts` gives the number of parts).

**Properties.** `RootsAreParsedChains` says the trust roots split into
consecutive pieces, one per file read so far, the i-th being
`LeadingCerts(rootFiles[i])`; the split is an existentially chosen function
`cut` from file index to end position, so that the property needs no
recursion over the files. Its second conjunct says the argument loop
starts only after the last file was collected, so the validator is built
from all the roots.

## 3. Runs

| Run | Checks | Result |
|---|---|---|
| `router_core` | `TypeOK`, `AnsweredOnlyValidCalls` | pass |
| `router_result_once` | `ResultHandledAtMostOnce` | violated: a redelivered CallResult runs its handler twice (`router.go:350`) |
| `router_format_violation` | `FormatViolationOnlyForBadPayloads` | violated: a non-schema validation failure becomes FormatViolation (`router.go:287`, `335`) |
| `router_decode` | `DecodeFailureIsFormatViolation` | violated: a decode failure gets no OCPP code (`router.go:293`) |
| `router_nil_response` | `NilResponseIsInternalError` | violated: a handler's nil response with nil error becomes a plain error, not InternalError (`router.go:301`) |
| `pem_parse` | `TypeOK`, `ParsedPrefixInOrder`, `ImplementsParseChain`, `ParsingTerminates` | pass |
| `pem_all_certs` | `AllCertificatesParsed` | violated: a non-certificate block silently ends the chain (`serve.go:321`) |
| `serve_core` | `ServerErrorsDelivered` | pass |
| `validate_core` | `TypeOK`, `RootsAreParsedChains` | pass |

**What the Serve run shows about `errCh`.** Both servers may fail and send,
while `RunE` receives once. With capacity one the first send lands in the
buffer or goes straight to the receiver, and the second then finds room:
neither goroutine blocks (`ServerErrorsDelivered`). With an unbuffered
channel (the mutant) the second sender blocks forever.

**Bounds of the Router runs.**
- One station. Route keeps no state across stations, and every variable is
  a function of the station, so more stations only multiply the states.
- One station MessageId and one server MessageId. Uniqueness per station
  is enforced by the environment, and the duplicates that matter come from
  the bus.
- One State.
- `MaxDup = 1`. One redelivery is enough to reach every double-delivery
  case: a second handler run, a second answer, a duplicate CallResult.
- The actions are the OCPP 2.0.1 tables plus `Frobnicate`, which has no
  route, and `ReserveNow`. The call maker may send `ReserveNow`, but no
  CallResult route exists for it. This mirrors `ReservationResultHandler`,
  which nothing registers.

These bounds give 60,584 distinct states in a few seconds. With two ids and
two States the state space grows past two million states, beyond the time
budget of a run.

**Bounds of the PemParsing runs.** Files of up to four blocks over two
certificates. Every order of valid, rejected and foreign blocks of that
length is covered, which gives 992 states.

**Bounds of the Serve runs.** None are needed: both versions, all 384 flag
configurations, every failing step and every order of server failures and
sends, 3,648 states.

**Bounds of the Validate runs.** Two certificates, files of up to two
blocks, up to two trust-root files and up to two arguments: 191,447 states.
Two files are the least that shows accumulation across the loop, and two
certificates let the files' chains differ, so that a reordering of the
roots would show.

**Fairness.** `Spec` of Router assumes weak fairness of `Route(s)` only. The
manager's workers keep pulling from the subscription as long as it holds a
message. The stations, the call maker and the bus owe nothing. No Router
run checks a liveness property, so this only documents the scheduling.

PemParsing assumes weak fairness of `ParseStep`: the loop is straight-line
code.

Serve assumes weak fairness of the main goroutine's steps and of each
`Send(g)`: goroutines that can run are scheduled by the Go runtime. A server
failure is up to the environment and has no fairness. Validate assumes weak
fairness of its `Next`: it is one sequential goroutine.

Deadlock checking is off in all runs. Serve ends when `RunE` returns, and
Validate when the command returns. The Router system is idle when the
stations stop sending, and parsing stops when it has a result.

**Mutants.** Every property of a passing run is paired with a plausible bug
that TLC catches. The mutant is the `as` definition listed in
`PROJECT.json`, which replaces the `of` definition.

| Property | Mutant (the plausible bug) |
|---|---|
| `TypeOK` (Router) | the validation error is passed on without a code |
| `AnsweredOnlyValidCalls` | the request is not validated |
| `TypeOK` (PemParsing) | the x509 error is ignored |
| `ParsedPrefixInOrder` | `pemData` is not advanced |
| `ParsingTerminates` | the loop continues on a nil certificate instead of breaking |
| `ImplementsParseChain` | running out of data is reported as an error |
| `ServerErrorsDelivered` | `errCh` is unbuffered |
| `TypeOK` (Validate) | the file's raw blocks are appended instead of its chain |
| `RootsAreParsedChains` | each file's chain overwrites the roots gathered so far |

## 4. Proofs (checked by `tlapm`)

Every safety invariant of the Router, PemParsing and Validate runs is
proved, for every value of the constants; section "Left to TLC" lists what
is not.

**Assumption.** The proofs rest only on `RouterAssumption`:
- the route domains and the maker's actions are sets of actions;
- station and server MessageIds are disjoint;
- `NoState` is not a State;
- `MaxDup` is a natural number.

**`TypeCorrect`: `Spec => []TypeOK`.** `TypeOK` is inductive. Lemma
`TypeStep` proves it with one step per action and, under each, one step per
variable the action writes.

Helper lemmas:
- `AppendType` and `FailType` give the type of the updated functions.
- `RouteCallEffect` and `RouteCallResultEffect` state what each branch
  leaves unchanged.

**`AnsweredOnlyValid`: `Spec => []AnsweredOnlyValidCalls`.** The property is
not inductive on its own. A redelivered Call in `toCsms` could, in principle,
be one the station never published.

The strengthening `IInv` therefore adds `CallsInFlightPublished`: every Call
in an in-topic is in `called`. This holds because:
- `StationCall` appends a Call to both `toCsms` and `called`;
- `BusDuplicate` copies an element already there;
- `StationReceive` appends only CallResults and CallErrors;
- Route only removes the head.

With `IInv`, a Call that `RouteCall` answers is a published one, and
`HandlerRuns` gives its validity (lemma `HandlerRunsValid`). `IInv` was also
checked by TLC as an invariant of `router_core` before it was proved.

**`PrefixInOrder` (`PemParsingProofs.tla`): `Spec => []ParsedPrefixInOrder`.**
It holds for any set of certificates and any bound on the file. The
invariant `TypeOK /\ ParsedPrefixInOrder` is inductive, with one case per
outcome of `parseCertificate`:
- `Accepted` moves the head of `pemData` to the end of `certs`, which keeps
  the concatenation `certs \o pemData` the same;
- the other outcomes leave both sequences as they are, or set `result` to
  `error`.

The loop guard `result = "running"` is needed in each case: without it an
`error` state could be turned back into `ok`.

**`Refinement` (`PemParsingProofs.tla`): `Spec => Chain!SafeSpec`.** The
loop implements the safety part of `ParseChain`, for every set of
certificates and every bound. The initial states map to `AInit`. Lemma
`StepRefines` shows that, under the invariant above, each step maps to a
stutter (`Accepted`, which leaves the abstract chain empty) or to `Parse`
(the other three outcomes). It rests on two lemmas about the abstract
operators: `FirstStopNone` (for a sequence of certificates there is no stop
and `LeadingCerts` is the whole sequence) and `FirstStopAt` (for
`c \o d` with `c` certificates and the head of `d` not one, the first stop
is at `Len(c) + 1`). With the invariant `certs \o pemData = input`, the
state where the loop stops is exactly one of these.

**`TypeCorrect` (`PemParsingProofs.tla`).** `Spec => []TypeOK` for the
parsing loop, from the same inductive invariant as `PrefixInOrder`. Lemma
`StepChainReturned` adds that once the loop returns `ok`, `certs` is
`LeadingCerts(input)`; it is derived from `StepRefines`.

**`TypeCorrect` and `RootsParsed` (`ValidateProofs.tla`).** They rest on `ValidateAssumption` (the three
bounds are natural numbers) and `CertChainAssumption` (the two
non-certificate block kinds are not certificates). The inductive invariant is
`VInv == TypeOK /\ P!ParsedPrefixInOrder /\ ChainReturned /\ ParserAtFile /\
RootsAreParsedChains`. `RootsAreParsedChains` alone is not inductive:
`CollectRoots` appends `certs`, and only the parser's invariants say what
`certs` is then:
- `ChainReturned`: once `parseCertificates` has returned ok, `certs =
  LeadingCerts(input)`;
- `ParserAtFile`: while parsing, `input` is `rootFiles[fileIdx]`;
- `P!ParsedPrefixInOrder` (with `FirstStopNone`/`FirstStopAt`) makes
  `ChainReturned` hold after the last parsing step (lemma `ParseStepInv`).
`CollectRoots` then extends the cut by one piece ending at the new length
(lemmas `SubSeqConcatLeft`, `SubSeqConcatRight`); the other actions leave
the roots alone (`RootsFrame`). `VInv` was checked by TLC on the
`validate_core` instance with one certificate (68,653 states) before it was
proved.

**Why the shared `CertChain` module.** `tlapm` does not let a proof use the
assumptions or theorems of a module reached through a named `INSTANCE`, and
treats an instantiated operator as a symbol distinct from the same operator
obtained by `EXTENDS`. The operators `parseCertificates` is described by,
and their lemmas, are therefore in modules that every user extends;
`PemParsingProofs` bridges `Chain!LeadingCerts` to `LeadingCerts` by
expanding both (`ChainOps`), and `ValidateProofs` restates the parser step
facts for its own instance of `PemParsing` (`ParseStepInv`).

**Left to TLC.** These are only model-checked:
- the liveness properties (`ParsingTerminates`, `ServerErrorsDelivered`) and the fairness part of `ImplementsParseChain`:
  they need ENABLED and fairness reasoning, which the provers here do not
  do.

No proof module reaches a RECURSIVE operator.

## 5. Not modelled, and why

- **Handler bodies.** The Authorize handler, the reservation result handler
  and the heartbeat test are abstracted to their outcomes. Their stores are
  next in the plan.
- **The nested DataTransfer routes of the v1.6 router.** Their handler code
  is not in this repository.
- **Inside trust-anchor retrieval, the OCSP validator and OpenTelemetry.**
  The HTTP exchange, base64/PKCS#7 decoding, the self-signed filter and the
  exporter configuration are data and I/O; the models keep only whether
  each call succeeds. The validator's code is not in this repository and
  its verdict is only printed.
- **The server goroutines' bodies** (`server.Start`, `Handler.Connect`):
  not under `src/`. Each is modelled from the spec as a goroutine that may
  fail once and then sends its error.
- **Message formatting, logging, and the OCPI types and stubs.** No property
  concerns them.

## 6. Plan for the next sittings

1. **Handlers.** A module for `AuthorizeHandler` with a token store that the
   API server changes concurrently, composed into Router in place of the
   abstract handler outcome.
2. **Correlation.** An abstract specification of request/result
   correlation (each issued call settled at most once). Router would be
   shown to refine it, or the refinement shown to fail at `router.go:350`.
3. **More proofs.** The Serve error that `RunE` returns is the error of a
   server that failed.
