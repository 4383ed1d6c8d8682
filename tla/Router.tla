------------------------------- MODULE Router -------------------------------
(***************************************************************************)
(* The manager's OCPP message router, Router.Route in                      *)
(* src/manager/mqtt/router.go, together with the environment it serves:    *)
(* charge stations publishing on their in-topic, the bus delivering at     *)
(* least once (so a message may be delivered twice), and the call maker    *)
(* that originates server-initiated Calls whose results come back through  *)
(* Route.                                                                  *)
(*                                                                         *)
(* Payloads are abstracted to what Route tells apart: whether              *)
(* schemas.Validate accepts them, rejects them with a schema violation or  *)
(* fails for another reason, and whether json.Unmarshal then decodes them. *)
(***************************************************************************)
EXTENDS Naturals, Sequences

CONSTANTS
    Stations,          \* charge station ids
    StationIds,        \* MessageIds a station may choose for its Calls
    ServerIds,         \* MessageIds the call maker may allocate
    Actions,           \* action names that can appear in an envelope
    CallRoutes,        \* DOMAIN of Router.CallRoutes
    CallResultRoutes,  \* DOMAIN of Router.CallResultRoutes
    MakerActions,      \* actions the call maker sends (its Actions map)
    States,            \* opaque State blobs a server-initiated call carries
    NoState,           \* the absent State of a station-originated Call
    MaxDup             \* bound on the bus's redeliveries

ASSUME RouterAssumption ==
    /\ CallRoutes \subseteq Actions
    /\ CallResultRoutes \subseteq Actions
    /\ MakerActions \subseteq Actions
    /\ StationIds \cap ServerIds = {}
    /\ NoState \notin States
    /\ MaxDup \in Nat

(***************************************************************************)
(* "Valid": schema-valid and decodable.  "SchemaViolation": Validate       *)
(* returns a *jsonschema.ValidationError.  "NotJson": Validate fails with  *)
(* another error (the bytes are not JSON, the schema cannot be loaded).    *)
(* "Undecodable": schema-valid but json.Unmarshal into the Go type fails   *)
(* (e.g. an integer beyond the range of int).                              *)
(***************************************************************************)
Payloads == {"Valid", "SchemaViolation", "NotJson", "Undecodable"}
None == "None"

Ids == StationIds \cup ServerIds

Msg == [type : {"Call", "CallResult", "CallError"}, action : Actions,
        id : Ids, req : Payloads \cup {None}, resp : Payloads \cup {None},
        state : States \cup {NoState}]

(* The error codes Route attaches to the errors it returns; "Unclassified" *)
(* is an error carrying no OCPP code, "Handler" one a handler returned.    *)
Codes == {"NotImplemented", "FormatViolation", "Unclassified", "Handler"}

(***************************************************************************)
(* The return statement of Route an error comes from, which the code tells *)
(* apart only by the message it wraps the error in.                        *)
(***************************************************************************)
Returns == {"lookup", "requestValidation", "requestDecode", "handler",
            "nilResponse", "marshal", "emit", "responseValidation",
            "responseDecode", "callError"}

VARIABLES
    toCsms,     \* per station, the in-topic as delivered to the manager
    toStation,  \* per station, the out-topic
    called,     \* per station, every Call it has published (history)
    pending,    \* per station, every server-initiated Call emitted (history)
    answered,   \* per station, the CallResults Route has emitted (history)
    errs,       \* per station, the errors Route has returned (history)
    handled,    \* per station, the log of result-handler invocations
    dups        \* redeliveries performed by the bus so far

vars == <<toCsms, toStation, called, pending, answered, errs, handled, dups>>

-----------------------------------------------------------------------------
(* The route tables NewV16Router and NewV201Router build, and the actions  *)
(* their call makers send.  On 1.6 the call maker wraps every request in a *)
(* DataTransfer, so its results come back as DataTransfer results.         *)
V16CallRoutes ==
    {"BootNotification", "Heartbeat", "StatusNotification", "Authorize",
     "StartTransaction", "StopTransaction", "MeterValues", "DataTransfer"}
V16CallResultRoutes == {"DataTransfer"}
V16MakerActions == {"DataTransfer"}

V201CallRoutes ==
    {"BootNotification", "Heartbeat", "StatusNotification", "Authorize",
     "TransactionEvent", "GetCertificateStatus", "SignCertificate",
     "Get15118EVCertificate"}
V201CallResultRoutes == {"CertificateSigned"}
V201MakerActions == {"CertificateSigned"}

-----------------------------------------------------------------------------
(* schemas.Validate: only the kind of the outcome matters to Route.        *)
Validate(p) == IF p \in {"Valid", "Undecodable"} THEN "ok" ELSE p

(***************************************************************************)
(* The code the Call branch attaches to a failed request validation.  The  *)
(* source tests errors.As(validationErr, &validationErr) on the nil        *)
(* *jsonschema.ValidationError it has just declared instead of on err;     *)
(* the typed nil is a non-nil error of the target type, so the test is     *)
(* always true and every failure becomes a FormatViolation.                *)
(***************************************************************************)
RequestValidationCodeRaw(v) == v  \* mutant: the validation outcome is passed on uncoded

RequestValidationCode(v) == "FormatViolation"

(* The same test on the CallResult branch's response validation.           *)
ResponseValidationCode(v) == "FormatViolation"

(* Route returns an error from the return at: record it with the message   *)
(* it was about.                                                           *)
Fail(s, m, at, code) ==
    errs' = [errs EXCEPT ![s] = @ \cup {[id |-> m.id, type |-> m.type,
                 req |-> m.req, resp |-> m.resp, at |-> at, code |-> code]}]

(* Route consumes the head of the station's in-topic.                      *)
Consume(s) == toCsms' = [toCsms EXCEPT ![s] = Tail(@)]

(* Mutant: the request's validation failure is only logged, as the        *)
(* response's is.                                                          *)
HandlerRunsUnvalidated(m) == m.action \in CallRoutes /\ m.req # "Undecodable"

(* The Call reaches its handler: the route exists, the request validates   *)
(* and it decodes into the route's request type.                           *)
HandlerRuns(m) ==
    /\ m.action \in CallRoutes
    /\ Validate(m.req) = "ok"
    /\ m.req # "Undecodable"

(* The State handed to the result handler: the envelope's.                 *)
HandlerState(m) == m.state

-----------------------------------------------------------------------------
(***************************************************************************)
(* MessageTypeCall: look up the route, validate, decode, run the handler   *)
(* (whose outcome abstracts the storage and services it consults),         *)
(* check the response is non-nil, marshal it, validate it (a failure is    *)
(* only logged) and emit.  The handler has already run when a nil          *)
(* response, a Marshal or an Emit failure ends the call with an error.     *)
(***************************************************************************)
RouteCall(s) ==
    LET m == Head(toCsms[s]) IN
    /\ m.type = "Call"
    /\ Consume(s)
    /\ \/ /\ m.action \notin CallRoutes
          /\ Fail(s, m, "lookup", "NotImplemented")
          /\ UNCHANGED <<toStation, answered>>
       \/ /\ m.action \in CallRoutes
          /\ Validate(m.req) # "ok"
          /\ Fail(s, m, "requestValidation",
                  RequestValidationCode(Validate(m.req)))
          /\ UNCHANGED <<toStation, answered>>
       \/ /\ m.action \in CallRoutes
          /\ m.req = "Undecodable"
          /\ Fail(s, m, "requestDecode", "Unclassified")
          /\ UNCHANGED <<toStation, answered>>
       \/ /\ HandlerRuns(m)
          /\ \/ /\ \/ Fail(s, m, "handler", "Handler")  \* HandleCall's error
                   \/ Fail(s, m, "nilResponse", "Unclassified")  \* resp == nil
                   \/ Fail(s, m, "marshal", "Unclassified")  \* json.Marshal
                   \/ Fail(s, m, "emit", "Unclassified")  \* Emit fails
                /\ UNCHANGED <<toStation, answered>>
             \/ \E rv \in {"Valid", "SchemaViolation"} :  \* emitted anyway
                  /\ toStation' = [toStation EXCEPT ![s] = Append(@,
                        [type |-> "CallResult", action |-> m.action,
                         id |-> m.id, req |-> None, resp |-> rv,
                         state |-> NoState])]
                  /\ answered' = [answered EXCEPT ![s] =
                        @ \cup {[id |-> m.id, action |-> m.action]}]
                  /\ UNCHANGED errs
    /\ UNCHANGED <<called, pending, handled, dups>>

(***************************************************************************)
(* MessageTypeCallResult: look up the result route, validate the echoed    *)
(* request (error passed on as it is), validate the response, decode both  *)
(* and hand the envelope's State to the result handler.                    *)
(***************************************************************************)
RouteCallResult(s) ==
    LET m == Head(toCsms[s]) IN
    /\ m.type = "CallResult"
    /\ Consume(s)
    /\ \/ /\ m.action \notin CallResultRoutes
          /\ Fail(s, m, "lookup", "NotImplemented")
          /\ UNCHANGED handled
       \/ /\ m.action \in CallResultRoutes
          /\ Validate(m.req) # "ok"
          /\ Fail(s, m, "requestValidation", "Unclassified")
          /\ UNCHANGED handled
       \/ /\ m.action \in CallResultRoutes
          /\ Validate(m.req) = "ok"
          /\ Validate(m.resp) # "ok"
          /\ Fail(s, m, "responseValidation",
                  ResponseValidationCode(Validate(m.resp)))
          /\ UNCHANGED handled
       \/ /\ m.action \in CallResultRoutes
          /\ Validate(m.req) = "ok"
          /\ Validate(m.resp) = "ok"
          /\ "Undecodable" \in {m.req, m.resp}
          /\ Fail(s, m, "responseDecode", "Unclassified")
          /\ UNCHANGED handled
       \/ /\ m.action \in CallResultRoutes
          /\ m.req = "Valid"
          /\ m.resp = "Valid"
          /\ handled' = [handled EXCEPT ![s] = Append(@,
                [id |-> m.id, action |-> m.action, state |-> HandlerState(m)])]
          /\ \/ UNCHANGED errs                          \* handler ok
             \/ Fail(s, m, "handler", "Handler")        \* handler error
    /\ UNCHANGED <<toStation, called, pending, answered, dups>>

(* MessageTypeCallError: not handled yet, always an error.                 *)
RouteCallError(s) ==
    LET m == Head(toCsms[s]) IN
    /\ m.type = "CallError"
    /\ Consume(s)
    /\ Fail(s, m, "callError", "Unclassified")
    /\ UNCHANGED <<toStation, called, pending, answered, handled, dups>>

Route(s) ==
    /\ toCsms[s] # << >>
    /\ \/ RouteCall(s)
       \/ RouteCallResult(s)
       \/ RouteCallError(s)

-----------------------------------------------------------------------------
(* Environment.  A station publishes a Call with a MessageId it has not    *)
(* used yet, for any action, with a payload of any kind.                   *)
StationCall(s) ==
    \E a \in Actions, i \in StationIds, p \in Payloads :
        /\ \A c \in called[s] : c.id # i
        /\ LET m == [type |-> "Call", action |-> a, id |-> i, req |-> p,
                     resp |-> None, state |-> NoState]
           IN /\ toCsms' = [toCsms EXCEPT ![s] = Append(@, m)]
              /\ called' = [called EXCEPT ![s] = @ \cup {m}]
        /\ UNCHANGED <<toStation, pending, answered, errs, handled, dups>>

(***************************************************************************)
(* The call maker (spec 4.5) emits a server-initiated Call with a fresh    *)
(* MessageId, recording it before emitting.  It does not validate its own  *)
(* request, which a station echoes back with the result.                   *)
(***************************************************************************)
CallMakerSend(s) ==
    \E a \in MakerActions, i \in ServerIds, st \in States,
       p \in {"Valid", "SchemaViolation"} :
        /\ \A c \in pending[s] : c.id # i
        /\ pending' = [pending EXCEPT ![s] = @ \cup
                          {[id |-> i, action |-> a, state |-> st]}]
        /\ toStation' = [toStation EXCEPT ![s] = Append(@,
              [type |-> "Call", action |-> a, id |-> i, req |-> p,
               resp |-> None, state |-> st])]
        /\ UNCHANGED <<toCsms, called, answered, errs, handled, dups>>

(* The station takes the next message off its out-topic: a CallResult is  *)
(* consumed, a Call is answered with a CallResult or a CallError that     *)
(* echoes the original request and State.                                 *)
StationReceive(s) ==
    /\ toStation[s] # << >>
    /\ LET m == Head(toStation[s]) IN
       /\ toStation' = [toStation EXCEPT ![s] = Tail(@)]
       /\ \/ /\ m.type = "CallResult"
             /\ UNCHANGED toCsms
          \/ /\ m.type = "Call"
             /\ \E t \in {"CallResult", "CallError"}, r \in Payloads :
                  toCsms' = [toCsms EXCEPT ![s] = Append(@,
                                [m EXCEPT !.type = t, !.resp = r])]
    /\ UNCHANGED <<called, pending, answered, errs, handled, dups>>

(* The bus redelivers a message still in flight (MQTT QoS 1).             *)
BusDuplicate(s) ==
    /\ dups < MaxDup
    /\ toCsms[s] # << >>
    /\ \E k \in 1..Len(toCsms[s]) :
          toCsms' = [toCsms EXCEPT ![s] = Append(@, toCsms[s][k])]
    /\ dups' = dups + 1
    /\ UNCHANGED <<toStation, called, pending, answered, errs, handled>>

-----------------------------------------------------------------------------
Init ==
    /\ toCsms = [s \in Stations |-> << >>]
    /\ toStation = [s \in Stations |-> << >>]
    /\ called = [s \in Stations |-> {}]
    /\ pending = [s \in Stations |-> {}]
    /\ answered = [s \in Stations |-> {}]
    /\ errs = [s \in Stations |-> {}]
    /\ handled = [s \in Stations |-> << >>]
    /\ dups = 0

Next ==
    \E s \in Stations :
        \/ Route(s)
        \/ StationCall(s)
        \/ CallMakerSend(s)
        \/ StationReceive(s)
        \/ BusDuplicate(s)

(* The manager's workers keep taking messages off the subscription; the   *)
(* stations, the call maker and the bus owe nothing.                      *)
Spec == Init /\ [][Next]_vars /\ \A s \in Stations : WF_vars(Route(s))

-----------------------------------------------------------------------------
ErrRec == [id : Ids, type : {"Call", "CallResult", "CallError"},
           req : Payloads \cup {None}, resp : Payloads \cup {None},
           at : Returns, code : Codes]

TypeOK ==
    /\ toCsms \in [Stations -> Seq(Msg)]
    /\ toStation \in [Stations -> Seq(Msg)]
    /\ called \in [Stations -> SUBSET Msg]
    /\ pending \in [Stations -> SUBSET [id : ServerIds, action : MakerActions,
                                        state : States]]
    /\ answered \in [Stations -> SUBSET [id : Ids, action : Actions]]
    /\ errs \in [Stations -> SUBSET ErrRec]
    /\ handled \in [Stations -> Seq([id : Ids, action : Actions,
                                     state : States \cup {NoState}])]
    /\ dups \in Nat

(***************************************************************************)
(* Route emits a CallResult only in answer to a Call the same station      *)
(* published with that MessageId and Action, for a routed action, whose    *)
(* request passed validation and decoded: an invalid or unknown request    *)
(* never reaches a handler that answers it, however the bus redelivers.    *)
(***************************************************************************)
AnsweredOnlyValidCalls ==
    \A s \in Stations : \A r \in answered[s] :
        \E c \in called[s] :
            /\ c.id = r.id
            /\ c.action = r.action
            /\ r.action \in CallRoutes
            /\ c.req = "Valid"

(***************************************************************************)
(* Spec 3: a pending server-initiated call is removed when its result      *)
(* arrives, so its result handler runs at most once.  Route passes the     *)
(* envelope's State straight to the handler with nothing consumed.         *)
(***************************************************************************)
ResultHandledAtMostOnce ==
    \A s \in Stations : \A j, k \in 1..Len(handled[s]) :
        handled[s][j].id = handled[s][k].id => j = k

(***************************************************************************)
(* Spec 4.3: a request validation error becomes FormatViolation and any    *)
(* other error propagates unchanged, so a FormatViolation is only ever     *)
(* returned for a payload the schema rejected or that could not be decoded.*)
(***************************************************************************)
FormatViolationOnlyForBadPayloads ==
    \A s \in Stations : \A e \in errs[s] :
        e.code = "FormatViolation" =>
            \/ e.type = "Call" /\ e.req \in {"SchemaViolation", "Undecodable"}
            \/ e.type = "CallResult"
               /\ e.resp \in {"SchemaViolation", "Undecodable"}

(***************************************************************************)
(* Spec 4.3 step 3: a Call whose payload passes the schema but cannot be   *)
(* decoded into the request type is a FormatViolation.                     *)
(***************************************************************************)
DecodeFailureIsFormatViolation ==
    \A s \in Stations : \A e \in errs[s] :
        (e.type = "Call" /\ e.req = "Undecodable" /\ e.code # "NotImplemented")
            => e.code = "FormatViolation"

(***************************************************************************)
(* Spec 4.3 step 4: a handler that returns neither a response nor an error *)
(* is an implementation bug and must surface as InternalError.  Route's    *)
(* resp == nil check wraps no OCPP error code.                             *)
(***************************************************************************)
NilResponseIsInternalError ==
    \A s \in Stations : \A e \in errs[s] :
        e.at = "nilResponse" => e.code = "InternalError"
=============================================================================
