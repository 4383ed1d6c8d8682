---------------------------- MODULE RouterProofs ----------------------------
(***************************************************************************)
(* Proofs about Router: type correctness, and that Route only ever answers *)
(* a Call that its station published, for a routed action, with a valid   *)
(* request (AnsweredOnlyValidCalls), for every value of the constants.     *)
(***************************************************************************)
EXTENDS Router, TLAPS

USE RouterAssumption

(* A message an action takes off a topic is a Msg, and what is left is a  *)
(* queue of Msgs.                                                          *)
LEMMA HeadTailType ==
    ASSUME NEW q \in Seq(Msg), q # << >>
    PROVE  /\ Head(q) \in Msg
           /\ Tail(q) \in Seq(Msg)
OBVIOUS

(* Appending a well-typed element to one station's queue keeps the queues *)
(* well typed.                                                             *)
LEMMA AppendType ==
    ASSUME NEW S, NEW f \in [Stations -> Seq(S)], NEW s \in Stations,
           NEW e \in S
    PROVE  [f EXCEPT ![s] = Append(f[s], e)] \in [Stations -> Seq(S)]
OBVIOUS

(* Fail keeps the error history well typed.                                *)
LEMMA FailType ==
    ASSUME TypeOK, NEW s \in Stations, NEW m \in Msg, NEW at \in Returns,
           NEW c \in Codes, Fail(s, m, at, c)
    PROVE  errs' \in [Stations -> SUBSET ErrRec]
<1>1. [id |-> m.id, type |-> m.type, req |-> m.req, resp |-> m.resp,
       at |-> at, code |-> c] \in ErrRec
  BY DEF Msg, ErrRec
<1>. QED BY <1>1 DEF TypeOK, Fail

(* What one Call routing step does, in the two shapes it can take: an     *)
(* error with some code, or a CallResult emitted after the handler ran.     *)
LEMMA RouteCallEffect ==
    ASSUME NEW s \in Stations, RouteCall(s)
    PROVE  LET m == Head(toCsms[s]) IN
           /\ m.type = "Call"
           /\ toCsms' = [toCsms EXCEPT ![s] = Tail(toCsms[s])]
           /\ \/ /\ \E at \in Returns, c \in Codes : Fail(s, m, at, c)
                 /\ UNCHANGED <<toStation, answered>>
              \/ /\ HandlerRuns(m)
                 /\ \E rv \in {"Valid", "SchemaViolation"} :
                      /\ toStation' = [toStation EXCEPT ![s] = Append(@,
                            [type |-> "CallResult", action |-> m.action,
                             id |-> m.id, req |-> None, resp |-> rv,
                             state |-> NoState])]
                      /\ answered' = [answered EXCEPT ![s] =
                            @ \cup {[id |-> m.id, action |-> m.action]}]
                 /\ UNCHANGED errs
           /\ UNCHANGED <<called, pending, handled, dups>>
BY DEF RouteCall, Consume, Codes, Returns, RequestValidationCode

(* The same for a CallResult: an error, or the result handler ran (and may *)
(* have failed).                                                           *)
LEMMA RouteCallResultEffect ==
    ASSUME NEW s \in Stations, RouteCallResult(s)
    PROVE  LET m == Head(toCsms[s]) IN
           /\ toCsms' = [toCsms EXCEPT ![s] = Tail(toCsms[s])]
           /\ \/ /\ \E at \in Returns, c \in Codes : Fail(s, m, at, c)
                 /\ UNCHANGED handled
              \/ /\ handled' = [handled EXCEPT ![s] = Append(@,
                      [id |-> m.id, action |-> m.action,
                       state |-> HandlerState(m)])]
                 /\ \/ UNCHANGED errs
                    \/ \E at \in Returns, c \in Codes : Fail(s, m, at, c)
           /\ UNCHANGED <<toStation, called, pending, answered, dups>>
BY DEF RouteCallResult, Consume, Codes, Returns, ResponseValidationCode

-----------------------------------------------------------------------------
(* Every Call waiting on a station's in-topic is one the station published *)
(* (the bus only redelivers what is already there).                        *)
CallsInFlightPublished ==
    \A s \in Stations : \A k \in 1..Len(toCsms[s]) :
        toCsms[s][k].type = "Call" => toCsms[s][k] \in called[s]

IInv == TypeOK /\ CallsInFlightPublished /\ AnsweredOnlyValidCalls

-----------------------------------------------------------------------------
(* A step keeps every variable in its type.                                *)
LEMMA TypeStep == TypeOK /\ [Next]_vars => TypeOK'
  <2> SUFFICES ASSUME TypeOK, [Next]_vars PROVE TypeOK'
    OBVIOUS
  <2>1. ASSUME NEW s \in Stations, Route(s) PROVE TypeOK'
    <3> DEFINE m == Head(toCsms[s])
    <3>1. m \in Msg /\ Tail(toCsms[s]) \in Seq(Msg)
      BY <2>1, HeadTailType DEF Route, TypeOK
    <3>2. [toCsms EXCEPT ![s] = Tail(toCsms[s])] \in [Stations -> Seq(Msg)]
      BY <3>1 DEF TypeOK
    <3>3. ASSUME NEW at \in Returns, NEW c \in Codes, Fail(s, m, at, c)
          PROVE  errs' \in [Stations -> SUBSET ErrRec]
      BY <3>1, <3>3, FailType
    <3>4. CASE RouteCall(s)
      <4>1. \A rv \in {"Valid", "SchemaViolation"} :
               [type |-> "CallResult", action |-> m.action, id |-> m.id,
                req |-> None, resp |-> rv, state |-> NoState] \in Msg
        BY <3>1 DEF Msg, Payloads, None
      <4>2. [id |-> m.id, action |-> m.action] \in [id : Ids, action : Actions]
        BY <3>1 DEF Msg
      <4>9. /\ toCsms' = [toCsms EXCEPT ![s] = Tail(toCsms[s])]
            /\ \/ /\ \E at \in Returns, c \in Codes : Fail(s, m, at, c)
                  /\ UNCHANGED <<toStation, answered>>
               \/ /\ \E rv \in {"Valid", "SchemaViolation"} :
                       /\ toStation' = [toStation EXCEPT ![s] = Append(@,
                             [type |-> "CallResult", action |-> m.action,
                              id |-> m.id, req |-> None, resp |-> rv,
                              state |-> NoState])]
                       /\ answered' = [answered EXCEPT ![s] =
                             @ \cup {[id |-> m.id, action |-> m.action]}]
                  /\ UNCHANGED errs
            /\ UNCHANGED <<called, pending, handled, dups>>
        BY <3>4, RouteCallEffect
      <4>3. toCsms' \in [Stations -> Seq(Msg)]
        BY <4>9, <3>2
      <4>4. /\ toStation' \in [Stations -> Seq(Msg)]
            /\ answered' \in [Stations -> SUBSET [id : Ids, action : Actions]]
            /\ errs' \in [Stations -> SUBSET ErrRec]
        <5>1. CASE /\ \E at \in Returns, c \in Codes : Fail(s, m, at, c)
                   /\ UNCHANGED <<toStation, answered>>
          BY <5>1, <3>3 DEF TypeOK
        <5>2. CASE /\ \E rv \in {"Valid", "SchemaViolation"} :
                       /\ toStation' = [toStation EXCEPT ![s] = Append(@,
                             [type |-> "CallResult", action |-> m.action,
                              id |-> m.id, req |-> None, resp |-> rv,
                              state |-> NoState])]
                       /\ answered' = [answered EXCEPT ![s] =
                             @ \cup {[id |-> m.id, action |-> m.action]}]
                   /\ UNCHANGED errs
          <6>1. PICK rv \in {"Valid", "SchemaViolation"} :
                  /\ toStation' = [toStation EXCEPT ![s] = Append(@,
                        [type |-> "CallResult", action |-> m.action,
                         id |-> m.id, req |-> None, resp |-> rv,
                         state |-> NoState])]
                  /\ answered' = [answered EXCEPT ![s] =
                        @ \cup {[id |-> m.id, action |-> m.action]}]
            BY <5>2
          <6>. QED BY <6>1, <5>2, <4>1, <4>2 DEF TypeOK
        <5>. QED BY <4>9, <5>1, <5>2
      <4>7. UNCHANGED <<called, pending, handled, dups>>
        BY <4>9
      <4>. QED BY <4>3, <4>4, <4>7 DEF TypeOK
    <3>5. CASE RouteCallResult(s)
      <4>1. [id |-> m.id, action |-> m.action, state |-> HandlerState(m)]
              \in [id : Ids, action : Actions, state : States \cup {NoState}]
        BY <3>1 DEF Msg, HandlerState
      <4>9. /\ toCsms' = [toCsms EXCEPT ![s] = Tail(toCsms[s])]
            /\ \/ /\ \E at \in Returns, c \in Codes : Fail(s, m, at, c)
                  /\ UNCHANGED handled
               \/ /\ handled' = [handled EXCEPT ![s] = Append(@,
                       [id |-> m.id, action |-> m.action,
                        state |-> HandlerState(m)])]
                  /\ \/ UNCHANGED errs
                     \/ \E at \in Returns, c \in Codes : Fail(s, m, at, c)
            /\ UNCHANGED <<toStation, called, pending, answered, dups>>
        BY <3>5, RouteCallResultEffect
      <4>2. toCsms' \in [Stations -> Seq(Msg)]
        BY <4>9, <3>2
      <4>3. handled' \in [Stations -> Seq([id : Ids, action : Actions,
                                           state : States \cup {NoState}])]
        <5>1. CASE UNCHANGED handled
          BY <5>1 DEF TypeOK
        <5>2. CASE handled' = [handled EXCEPT ![s] = Append(@,
                       [id |-> m.id, action |-> m.action,
                        state |-> HandlerState(m)])]
          BY <5>2, <4>1, AppendType DEF TypeOK
        <5>. QED BY <4>9, <5>1, <5>2
      <4>4. errs' \in [Stations -> SUBSET ErrRec]
        <5>1. CASE UNCHANGED errs
          BY <5>1 DEF TypeOK
        <5>2. CASE \E at \in Returns, c \in Codes : Fail(s, m, at, c)
          BY <5>2, <3>3
        <5>. QED BY <4>9, <5>1, <5>2
      <4>5. UNCHANGED <<toStation, called, pending, answered, dups>>
        BY <4>9
      <4>. QED BY <4>2, <4>3, <4>4, <4>5 DEF TypeOK
    <3>6. CASE RouteCallError(s)
      <4>1. toCsms' \in [Stations -> Seq(Msg)]
        BY <3>6, <3>2 DEF RouteCallError, Consume
      <4>2. errs' \in [Stations -> SUBSET ErrRec]
        BY <3>6, <3>3 DEF RouteCallError, Codes, Returns
      <4>3. UNCHANGED <<toStation, called, pending, answered, handled, dups>>
        BY <3>6 DEF RouteCallError
      <4>. QED BY <4>1, <4>2, <4>3 DEF TypeOK
    <3>. QED BY <2>1, <3>4, <3>5, <3>6 DEF Route
  <2>2. ASSUME NEW s \in Stations, StationCall(s) PROVE TypeOK'
    <3>1. PICK a \in Actions, i \in StationIds, p \in Payloads :
            /\ toCsms' = [toCsms EXCEPT ![s] = Append(@,
                  [type |-> "Call", action |-> a, id |-> i, req |-> p,
                   resp |-> None, state |-> NoState])]
            /\ called' = [called EXCEPT ![s] = @ \cup
                  {[type |-> "Call", action |-> a, id |-> i, req |-> p,
                    resp |-> None, state |-> NoState]}]
            /\ UNCHANGED <<toStation, pending, answered, errs, handled, dups>>
      BY <2>2 DEF StationCall
    <3>2. [type |-> "Call", action |-> a, id |-> i, req |-> p,
           resp |-> None, state |-> NoState] \in Msg
      BY DEF Msg, Ids, Payloads, None
    <3>3. toCsms' \in [Stations -> Seq(Msg)]
      BY <3>1, <3>2 DEF TypeOK
    <3>4. called' \in [Stations -> SUBSET Msg]
      BY <3>1, <3>2 DEF TypeOK
    <3>. QED BY <3>1, <3>3, <3>4 DEF TypeOK
  <2>3. ASSUME NEW s \in Stations, CallMakerSend(s) PROVE TypeOK'
    <3>1. PICK a \in MakerActions, i \in ServerIds, st \in States,
               p \in {"Valid", "SchemaViolation"} :
            /\ pending' = [pending EXCEPT ![s] = @ \cup
                              {[id |-> i, action |-> a, state |-> st]}]
            /\ toStation' = [toStation EXCEPT ![s] = Append(@,
                  [type |-> "Call", action |-> a, id |-> i, req |-> p,
                   resp |-> None, state |-> st])]
            /\ UNCHANGED <<toCsms, called, answered, errs, handled, dups>>
      BY <2>3 DEF CallMakerSend
    <3>2. [type |-> "Call", action |-> a, id |-> i, req |-> p,
           resp |-> None, state |-> st] \in Msg
      BY DEF Msg, Ids, Payloads, None
    <3>3. toStation' \in [Stations -> Seq(Msg)]
      BY <3>1, <3>2 DEF TypeOK
    <3>4. pending' \in [Stations -> SUBSET [id : ServerIds,
                                   action : MakerActions, state : States]]
      BY <3>1 DEF TypeOK
    <3>. QED BY <3>1, <3>3, <3>4 DEF TypeOK
  <2>4. ASSUME NEW s \in Stations, StationReceive(s) PROVE TypeOK'
    <3> DEFINE m == Head(toStation[s])
    <3>1. m \in Msg /\ Tail(toStation[s]) \in Seq(Msg)
      BY <2>4, HeadTailType DEF StationReceive, TypeOK
    <3>2. \A t \in {"CallResult", "CallError"}, r \in Payloads :
             [m EXCEPT !.type = t, !.resp = r] \in Msg
      BY <3>1 DEF Msg, Payloads
    <3>3. toStation' \in [Stations -> Seq(Msg)]
      BY <2>4, <3>1 DEF StationReceive, TypeOK
    <3>4. toCsms' \in [Stations -> Seq(Msg)]
      <4>1. CASE UNCHANGED toCsms
        BY <4>1 DEF TypeOK
      <4>2. CASE \E t \in {"CallResult", "CallError"}, r \in Payloads :
                   toCsms' = [toCsms EXCEPT ![s] = Append(@,
                                 [m EXCEPT !.type = t, !.resp = r])]
        <5>1. PICK t \in {"CallResult", "CallError"}, r \in Payloads :
                   toCsms' = [toCsms EXCEPT ![s] = Append(@,
                                 [m EXCEPT !.type = t, !.resp = r])]
          BY <4>2
        <5>2. [m EXCEPT !.type = t, !.resp = r] \in Msg
          BY <3>2
        <5>. QED BY <5>1, <5>2, AppendType DEF TypeOK
      <4>. QED BY <2>4, <4>1, <4>2 DEF StationReceive
    <3>5. UNCHANGED <<called, pending, answered, errs, handled, dups>>
      BY <2>4 DEF StationReceive
    <3>. QED BY <3>3, <3>4, <3>5 DEF TypeOK
  <2>5. ASSUME NEW s \in Stations, BusDuplicate(s) PROVE TypeOK'
    <3>1. \A k \in 1..Len(toCsms[s]) : toCsms[s][k] \in Msg
      BY DEF TypeOK
    <3>2. toCsms' \in [Stations -> Seq(Msg)]
      BY <2>5, <3>1 DEF BusDuplicate, TypeOK
    <3>3. UNCHANGED <<toStation, called, pending, answered, errs, handled>>
      BY <2>5 DEF BusDuplicate
    <3>4. dups' \in Nat
      BY <2>5 DEF BusDuplicate, TypeOK
    <3>. QED BY <3>2, <3>3, <3>4 DEF TypeOK
  <2>6. CASE UNCHANGED vars
    BY <2>6 DEF vars, TypeOK
  <2>. QED BY <2>1, <2>2, <2>3, <2>4, <2>5, <2>6 DEF Next

(* Type correctness: Route, the stations, the call maker and the bus keep  *)
(* every variable in its type.                                             *)
THEOREM TypeCorrect == Spec => []TypeOK
<1>1. Init => TypeOK
  BY DEF Init, TypeOK
<1>. QED BY <1>1, TypeStep, PTL DEF Spec

-----------------------------------------------------------------------------
(* A Call that reaches its handler has a routed action and a valid request.*)
LEMMA HandlerRunsValid ==
    ASSUME NEW m \in Msg, HandlerRuns(m)
    PROVE  m.action \in CallRoutes /\ m.req = "Valid"
BY DEF HandlerRuns, Validate, Msg, Payloads, None

(* The inductive step for CallsInFlightPublished and AnsweredOnlyValidCalls.*)
LEMMA IInvStep == IInv /\ [Next]_vars => IInv'
<1> SUFFICES ASSUME IInv, [Next]_vars PROVE IInv'
  OBVIOUS
<1>1. TypeOK'
  BY TypeStep DEF IInv
<1>2. ASSUME NEW s \in Stations, Route(s)
      PROVE  CallsInFlightPublished' /\ AnsweredOnlyValidCalls'
  <2> DEFINE m == Head(toCsms[s])
  <2>1. toCsms' = [toCsms EXCEPT ![s] = Tail(toCsms[s])] /\ UNCHANGED called
    BY <1>2 DEF Route, RouteCall, RouteCallResult, RouteCallError, Consume
  <2>2. toCsms[s] \in Seq(Msg) /\ toCsms[s] # << >>
    BY <1>2 DEF Route, IInv, TypeOK
  <2>3. CallsInFlightPublished'
    BY <2>1, <2>2 DEF IInv, CallsInFlightPublished, TypeOK
  <2>4. CASE UNCHANGED answered
    BY <2>1, <2>3, <2>4 DEF IInv, AnsweredOnlyValidCalls
  <2>5. CASE ~UNCHANGED answered
    <3>1. /\ RouteCall(s)
          /\ HandlerRuns(m)
          /\ answered' = [answered EXCEPT ![s] =
                             @ \cup {[id |-> m.id, action |-> m.action]}]
      <4>1. RouteCall(s)
        BY <1>2, <2>5 DEF Route, RouteCallResult, RouteCallError
      <4>. QED BY <4>1, <2>5, RouteCallEffect
    <3>2. m.type = "Call" /\ m \in Msg
      BY <3>1, <2>2, HeadTailType DEF RouteCall
    <3>3. m \in called[s]
      BY <3>2, <2>2 DEF IInv, CallsInFlightPublished
    <3>4. m.action \in CallRoutes /\ m.req = "Valid"
      BY <3>1, <3>2, HandlerRunsValid
    <3>5. answered \in [Stations -> SUBSET [id : Ids, action : Actions]]
      BY DEF IInv, TypeOK
    <3>. QED BY <3>1, <3>3, <3>4, <3>5, <2>1, <2>3
                DEF IInv, AnsweredOnlyValidCalls
  <2>. QED BY <2>3, <2>4, <2>5
<1>3. ASSUME NEW s \in Stations, StationCall(s)
      PROVE  CallsInFlightPublished' /\ AnsweredOnlyValidCalls'
  <2>1. PICK a \in Actions, i \in StationIds, p \in Payloads :
          /\ toCsms' = [toCsms EXCEPT ![s] = Append(@,
                [type |-> "Call", action |-> a, id |-> i, req |-> p,
                 resp |-> None, state |-> NoState])]
          /\ called' = [called EXCEPT ![s] = @ \cup
                {[type |-> "Call", action |-> a, id |-> i, req |-> p,
                  resp |-> None, state |-> NoState]}]
          /\ UNCHANGED <<toStation, pending, answered, errs, handled, dups>>
    BY <1>3 DEF StationCall
  <2>2. CallsInFlightPublished'
    BY <2>1 DEF IInv, TypeOK, CallsInFlightPublished
  <2>3. AnsweredOnlyValidCalls'
    BY <2>1 DEF IInv, TypeOK, AnsweredOnlyValidCalls
  <2>. QED BY <2>2, <2>3
<1>4. ASSUME NEW s \in Stations, CallMakerSend(s)
      PROVE  CallsInFlightPublished' /\ AnsweredOnlyValidCalls'
  BY <1>4 DEF CallMakerSend, IInv, CallsInFlightPublished,
              AnsweredOnlyValidCalls
<1>5. ASSUME NEW s \in Stations, StationReceive(s)
      PROVE  CallsInFlightPublished' /\ AnsweredOnlyValidCalls'
  <2>1. CASE UNCHANGED toCsms
    BY <1>5, <2>1 DEF StationReceive, IInv, CallsInFlightPublished,
                      AnsweredOnlyValidCalls
  <2>2. CASE \E t \in {"CallResult", "CallError"}, r \in Payloads :
               toCsms' = [toCsms EXCEPT ![s] = Append(@,
                             [Head(toStation[s]) EXCEPT !.type = t,
                                                        !.resp = r])]
    <3>1. PICK t \in {"CallResult", "CallError"}, r \in Payloads :
               toCsms' = [toCsms EXCEPT ![s] = Append(@,
                             [Head(toStation[s]) EXCEPT !.type = t,
                                                        !.resp = r])]
      BY <2>2
    <3>2. Head(toStation[s]) \in Msg
      BY <1>5, HeadTailType DEF StationReceive, IInv, TypeOK
    <3>3. [Head(toStation[s]) EXCEPT !.type = t, !.resp = r].type # "Call"
      BY <3>2 DEF Msg
    <3>4. UNCHANGED <<called, answered>>
      BY <1>5 DEF StationReceive
    <3>5. CallsInFlightPublished'
      BY <3>1, <3>3, <3>4 DEF IInv, TypeOK, CallsInFlightPublished
    <3>. QED BY <3>4, <3>5 DEF IInv, AnsweredOnlyValidCalls
  <2>. QED BY <1>5, <2>1, <2>2 DEF StationReceive
<1>6. ASSUME NEW s \in Stations, BusDuplicate(s)
      PROVE  CallsInFlightPublished' /\ AnsweredOnlyValidCalls'
  <2>1. PICK k \in 1..Len(toCsms[s]) :
          toCsms' = [toCsms EXCEPT ![s] = Append(@, toCsms[s][k])]
    BY <1>6 DEF BusDuplicate
  <2>2. UNCHANGED <<called, answered>>
    BY <1>6 DEF BusDuplicate
  <2>3. CallsInFlightPublished'
    <3> SUFFICES ASSUME NEW t \in Stations, NEW j \in 1..Len(toCsms'[t]),
                        toCsms'[t][j].type = "Call"
                 PROVE  toCsms'[t][j] \in called'[t]
      BY DEF CallsInFlightPublished
    <3>1. toCsms[s] \in Seq(Msg)
      BY DEF IInv, TypeOK
    <3>2. CASE t # s
      BY <3>2, <2>1, <2>2 DEF IInv, CallsInFlightPublished
    <3>3. CASE t = s /\ j <= Len(toCsms[s])
      BY <3>1, <3>3, <2>1, <2>2 DEF IInv, CallsInFlightPublished
    <3>4. CASE t = s /\ j = Len(toCsms[s]) + 1
      BY <3>1, <3>4, <2>1, <2>2 DEF IInv, CallsInFlightPublished
    <3>. QED BY <3>1, <3>2, <3>3, <3>4, <2>1
  <2>. QED BY <2>2, <2>3 DEF IInv, AnsweredOnlyValidCalls
<1>7. CASE UNCHANGED vars
  BY <1>1, <1>7 DEF vars, IInv, CallsInFlightPublished, AnsweredOnlyValidCalls
<1>. QED BY <1>1, <1>2, <1>3, <1>4, <1>5, <1>6, <1>7 DEF Next, IInv

(* Route answers only Calls their station published, for a routed action, *)
(* with a valid request, in every behaviour and for every instance.        *)
THEOREM AnsweredOnlyValid == Spec => []AnsweredOnlyValidCalls
<1>1. Init => IInv
  BY DEF Init, IInv, TypeOK, CallsInFlightPublished, AnsweredOnlyValidCalls
<1>2. IInv => AnsweredOnlyValidCalls
  BY DEF IInv
<1>. QED BY <1>1, <1>2, IInvStep, PTL DEF Spec
=============================================================================
