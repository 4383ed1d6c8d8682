------------------------------- MODULE Serve --------------------------------
(***************************************************************************)
(* The serve command's RunE: the manager's startup sequence and the wait   *)
(* on the shared error channel.  Two versions of it are in the tree:       *)
(* src/manager/ocpp/ocpp16/reservation_response.go, which retrieves the    *)
(* MO root certificates through a retrieval service, and                   *)
(* src/manager/cmd/serve.go, which pulls them with pullMoTrustAnchors.     *)
(* The version is chosen in the initial state.                             *)
(*                                                                         *)
(* The main goroutine walks through the steps of RunE; every step that     *)
(* can fail is an early return.  After the API server and the MQTT handler *)
(* are started each runs in a goroutine of its own that may, once, fail    *)
(* and send its error to errCh, from which RunE takes one error and        *)
(* returns it.  The flags are abstracted to what the control depends on.   *)
(***************************************************************************)
EXTENDS Naturals, Sequences

(* The two goroutines that report on errCh.                                *)
Servers == {"api", "mqtt"}

(***************************************************************************)
(* The flag values RunE branches on: the storage engine, a key log file,   *)
(* and the CSO and MO OPCP token and URL.                                  *)
(***************************************************************************)
Config == [storage : {"firestore", "inmemory", "other"},
           keyLog : BOOLEAN,
           csoToken : BOOLEAN, csoUrl : BOOLEAN,
           moToken : BOOLEAN, moUrl : BOOLEAN]

Versions == {"retrieval", "pull"}

Steps == {"initProvider", "parseBroker", "storage", "certificates", "keyLog",
          "services", "startApi", "connectMqtt", "receive", "returned"}

VARIABLES
    version,         \* which of the two RunE versions runs
    cfg,             \* the flag values (fixed for the run)
    pc,              \* the next step of the main goroutine
    deferred,        \* the OTLP shutdown has been deferred
    shutdownCalled,  \* the deferred shutdown has run
    provider,        \* initProvider returned a tracer provider
    signer,          \* certSignerService is non-nil
    evProvider,      \* certProviderService is non-nil
    server,          \* state of each server goroutine
    errCh,           \* errors buffered in errCh
    retErr           \* what RunE returned

vars == <<version, cfg, pc, deferred, shutdownCalled, provider, signer,
          evProvider, server, errCh, retErr>>

(* The buffer size of errCh.                                               *)
ErrChUnbuffered == 0   \* mutant: make(chan error)

ErrChCapacity == 1

-----------------------------------------------------------------------------
(* RunE returns: the functions it deferred run.                            *)
Return(e) ==
    /\ pc' = "returned"
    /\ retErr' = e
    /\ shutdownCalled' = deferred

(* The step succeeds and the main goroutine goes on to the next one.       *)
Goto(step) == pc' = step /\ UNCHANGED <<shutdownCalled, retErr>>

Main == <<deferred, provider, signer, evProvider, server, errCh>>

(***************************************************************************)
(* initProvider builds a resource and an exporter (an OTLP one over gRPC   *)
(* when a collector address is given, the slog one otherwise); each of     *)
(* these calls may fail.  On success RunE defers the provider's shutdown.  *)
(***************************************************************************)
InitProvider ==
    /\ pc = "initProvider"
    /\ \/ /\ Return("startup")
          /\ UNCHANGED Main
       \/ /\ Goto("parseBroker")
          /\ provider' = TRUE
          /\ deferred' = TRUE
          /\ UNCHANGED <<signer, evProvider, server, errCh>>
    /\ UNCHANGED <<version, cfg>>

(* url.Parse of the broker address.                                        *)
ParseBrokerUrl ==
    /\ pc = "parseBroker"
    /\ \/ Return("startup")
       \/ Goto("storage")
    /\ UNCHANGED <<version, cfg>> /\ UNCHANGED Main

(* The storage engine: firestore.NewStore may fail, inmemory cannot, any   *)
(* other name is rejected.                                                 *)
OpenStorage ==
    /\ pc = "storage"
    /\ \/ /\ cfg.storage = "firestore"
          /\ Return("startup") \/ Goto("certificates")
       \/ /\ cfg.storage = "inmemory"
          /\ Goto("certificates")
       \/ /\ cfg.storage = "other"
          /\ Return("startup")
    /\ UNCHANGED <<version, cfg>> /\ UNCHANGED Main

(***************************************************************************)
(* The newer version: the OPCP pool retrieval service when a pool address  *)
(* is given, the PEM file retrieval service otherwise.  Either may fail,   *)
(* and the choice affects nothing else.                                    *)
(***************************************************************************)
RetrieveMoRootCertificates ==
    /\ pc = "certificates"
    /\ version = "retrieval"
    /\ \/ Return("startup")
       \/ Goto("keyLog")
    /\ UNCHANGED <<version, cfg>> /\ UNCHANGED Main

(***************************************************************************)
(* The older version: pullMoTrustAnchors GETs the pool, base64-decodes the *)
(* body and parses it as PKCS#7; the request, a non-200 status, reading    *)
(* the body, the decoding and the parsing may each fail.                   *)
(***************************************************************************)
PullMoTrustAnchors ==
    /\ pc = "certificates"
    /\ version = "pull"
    /\ \/ Return("startup")
       \/ Goto("keyLog")
    /\ UNCHANGED <<version, cfg>> /\ UNCHANGED Main

(* With a key log file, os.OpenFile may fail; otherwise nothing to open.   *)
OpenKeyLog ==
    /\ pc = "keyLog"
    /\ \/ /\ cfg.keyLog
          /\ Return("startup") \/ Goto("services")
       \/ /\ ~cfg.keyLog
          /\ Goto("services")
    /\ UNCHANGED <<version, cfg>> /\ UNCHANGED Main

(***************************************************************************)
(* The CPO signer and the EV certificate provider are built only when both *)
(* their token and their URL are set; otherwise the nil interface is       *)
(* passed to mqtt.NewHandler all the same.                                 *)
(***************************************************************************)
WireServices ==
    /\ pc = "services"
    /\ Goto("startApi")
    /\ signer' = (cfg.csoToken /\ cfg.csoUrl)
    /\ evProvider' = (cfg.moToken /\ cfg.moUrl)
    /\ UNCHANGED <<version, cfg, deferred, provider, server, errCh>>

(* errCh is made and the API server started on it.                        *)
StartApi ==
    /\ pc = "startApi"
    /\ Goto("connectMqtt")
    /\ server' = [server EXCEPT !["api"] = "running"]
    /\ UNCHANGED <<version, cfg, deferred, provider, signer, evProvider, errCh>>

(* The MQTT handler connects and reports on the same channel.              *)
ConnectMqtt ==
    /\ pc = "connectMqtt"
    /\ Goto("receive")
    /\ server' = [server EXCEPT !["mqtt"] = "running"]
    /\ UNCHANGED <<version, cfg, deferred, provider, signer, evProvider, errCh>>

(***************************************************************************)
(* err = <-errCh; return err.  The receive takes a buffered error or,      *)
(* with an empty buffer, the error of a goroutine blocked in its send.     *)
(***************************************************************************)
Receive ==
    /\ pc = "receive"
    /\ \/ /\ errCh # << >>
          /\ Return(Head(errCh))
          /\ errCh' = Tail(errCh)
          /\ UNCHANGED server
       \/ /\ errCh = << >>
          /\ \E g \in Servers :
                /\ server[g] = "sending"
                /\ Return(g)
                /\ server' = [server EXCEPT ![g] = "sent"]
                /\ UNCHANGED errCh
    /\ UNCHANGED <<version, cfg, deferred, provider, signer, evProvider>>

-----------------------------------------------------------------------------
(* A running server fails and its goroutine starts to send the error.      *)
ServerFail(g) ==
    /\ server[g] = "running"
    /\ server' = [server EXCEPT ![g] = "sending"]
    /\ UNCHANGED <<version, cfg, pc, deferred, shutdownCalled, provider,
                   signer, evProvider, errCh, retErr>>

(* The send completes into the buffer when there is room.                  *)
Send(g) ==
    /\ server[g] = "sending"
    /\ Len(errCh) < ErrChCapacity
    /\ errCh' = Append(errCh, g)
    /\ server' = [server EXCEPT ![g] = "sent"]
    /\ UNCHANGED <<version, cfg, pc, deferred, shutdownCalled, provider,
                   signer, evProvider, retErr>>

-----------------------------------------------------------------------------
Init ==
    /\ version \in Versions
    /\ cfg \in Config
    /\ pc = "initProvider"
    /\ deferred = FALSE
    /\ shutdownCalled = FALSE
    /\ provider = FALSE
    /\ signer = FALSE
    /\ evProvider = FALSE
    /\ server = [g \in Servers |-> "stopped"]
    /\ errCh = << >>
    /\ retErr = "none"

(* One step of the main goroutine.                                         *)
MainStep ==
    \/ InitProvider
    \/ ParseBrokerUrl
    \/ OpenStorage
    \/ RetrieveMoRootCertificates
    \/ PullMoTrustAnchors
    \/ OpenKeyLog
    \/ WireServices
    \/ StartApi
    \/ ConnectMqtt
    \/ Receive

Next ==
    \/ MainStep
    \/ \E g \in Servers : ServerFail(g) \/ Send(g)

(***************************************************************************)
(* The main goroutine and the sending goroutines are scheduled by the Go   *)
(* runtime; whether and when a server fails is up to the environment.      *)
(***************************************************************************)
Spec ==
    /\ Init /\ [][Next]_vars
    /\ WF_vars(MainStep)
    /\ \A g \in Servers : WF_vars(Send(g))

-----------------------------------------------------------------------------
(***************************************************************************)
(* A server goroutine that fails completes its send on errCh, even when    *)
(* the other server has failed too and RunE has already returned with the  *)
(* other's error: no goroutine is left blocked on the channel.             *)
(***************************************************************************)
ServerErrorsDelivered ==
    \A g \in Servers : server[g] = "sending" ~> server[g] = "sent"
=============================================================================
