------------------------------ MODULE MCRouter ------------------------------
(* Router instantiated for TLC with the OCPP 2.0.1 router's tables.  Besides *)
(* the routed actions a station may send one the manager does not know.    *)
(* Besides CertificateSigned, the call maker may send ReserveNow: the       *)
(* repository has its ReservationResultHandler and the OCPI ReserveNow      *)
(* command, but no result route registers the handler.                      *)
EXTENDS Router

MCActions ==
    V201CallRoutes \cup V201CallResultRoutes \cup {"Frobnicate", "ReserveNow"}
MCMakerActions == V201MakerActions \cup {"ReserveNow"}
=============================================================================
