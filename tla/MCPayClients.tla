---------------------------- MODULE MCPayClients ----------------------------
(* Model checking of PayClients. *)
EXTENDS PayClients

\* The last event has no reader.
EventlessClientView ==
    <<treasury, profiles, receipts, atas, balance, stage, request, seen, fate>>
=============================================================================
