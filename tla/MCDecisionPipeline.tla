------------------------- MODULE MCDecisionPipeline -------------------------
(* Model checking of DecisionPipeline. *)
EXTENDS DecisionPipeline

Carrying(compliance, risk, policy, trust) ==
    [identity |-> None, compliance |-> compliance, risk |-> risk,
     policy |-> policy, trust |-> trust]

\* Every engine asked, over decisions that say otherwise; the engines of
\* createPaymentRuntime for a request without participant and policy context; and
\* no engine at all, for a request that carries what it likes.
MCRequests ==
    {[asked |-> Engines, carried |-> Carrying("blocked", None, "approved", "trusted")],
     [asked |-> {"compliance", "risk"}, carried |-> Carrying(None, None, "manual_review", None)],
     [asked |-> {"compliance", "risk"}, carried |-> Carrying(None, None, None, None)],
     [asked |-> {}, carried |-> Carrying("approved", "hold", None, "review_required")],
     [asked |-> {}, carried |-> Carrying("requires_kyc", "approved", "approved", None)]}
=============================================================================
