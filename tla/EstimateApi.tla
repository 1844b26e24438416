---------------------------- MODULE EstimateApi ----------------------------
(***************************************************************************)
(* The requests that run the estimate pipeline, together: estimates asked  *)
(* for directly, those that an upload or a text asks for, and those that   *)
(* the advisers ask for.  Each runs in a thread of its own and shares      *)
(* nothing with the others, so one at a time is under way here.            *)
(***************************************************************************)
EXTENDS Optimization, Intake

apiVars == <<vars, advice, intake>>

ApiInit == Init /\ advice = Nothing /\ intake = Nothing

\* A request for an estimate alone.
Estimating ==
  /\ advice = Nothing /\ intake = Nothing
  /\ Submit \/ Respond
  /\ UNCHANGED <<advice, intake>>

\* The stages are the same whoever asked for the estimate.
Working ==
  /\ \/ Recommend \/ Bridge \/ BridgeRaises \/ Validate \/ NormalizeSpec
     \/ PriceAll \/ PricingFormRaises \/ PriceFails
  /\ UNCHANGED <<advice, intake>>

Advising == intake = Nothing /\ Advise /\ UNCHANGED intake
TakingIn == advice = Nothing /\ TakeIn /\ UNCHANGED advice

ApiNext == Estimating \/ Working \/ Advising \/ TakingIn

ApiSpec == ApiInit /\ [][ApiNext]_apiVars
=============================================================================
