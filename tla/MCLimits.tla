------------------------------- MODULE MCLimits -------------------------------
(***************************************************************************)
(* The limits the API sets: requests per window, quotas and shares of the    *)
(* gateway, and guesses and uses of the codes that prove an identity.  The *)
(* strategies, the quotas, the throttler, the balancer and each kind of     *)
(* code share no state, so each behaviour exercises one of them (scope,     *)
(* chosen at the start): TLC explores the sum of their states and not the  *)
(* product.                                                                *)
(***************************************************************************)
EXTENDS RateLimiting, LoadBalancer, OneTimeCodes, TwoFactor

VARIABLE scope

mcVars == <<rateVars, lbVars, vars, tfVars, scope>>

MCInit ==
    /\ scope \in Strategies \cup {"quota", "throttler", "balancer", "verification", "reset", "twoFactor"}
    /\ RateInit /\ LBInit /\ Init /\ TFInit

MCNext ==
    /\ UNCHANGED scope
    /\ \/ scope \in Strategies /\ StrategyNext(scope) /\ UNCHANGED <<lbVars, vars, tfVars>>
       \/ scope = "quota" /\ QuotaNext /\ UNCHANGED <<lbVars, vars, tfVars>>
       \/ scope = "throttler" /\ ThrottlerNext /\ UNCHANGED <<lbVars, vars, tfVars>>
       \/ scope = "balancer" /\ LBNext /\ UNCHANGED <<rateVars, vars, tfVars>>
       \/ scope = "verification" /\ VerificationNext /\ UNCHANGED <<rateVars, lbVars, tfVars>>
       \/ scope = "reset" /\ ResetNext /\ UNCHANGED <<rateVars, lbVars, tfVars>>
       \/ scope = "twoFactor" /\ TFNext /\ UNCHANGED <<rateVars, lbVars, vars>>

MCSpec == MCInit /\ [][MCNext]_mcVars

==============================================================================
