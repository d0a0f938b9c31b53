----------------------------- MODULE MCServices -----------------------------
(***************************************************************************)
(* Parts of the backend side by side that share no state: the sessions of  *)
(* the account service, its rate limit, the broker's access token, the     *)
(* market monitor and the news pipeline.  A behaviour follows one of them, *)
(* its `service', while the others rest.                                   *)
(***************************************************************************)
EXTENDS Session, RateLimit, AccessToken, AlertMonitor, NewsPipeline

CONSTANT Services   \* those that are followed

ASSUME ServicesAssumption == Services \subseteq {"session", "limit", "token", "alerts", "news"}

VARIABLE service   \* what is followed

ServicesInit ==
  /\ service \in Services
  /\ Init /\ LimitInit /\ TokenInit /\ MonitorInit /\ NewsInit

\* Services other than the one named leave `vs' alone.
Rests(name, vs) == IF service = name THEN TRUE ELSE UNCHANGED vs

ServicesNext ==
  /\ \/ service = "session" /\ Next
     \/ service = "limit"   /\ LimitNext
     \/ service = "token"   /\ TokenNext
     \/ service = "alerts"  /\ AlertNext
     \/ service = "news"    /\ NewsNext
  /\ Rests("session", vars) /\ Rests("limit", limitVars) /\ Rests("token", tokenVars)
  /\ Rests("alerts", alertVars) /\ Rests("news", newsVars)
  /\ UNCHANGED service

ServicesSpec ==
  ServicesInit /\ [][ServicesNext]_<<service, vars, limitVars, tokenVars, alertVars, newsVars>>

=============================================================================
