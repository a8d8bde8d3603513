------------------------------ MODULE MCServices ------------------------------
(****************************************************************************)
(* The parts that share no state and are checked for safety.  `part` says   *)
(* which of them a behaviour is about; the others stay in their initial     *)
(* states, so that the states to check are the union of the parts'.         *)
(****************************************************************************)
EXTENDS ServiceMetrics, Discovery, RateLimiter, StreamPool, TopicPool

VARIABLE part

MCBounds == <<2, 6>>

servicesVars == <<part, metricsVars, discoveryVars, limiterVars, streamVars,
                  topicVars>>

ServicesInit ==
  /\ part \in {"metrics", "discovery", "limiter", "streams", "topics"}
  /\ MetricsInit /\ DiscoveryInit /\ LimiterInit /\ StreamPoolInit /\ TopicInit

ServicesNext ==
  /\ UNCHANGED part
  /\ \/ /\ part = "metrics" /\ MetricsNext
        /\ UNCHANGED <<discoveryVars, limiterVars, streamVars, topicVars>>
     \/ /\ part = "discovery" /\ DiscoveryNext
        /\ UNCHANGED <<metricsVars, limiterVars, streamVars, topicVars>>
     \/ /\ part = "limiter" /\ LimiterNext
        /\ UNCHANGED <<metricsVars, discoveryVars, streamVars, topicVars>>
     \/ /\ part = "streams" /\ StreamPoolNext
        /\ UNCHANGED <<metricsVars, discoveryVars, limiterVars, topicVars>>
     \/ /\ part = "topics" /\ TopicNext
        /\ UNCHANGED <<metricsVars, discoveryVars, limiterVars, streamVars>>

ServicesSpec == ServicesInit /\ [][ServicesNext]_servicesVars

==============================================================================
