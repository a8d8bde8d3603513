------------------------------ MODULE MCClients ------------------------------
(****************************************************************************)
(* The parts that share no state and whose tasks must end: the clients that *)
(* several tasks share, the webhook's sender, the health checker and the    *)
(* shutdown.  `part` says which of them a behaviour is about; the others    *)
(* stay in their initial states, where no action with fairness is enabled,  *)
(* so that the states to check are the union of the parts', not a product.  *)
(****************************************************************************)
EXTENDS ReliableClient, TopicPool, Webhook, HealthChecker, Shutdown

VARIABLE part

clientVars == <<part, vars, topicVars, webhookVars, checkerVars, shutdownVars>>

ClientsInit ==
  /\ part \in {"reliable", "topics", "webhook", "checker", "shutdown"}
  /\ Init /\ TopicInit /\ WebhookInit /\ CheckerInit /\ ShutdownInit

ClientsNext ==
  /\ UNCHANGED part
  /\ \/ /\ part = "reliable" /\ Next
        /\ UNCHANGED <<topicVars, webhookVars, checkerVars, shutdownVars>>
     \/ /\ part = "topics" /\ TopicNext
        /\ UNCHANGED <<vars, webhookVars, checkerVars, shutdownVars>>
     \/ /\ part = "webhook" /\ WebhookNext
        /\ UNCHANGED <<vars, topicVars, checkerVars, shutdownVars>>
     \/ /\ part = "checker" /\ CheckerNext
        /\ UNCHANGED <<vars, topicVars, webhookVars, shutdownVars>>
     \/ /\ part = "shutdown" /\ ShutdownNext
        /\ UNCHANGED <<vars, topicVars, webhookVars, checkerVars>>

ClientsSpec ==
  /\ ClientsInit /\ [][ClientsNext]_clientVars
  /\ ReliableFairness /\ TopicFairness /\ WebhookFairness
  /\ CheckerFairness /\ ShutdownFairness

------------------------------------------------------------------------------
(* What is begun ends: calls by topic and close(), each notify, the loop of *)
(* a cancelled checker, and run_with_graceful_shutdown after ctrl_c.        *)
TasksEnd == CallsReturn /\ NotifyReturns /\ CheckerStops /\ ShutdownEnds

==============================================================================
