------------------------------- MODULE Webhook -------------------------------
(****************************************************************************)
(* src/webhook.rs: WebhookService::notify over its senders, each of which   *)
(* tries again when the post fails.  The task of a connection reports its   *)
(* events one after the other (src/server.rs).  A post that the client has  *)
(* given up on may still reach the receiver, later than its retries.        *)
(****************************************************************************)
EXTENDS Naturals, FiniteSets

CONSTANTS Events,          \* the task reports events 1 .. Events
          Senders,         \* numbered 1 .. Senders, in the order of `senders`
          MaxRetries

ASSUME WebhookAssumption ==
  Events \in Nat /\ Senders \in Nat \ {0} /\ MaxRetries \in Nat

VARIABLES
  hook,          \* the task: what it does next, event, sender and attempt
  errors,        \* the senders that failed, per event
  posts,         \* posts made, per event and sender: how many arrived,
                 \* are on their way, and never will arrive
  hooked         \* the events whose notify has returned

webhookVars == <<hook, errors, posts, hooked>>

Reports == 1 .. Events
Posters == 1 .. Senders

WebhookInit ==
  /\ hook = [at |-> "idle", event |-> 0, sender |-> 0, attempt |-> 0]
  /\ errors = [e \in Reports |-> {}]
  /\ posts = [e \in Reports |-> [s \in Posters |->
                [arrived |-> 0, underway |-> 0, lost |-> 0]]]
  /\ hooked = {}

Count(e, s, kind) == [posts EXCEPT ![e][s][kind] = @ + 1]

\* Seeded fault: the attempt is compared with max_attempts.
GivesUpLate(attempt) == attempt >= MaxRetries + 1

\* attempt >= max_attempts - 1
GivesUp(attempt) == attempt >= (MaxRetries + 1) - 1

\* notify_request_received, notify_response_sent, notify_error
Notify ==
  /\ hook.at = "idle" /\ hook.event < Events
  /\ hook' = [at |-> "post", event |-> hook.event + 1, sender |-> 1, attempt |-> 0]
  /\ UNCHANGED <<errors, posts, hooked>>

\* send has returned: the next sender, or the end of notify.
NextSender ==
  IF hook.sender < Senders
    THEN /\ hook' = [hook EXCEPT !.at = "post", !.sender = @ + 1, !.attempt = 0]
         /\ UNCHANGED hooked
    ELSE /\ hook' = [hook EXCEPT !.at = "idle"]
         /\ hooked' = hooked \cup {hook.event}

PostSucceeds ==
  /\ hook.at = "post"
  /\ posts' = Count(hook.event, hook.sender, "arrived")
  /\ NextSender
  /\ UNCHANGED errors

\* A status that is no success, an error, or the client's timeout: what came
\* of the post is not known.
PostFails ==
  /\ hook.at = "post"
  /\ \E kind \in {"arrived", "underway", "lost"} :
       posts' = Count(hook.event, hook.sender, kind)
  /\ \/ /\ GivesUp(hook.attempt)
        /\ errors' = [errors EXCEPT ![hook.event] = @ \cup {hook.sender}]
        /\ NextSender
     \/ /\ ~GivesUp(hook.attempt)
        /\ hook' = [hook EXCEPT !.at = "sleep", !.attempt = @ + 1]
        /\ UNCHANGED <<errors, hooked>>

Awake ==
  /\ hook.at = "sleep"
  /\ hook' = [hook EXCEPT !.at = "post"]
  /\ UNCHANGED <<errors, posts, hooked>>

ArrivesLate ==
  /\ \E e \in Reports, s \in Posters :
       /\ posts[e][s].underway > 0
       /\ posts' = [posts EXCEPT ![e][s].underway = @ - 1,
                                 ![e][s].arrived = @ + 1]
  /\ UNCHANGED <<hook, errors, hooked>>

WebhookNext ==
  Notify \/ PostSucceeds \/ PostFails \/ Awake \/ ArrivesLate

WebhookSpec == WebhookInit /\ [][WebhookNext]_webhookVars

\* The client's timeout ends every post, the timer every sleep.
WebhookFairness == WF_webhookVars(PostSucceeds \/ PostFails \/ Awake)

------------------------------------------------------------------------------
\* Properties

(* A receiver gets an event at most max_retries + 1 times, and at least once*)
(* when notify has not reported its sender; notify reports the senders that *)
(* failed each of those times, and no failure keeps it from the senders     *)
(* after (webhook.rs:168, 177, 209).                                        *)
DeliveriesBounded ==
  \A e \in Reports, s \in Posters :
    LET p == posts[e][s]
        made == p.arrived + p.underway + p.lost
    IN /\ made <= MaxRetries + 1
       /\ s \in errors[e] => made = MaxRetries + 1
       /\ e \in hooked /\ s \notin errors[e] => p.arrived > 0

(* Every notify returns, whatever the receivers do.                         *)
NotifyReturns == hook.at # "idle" ~> hook.at = "idle"

==============================================================================
