------------------------------- MODULE Billing -------------------------------
(***************************************************************************)
(* The plan of a workspace: what the billing provider says of its          *)
(* subscription reaches it as webhook events, delivered in any order,      *)
(* repeated until acknowledged, and applied by the webhook route           *)
(* (app/api/billing/webhook/route.ts) in three statements that commit one  *)
(* by one.  orgs.plan, the last of the three, is what the page ceiling of  *)
(* a crawl is read from (server/quota.ts).                                 *)
(***************************************************************************)
EXTENDS Integers, Sequences, FiniteSets

CONSTANTS Deliveries,    \* webhook requests that may be in flight at once
          Ceiling,       \* plan -> pages per run (PLANS[plan].limits)
          Kinds,         \* the events a provider may send, as parseEvent reduces them
          Idle,
          MaxEvents, MaxCrashes

Statuses == {"complete", "active", "past_due", "incomplete_expired", "unpaid", "canceled"}

\* parseEvent, of an event that names the workspace; the plan is the one the
\* checkout sold, which travels in the subscription's metadata.
BillingEvent == [type : {"checkout.session.completed", "customer.subscription.updated",
                         "customer.subscription.deleted"},
                 status : Statuses, plan : {"starter", "growth"}]

ASSUME BillingAssumption == /\ Kinds \subseteq BillingEvent
                            /\ "free" \in DOMAIN Ceiling
                            /\ \A plan \in DOMAIN Ceiling : Ceiling[plan] \in Nat \ {0}
                            /\ MaxEvents \in Nat /\ MaxCrashes \in Nat
                            /\ Idle \notin [event : 1..MaxEvents, done : 0..3]

VARIABLES events,       \* what the provider has said, oldest first
          unacked,      \* events it has had no 200 for
          handling,     \* per delivery: the event, and the statements that committed
          billingLog,   \* the events billing_events holds a row for
          subscription, \* subscriptions.plan
          orgPlan,      \* orgs.plan
          applied,      \* history: the latest event whose plan was ever written
          unordered,    \* history: an event was applied beside another or after a later one
          crashes

billingVars == <<events, unacked, handling, billingLog, subscription, orgPlan, applied,
                 unordered, crashes>>

\* planAfter: a deleted or cancelled subscription is the free plan; any other
\* status, a failed payment included, is the plan the event names.
planAfter(event) ==
  IF \/ event.type = "customer.subscription.deleted"
     \/ event.status \in {"canceled", "unpaid", "incomplete_expired"}
  THEN "free" ELSE event.plan

\* planOf: anything unrecognised is the free plan.
planOf(plan) == IF plan \in DOMAIN Ceiling THEN plan ELSE "free"

\* allowanceFor, of a caller signed in to the workspace.
pagesPerRun == Ceiling[planOf(orgPlan)]

BillingInit ==
  /\ events = <<>> /\ unacked = {}
  /\ handling = [d \in Deliveries |-> Idle]
  /\ billingLog = {}
  /\ subscription = "none" /\ orgPlan = "trial"
  /\ applied = 0 /\ unordered = FALSE /\ crashes = 0

\* createCheckout and what the provider does later: it issues one more event
\* of the workspace's subscription.
Issue(event) ==
  /\ Len(events) < MaxEvents
  /\ events # <<>> => events[Len(events)].type # "customer.subscription.deleted"
  /\ events' = Append(events, event)
  /\ unacked' = unacked \cup {Len(events')}
  /\ UNCHANGED <<handling, billingLog, subscription, orgPlan, applied, unordered, crashes>>

\* A delivery arrives with a signature that verifies.
Deliver(d, e) ==
  /\ handling[d] = Idle
  /\ e \in unacked
  /\ \A other \in Deliveries : handling[other] # Idle => handling[other].event # e
  /\ handling' = [handling EXCEPT ![d] = [event |-> e, done |-> 0]]
  /\ unordered' = (unordered \/ \E other \in Deliveries : handling[other] # Idle)
  /\ UNCHANGED <<events, unacked, billingLog, subscription, orgPlan, applied, crashes>>

At(d, n) == handling[d] # Idle /\ handling[d].done = n

Advance(d) == handling' = [handling EXCEPT ![d].done = @ + 1]

\* Mutant: an event that has a row already is taken to have been applied.
LogEventOnce(d) ==
  /\ At(d, 0)
  /\ handling' = [handling EXCEPT ![d].done = IF handling[d].event \in billingLog THEN 3 ELSE 1]
  /\ billingLog' = billingLog \cup {handling[d].event}
  /\ UNCHANGED <<events, unacked, subscription, orgPlan, applied, unordered, crashes>>

\* INSERT INTO billing_events.
LogEvent(d) ==
  /\ At(d, 0) /\ Advance(d)
  /\ billingLog' = billingLog \cup {handling[d].event}
  /\ UNCHANGED <<events, unacked, subscription, orgPlan, applied, unordered, crashes>>

\* The upsert of subscriptions.
WriteSubscription(d) ==
  /\ At(d, 1) /\ Advance(d)
  /\ subscription' = planAfter(events[handling[d].event])
  /\ unordered' = (unordered \/ handling[d].event < applied)
  /\ applied' = handling[d].event
  /\ UNCHANGED <<events, unacked, billingLog, orgPlan, crashes>>

\* UPDATE orgs SET plan.
WriteOrg(d) ==
  /\ At(d, 2) /\ Advance(d)
  /\ orgPlan' = planAfter(events[handling[d].event])
  /\ UNCHANGED <<events, unacked, billingLog, subscription, applied, unordered, crashes>>

\* The 200 reaches the provider.
Acknowledge(d) ==
  /\ At(d, 3)
  /\ unacked' = unacked \ {handling[d].event}
  /\ handling' = [handling EXCEPT ![d] = Idle]
  /\ UNCHANGED <<events, billingLog, subscription, orgPlan, applied, unordered, crashes>>

\* A statement fails, the isolate dies or the 200 is lost: the event comes again.
CrashDelivery(d) ==
  /\ handling[d] # Idle /\ crashes < MaxCrashes
  /\ crashes' = crashes + 1
  /\ handling' = [handling EXCEPT ![d] = Idle]
  /\ UNCHANGED <<events, unacked, billingLog, subscription, orgPlan, applied, unordered>>

BillingStep(d) == \/ \E e \in unacked : Deliver(d, e)
                  \/ LogEvent(d) \/ WriteSubscription(d) \/ WriteOrg(d)
                  \/ Acknowledge(d)

BillingNext == \/ \E event \in Kinds : Issue(event)
               \/ \E d \in Deliveries : BillingStep(d) \/ CrashDelivery(d)

-----------------------------------------------------------------------------
\* Deliveries that neither overlapped nor overtook one another leave the
\* workspace on the plan of the provider's latest word, in both of the places
\* that hold it, although some died between two statements and came again.
PlanFollowsEvents ==
  (/\ events # <<>> /\ unacked = {} /\ ~unordered
   /\ \A d \in Deliveries : handling[d] = Idle)
     => /\ orgPlan = planAfter(events[Len(events)])
        /\ subscription = orgPlan
=============================================================================
