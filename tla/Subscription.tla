----------------------------- MODULE Subscription -----------------------------
(***************************************************************************)
(* The plan of one organization: the checkout and cancel endpoints, the    *)
(* Stripe webhook that follows the subscription, and the two limits that   *)
(* are checked when a project is created or a run is requested.            *)
(*                                                                         *)
(* Stripe is external.  It keeps the subscriptions, and delivers its       *)
(* events at least once and in any order.  The webhook answers 200 even    *)
(* when its processing failed, so a failed event is not sent again.        *)
(*                                                                         *)
(* Left out: prices, periods and invoices, mails to the admins, the log of *)
(* webhooks (written, never read), the portal page and the GET endpoints,  *)
(* except for the alerts they compute from the limits.                     *)
(***************************************************************************)
EXTENDS Naturals, FiniteSets

CONSTANTS
    Customer,      \* Stripe customers
    Sub,           \* Stripe subscriptions
    Limit,         \* the limit of each plan on projects and on runs
    MaxCalls,      \* bound: requests to the producer
    MaxEvents,     \* bound: moments at which Stripe emits events
    MaxFaults      \* bound: exceptions, and events sent again

Paid == {"team", "enterprise"}
Plan == Paid \cup {"free"}
Resource == {"projects", "runs"}

ASSUME SubscriptionAssumption ==
    /\ Limit \in [Plan -> Nat \ {0}]
    /\ MaxCalls \in Nat /\ MaxEvents \in Nat /\ MaxFaults \in Nat

NoCustomer == "no customer"
NoSub == "no subscription"
ASSUME NoStripeAssumption == NoCustomer \notin Customer /\ NoSub \notin Sub

VARIABLES
    org,         \* the organization document: plan, limits and billing
    stripe,      \* Stripe's subscriptions
    customers,   \* Stripe's customers for this organization
    openSessions,    \* checkout sessions that have not been paid
    events,      \* events to deliver, or to deliver again
    emitted,     \* how many times Stripe has emitted events
    checkouts,   \* checkout requests in progress
    cancels,     \* cancel requests in progress
    used,        \* projects created, runs of the month
    creations,   \* requests that have passed the check of a limit
    calls, faults,
    applied,     \* history: the last event that was written
    astray,      \* history: why the document may differ from Stripe
    overrun      \* history: resources whose limit was not enforced one by one

account == <<org, stripe, customers>>
traffic == <<openSessions, events, emitted, checkouts, cancels>>
metering == <<used, creations, overrun>>
subscriptionVars == <<org, stripe, customers, openSessions, events, emitted, checkouts, cancels,
          used, creations, calls, faults, applied, astray, overrun>>

OrgDoc == [plan : Plan, limits : Nat, customer : Customer \cup {NoCustomer},
           sub : Sub \cup {NoSub}, status : {"none", "active", "past_due", "canceled"},
           ending : BOOLEAN]
\* Stripe's view of a subscription.
Contract == [customer : Customer \cup {NoCustomer}, plan : Plan,
             status : {"none", "active", "past_due", "canceled"}, ending : BOOLEAN]
Kind == {"updated", "deleted", "paid", "failed"}
\* created and updated events are handled alike.
Event == [n : Nat, kind : Kind, sub : Sub, customer : Customer, plan : Plan,
          status : {"active", "past_due", "canceled"}]
Checkout == [call : Nat, plan : Paid, customer : Customer \cup {NoCustomer},
             at : {"customer", "save", "session"}]
Reason == {"order", "lost", "customers", "subscriptions"}

SubscriptionTypeOK ==
    /\ org \in OrgDoc
    /\ stripe \in [Sub -> Contract]
    /\ customers \subseteq Customer
    /\ openSessions \subseteq [call : Nat, customer : Customer, plan : Paid]
    /\ events \subseteq Event /\ emitted \in 0..MaxEvents
    /\ checkouts \subseteq Checkout
    /\ cancels \subseteq [call : Nat, sub : Sub, at : {"stripe", "save"}]
    /\ used \in [Resource -> Nat]
    /\ creations \subseteq [call : Nat, resource : Resource]
    /\ calls \in 0..MaxCalls /\ faults \in 0..MaxFaults
    /\ applied \in 0..MaxEvents
    /\ astray \subseteq Reason
    /\ overrun \subseteq Resource

SubscriptionInit ==
    /\ org = [plan |-> "free", limits |-> Limit["free"], customer |-> NoCustomer,
              sub |-> NoSub, status |-> "none", ending |-> FALSE]
    /\ stripe = [s \in Sub |-> [customer |-> NoCustomer, plan |-> "free",
                                status |-> "none", ending |-> FALSE]]
    /\ customers = {} /\ openSessions = {} /\ events = {} /\ emitted = 0
    /\ checkouts = {} /\ cancels = {}
    /\ used = [r \in Resource |-> 0] /\ creations = {}
    /\ calls = 0 /\ faults = 0 /\ applied = 0 /\ astray = {} /\ overrun = {}

Live == {s \in Sub : stripe[s].status \in {"active", "past_due"}}

Call == calls < MaxCalls /\ calls' = calls + 1
Fault == faults < MaxFaults /\ faults' = faults + 1

----------------------------------------------------------------------------
(***************************************************************************)
(* POST /api/billing/checkout and /api/billing/cancel.                     *)
(***************************************************************************)
StartCheckout ==
    \E p \in Paid \ {org.plan} :
        /\ checkouts' = checkouts \cup
             {[call |-> calls, plan |-> p, customer |-> org.customer,
               at |-> IF org.customer = NoCustomer THEN "customer" ELSE "session"]}
        /\ Call
        /\ UNCHANGED <<account, openSessions, events, emitted, cancels, metering,
                       faults, applied, astray>>

\* An id that Stripe never gave before: the next one, ids being alike.
NextOf(unused) == IF unused = {} THEN {} ELSE {CHOOSE x \in unused : TRUE}

\* Every checkout that found no customer creates one.
CreateCustomer ==
    \E k \in checkouts, c \in NextOf(Customer \ customers) :
        /\ k.at = "customer"
        /\ customers' = customers \cup {c}
        /\ checkouts' = (checkouts \ {k}) \cup {[k EXCEPT !.customer = c, !.at = "save"]}
        /\ astray' = IF customers = {} THEN astray ELSE astray \cup {"customers"}
        /\ UNCHANGED <<org, stripe, openSessions, events, emitted, cancels, metering,
                       calls, faults, applied>>

SaveCustomer ==
    \E k \in checkouts :
        /\ k.at = "save"
        /\ org' = [org EXCEPT !.customer = k.customer]
        /\ checkouts' = (checkouts \ {k}) \cup {[k EXCEPT !.at = "session"]}
        /\ UNCHANGED <<stripe, customers, openSessions, events, emitted, cancels, metering,
                       calls, faults, applied, astray>>

CreateSession ==
    \E k \in checkouts :
        /\ k.at = "session"
        /\ openSessions' = openSessions \cup
             {[call |-> k.call, customer |-> k.customer, plan |-> k.plan]}
        /\ checkouts' = checkouts \ {k}
        /\ UNCHANGED <<account, events, emitted, cancels, metering, calls, faults,
                       applied, astray>>

StartCancel ==
    /\ org.sub # NoSub
    /\ cancels' = cancels \cup {[call |-> calls, sub |-> org.sub, at |-> "stripe"]}
    /\ Call
    /\ UNCHANGED <<account, openSessions, events, emitted, checkouts, metering, faults,
                   applied, astray>>

----------------------------------------------------------------------------
(***************************************************************************)
(* Stripe.                                                                 *)
(***************************************************************************)
\* Events of the same moment have the same number.
Emit(kinds, s) ==
    /\ emitted < MaxEvents /\ emitted' = emitted + 1
    /\ events' = events \cup
         {[n |-> emitted', kind |-> k, sub |-> s, customer |-> stripe'[s].customer,
           plan |-> stripe'[s].plan, status |-> stripe'[s].status] : k \in kinds}

\* A session is paid: Stripe starts a subscription.
Subscribe ==
    \E p \in openSessions, s \in NextOf({t \in Sub : stripe[t].status = "none"}) :
        /\ openSessions' = openSessions \ {p}
        /\ stripe' = [stripe EXCEPT ![s] = [customer |-> p.customer, plan |-> p.plan,
                                            status |-> "active", ending |-> FALSE]]
        /\ Emit({"updated", "paid"}, s)
        /\ astray' = IF Live = {} THEN astray ELSE astray \cup {"subscriptions"}
        /\ UNCHANGED <<org, customers, checkouts, cancels, metering, calls, faults, applied>>

\* The plan is changed in the billing portal.
ChangePlan ==
    \E s \in Live : \E p \in Paid \ {stripe[s].plan} :
        /\ stripe' = [stripe EXCEPT ![s].plan = p]
        /\ Emit({"updated"}, s)
        /\ UNCHANGED <<org, customers, openSessions, checkouts, cancels, metering, calls,
                       faults, applied, astray>>

PaymentFails ==
    \E s \in Live :
        /\ stripe[s].status = "active"
        /\ stripe' = [stripe EXCEPT ![s].status = "past_due"]
        /\ Emit({"updated", "failed"}, s)
        /\ UNCHANGED <<org, customers, openSessions, checkouts, cancels, metering, calls,
                       faults, applied, astray>>

\* A retried charge succeeds.
PaymentSucceeds ==
    \E s \in Live :
        /\ stripe[s].status = "past_due"
        /\ stripe' = [stripe EXCEPT ![s].status = "active"]
        /\ Emit({"updated", "paid"}, s)
        /\ UNCHANGED <<org, customers, openSessions, checkouts, cancels, metering, calls,
                       faults, applied, astray>>

\* The period of a cancelled subscription ends, or its debt is given up.
PeriodEnds ==
    \E s \in Live :
        /\ stripe[s].ending \/ stripe[s].status = "past_due"
        /\ stripe' = [stripe EXCEPT ![s].status = "canceled"]
        /\ Emit({"deleted"}, s)
        /\ UNCHANGED <<org, customers, openSessions, checkouts, cancels, metering, calls,
                       faults, applied, astray>>

\* stripe.subscriptions.update inside the cancel endpoint; it throws for a
\* subscription that has ended.
CancelAtStripe ==
    \E k \in cancels :
        /\ k.at = "stripe"
        /\ IF k.sub \in Live
           THEN /\ stripe' = [stripe EXCEPT ![k.sub].ending = TRUE]
                /\ Emit({"updated"}, k.sub)
                /\ cancels' = (cancels \ {k}) \cup {[k EXCEPT !.at = "save"]}
           ELSE cancels' = cancels \ {k} /\ UNCHANGED <<stripe, events, emitted>>
        /\ UNCHANGED <<org, customers, openSessions, checkouts, metering, calls, faults,
                       applied, astray>>

\* By then the subscription may be gone; the flag is set on the document anyway.
SaveCancel ==
    \E k \in cancels :
        /\ k.at = "save"
        /\ org' = [org EXCEPT !.ending = TRUE]
        /\ cancels' = cancels \ {k}
        /\ UNCHANGED <<stripe, customers, openSessions, events, emitted, checkouts, metering,
                       calls, faults, applied, astray>>

----------------------------------------------------------------------------
(***************************************************************************)
(* POST /api/webhooks/stripe.                                              *)
(***************************************************************************)
\* updateOrganizationSubscription: cancelAtPeriodEnd is left alone.
UpdateSubscription(e) ==
    [org EXCEPT !.plan = e.plan, !.limits = Limit[e.plan], !.sub = e.sub, !.status = e.status]

\* Mutant of DowngradeToFree: the organization keeps its plan until the next event.
CancelWithoutDowngrade ==
    [org EXCEPT !.sub = NoSub, !.status = "canceled", !.ending = FALSE]

\* downgradeToFreePlan, whatever subscription the document names.
DowngradeToFree ==
    [org EXCEPT !.plan = "free", !.limits = Limit["free"], !.sub = NoSub,
                !.status = "canceled", !.ending = FALSE]

\* The document after an event.
Outcome(e) ==
    CASE e.kind = "updated" -> UpdateSubscription(e)
      [] e.kind = "deleted" -> DowngradeToFree
      [] e.kind = "paid"    -> [org EXCEPT !.status = "active"]
      [] e.kind = "failed"  -> [org EXCEPT !.status = "past_due"]

\* A later event was written, or an earlier one was not.
OutOfTurn(e) == e.n < applied \/ \E d \in events : d.n < e.n

InFlight(r) == {k \in creations : k.resource = r}

\* A smaller plan does not undo what the larger one allowed.
TooSmall(limit) == {r \in Resource : limit < used[r] + Cardinality(InFlight(r))}

\* The event is taken; it may be sent once more.
Deliver(e) ==
    \/ events' = events \ {e} /\ UNCHANGED faults
    \/ events' = events /\ Fault

\* The organization is looked up by customer; an event for another customer is
\* logged and dropped.  The lookup only gives the id of the document, and nothing
\* the write could be confused by happens between the two: they are one step.
Handle ==
    \E e \in events :
        /\ Deliver(e)
        /\ IF e.customer = org.customer
           THEN /\ org' = Outcome(e)
                /\ applied' = IF e.n > applied THEN e.n ELSE applied
                /\ astray' = IF OutOfTurn(e) THEN astray \cup {"order"} ELSE astray
                /\ overrun' = overrun \cup TooSmall(Outcome(e).limits)
           ELSE UNCHANGED <<org, applied, astray, overrun>>
        /\ UNCHANGED <<stripe, customers, openSessions, emitted, checkouts, cancels,
                       used, creations, calls>>

\* The write throws; the answer is 200 all the same.
HandleFails ==
    \E e \in events :
        /\ Fault
        /\ events' = events \ {e}
        /\ astray' = astray \cup {"lost"}
        /\ UNCHANGED <<account, openSessions, emitted, checkouts, cancels, metering,
                       calls, applied>>

\* A checkout or cancel request ends with a 500, or with the producer.
CallFails ==
    /\ Fault
    /\ \/ \E k \in checkouts : checkouts' = checkouts \ {k} /\ UNCHANGED cancels
       \/ \E k \in cancels : cancels' = cancels \ {k} /\ UNCHANGED checkouts
    /\ UNCHANGED <<account, openSessions, events, emitted, metering, calls, applied, astray>>

----------------------------------------------------------------------------
(***************************************************************************)
(* Limits.  Projects are counted in their handler, runs in the middleware  *)
(* of POST /api/execution-request; the insert comes later in both.         *)
(***************************************************************************)
\* Mutant of Exceeded: the last unit of a plan is given twice.
ExceededByOne(r) == used[r] > org.limits

Exceeded(r) == used[r] >= org.limits

CheckLimit ==
    \E r \in Resource :
        /\ ~Exceeded(r)
        /\ overrun' = IF InFlight(r) = {} THEN overrun ELSE overrun \cup {r}
        /\ creations' = creations \cup {[call |-> calls, resource |-> r]}
        /\ Call
        /\ UNCHANGED <<account, traffic, used, faults, applied, astray>>

\* The count throws: the middleware lets the run pass.
CheckFailsOpen ==
    /\ Fault
    /\ creations' = creations \cup {[call |-> calls, resource |-> "runs"]}
    /\ overrun' = overrun \cup {"runs"}
    /\ Call
    /\ UNCHANGED <<account, traffic, used, applied, astray>>

Create ==
    \E k \in creations :
        /\ creations' = creations \ {k}
        /\ used' = [used EXCEPT ![k.resource] = @ + 1]
        /\ UNCHANGED <<account, traffic, overrun, calls, faults, applied, astray>>

\* Test cycles, CRON jobs, CI triggers, routed pull requests and the ingest API
\* store executions without asking for the limit.
RunUnmetered ==
    /\ used' = [used EXCEPT !["runs"] = @ + 1]
    /\ overrun' = IF Exceeded("runs") \/ InFlight("runs") # {}
                  THEN overrun \cup {"runs"} ELSE overrun
    /\ Call
    /\ UNCHANGED <<account, traffic, creations, faults, applied, astray>>

----------------------------------------------------------------------------
SubscriptionNext ==
    \/ StartCheckout \/ CreateCustomer \/ SaveCustomer \/ CreateSession
    \/ StartCancel \/ CancelAtStripe \/ SaveCancel
    \/ Subscribe \/ ChangePlan \/ PaymentFails \/ PaymentSucceeds \/ PeriodEnds
    \/ Handle \/ HandleFails \/ CallFails
    \/ CheckLimit \/ CheckFailsOpen \/ Create \/ RunUnmetered

SubscriptionSpec == SubscriptionInit /\ [][SubscriptionNext]_subscriptionVars

----------------------------------------------------------------------------
\* Once all events have been handled, the organization has the plan and the status
\* of its subscription at Stripe (webhooks.ts), unless an event was written out of
\* turn or failed, two checkouts created two customers, or a second subscription
\* was bought while the first was alive.
PlanFollowsStripe ==
    events = {} /\ astray = {} =>
        IF Live = {} THEN org.plan = "free" /\ org.sub = NoSub /\ org.status # "active"
        ELSE \A s \in Live : /\ org.plan = stripe[s].plan /\ org.sub = s
                             /\ org.status = stripe[s].status

\* An organization has no more projects and runs than its plan allows, unless two
\* requests were between check and insert together, the check failed open, a run
\* came by a path without the check, or the plan became smaller.
UsedWithinPlan == \A r \in Resource \ overrun : used[r] <= org.limits

=============================================================================
