------------------------------ MODULE Billing ------------------------------
(***************************************************************************)
(* Plans of workspaces, control/billing/billing.go: Stripe sells           *)
(* subscriptions and posts what happens to them, at least once and in any  *)
(* order; the Control API answers 200 and updates the workspaces table     *)
(* from a goroutine nobody waits for.                                      *)
(*                                                                         *)
(* Of a row the plan and the customer are kept; nothing reads the          *)
(* subscription id.  Stripe makes a customer of its own for each checkout, *)
(* as HandleCheckout names none.  What Stripe posts for a sale is the      *)
(* completed checkout, once, and an update whenever the subscription       *)
(* changes: before the checkout completed, after it, or never.  The event  *)
(* that the subscription was created is not one HandleWebhook takes, and   *)
(* is left out.                                                            *)
(***************************************************************************)
EXTENDS Naturals

CONSTANTS
    Workspace,
    Customer,     \* each from one checkout at most
    Price,        \* Stripe prices
    priceIDs,     \* the price of each configured plan
    Nobody,       \* no customer, no workspace
    MaxEvents,    \* bound on the events Stripe has to post
    MaxRepeats    \* bound on those it posts once more

Plan == {"bronze", "silver", "gold"}

ASSUME BillingAssumption ==
    /\ DOMAIN priceIDs \subseteq Plan /\ \A p \in DOMAIN priceIDs : priceIDs[p] \in Price
    /\ Nobody \notin Workspace \cup Customer /\ MaxEvents \in Nat
    /\ MaxRepeats \in Nat /\ "none" \notin Price

VARIABLES
    plan, customer,   \* of a workspace: its row
    soldTo, price,    \* of a customer at Stripe: the workspace, the price or "none"
    happened,         \* events so far, each numbered
    outbox,           \* events Stripe has yet to post, or will post again
    repeats,          \* posts that were not the last of their event
    running,          \* events in a goroutine of dispatchEvent
    completed,        \* history: the number of a customer's completed checkout
    priced,           \* history: the number of its last update or deletion
    applied,          \* history: the last event applied to a workspace
    disturbed,        \* history: workspaces an event of was lost or came late
    sold              \* history: plans ever sold to a workspace

stripeVars == <<soldTo, price, happened, repeats>>
rowVars == <<plan, customer>>
historyVars == <<completed, priced, applied, disturbed, sold>>
billingVars == <<rowVars, stripeVars, outbox, running, historyVars>>

BillingInit ==
    /\ plan = [w \in Workspace |-> "bronze"] /\ customer = [w \in Workspace |-> Nobody]
    /\ soldTo = [k \in Customer |-> Nobody] /\ price = [k \in Customer |-> "none"]
    /\ happened = 0 /\ outbox = {} /\ repeats = 0 /\ running = {}
    /\ completed = [k \in Customer |-> 0] /\ priced = [k \in Customer |-> 0]
    /\ applied = [w \in Workspace |-> 0] /\ disturbed = {} /\ sold = {}

\* Mutant: a price of no plan is taken for a plan.
PlanOrPrice(p) ==
    IF \E q \in DOMAIN priceIDs : priceIDs[q] = p
    THEN CHOOSE q \in DOMAIN priceIDs : priceIDs[q] = p
    ELSE p

\* priceIDToPlan; a price of no plan is bronze.  (Of several plans of one price the
\* code takes any; plans are configured with prices of their own.)
PlanOf(p) ==
    IF \E q \in DOMAIN priceIDs : priceIDs[q] = p
    THEN CHOOSE q \in DOMAIN priceIDs : priceIDs[q] = p
    ELSE "bronze"

\* Stripe has one more event to post.
Post(type, k, p) ==
    /\ happened < MaxEvents /\ happened' = happened + 1
    /\ outbox' = outbox \cup {[n |-> happened + 1, type |-> type, of |-> k, price |-> p]}
-----------------------------------------------------------------------------
(* Stripe.                                                                 *)

\* The checkout page HandleCheckout returned is paid.
Checkout(w, k, plan_) ==
    /\ soldTo[k] = Nobody /\ plan_ \in DOMAIN priceIDs
    /\ soldTo' = [soldTo EXCEPT ![k] = w]
    /\ price' = [price EXCEPT ![k] = priceIDs[plan_]]
    /\ sold' = sold \cup {<<w, plan_>>}
    /\ UNCHANGED <<rowVars, happened, repeats, outbox, running, completed, priced, applied, disturbed>>

\* checkout.session.completed, which names no price.
Complete(k) ==
    /\ soldTo[k] # Nobody /\ completed[k] = 0
    /\ Post("completed", k, "none")
    /\ completed' = [completed EXCEPT ![k] = happened']
    /\ UNCHANGED <<rowVars, soldTo, price, repeats, running, priced, applied, disturbed, sold>>

\* The subscription changes, to another price or in something else.
Change(k, p) ==
    /\ price[k] # "none"
    /\ Post("updated", k, p)
    /\ price' = [price EXCEPT ![k] = p]
    /\ priced' = [priced EXCEPT ![k] = happened']
    /\ sold' = sold \cup {<<soldTo[k], PlanOf(p)>>}
    /\ UNCHANGED <<rowVars, soldTo, repeats, running, completed, applied, disturbed>>

Cancel(k) ==
    /\ price[k] # "none"
    /\ Post("deleted", k, "none")
    /\ price' = [price EXCEPT ![k] = "none"]
    /\ priced' = [priced EXCEPT ![k] = happened']
    /\ UNCHANGED <<rowVars, soldTo, repeats, running, completed, applied, disturbed, sold>>
-----------------------------------------------------------------------------
(* The Control API.                                                        *)

\* HandleWebhook answers 200 as soon as the goroutine is started; Stripe may post
\* the event again all the same.
HandleWebhook(e) ==
    /\ e \in outbox
    /\ \/ outbox' = outbox \ {e} /\ UNCHANGED repeats
       \/ repeats < MaxRepeats /\ repeats' = repeats + 1 /\ UNCHANGED outbox
    /\ running' = running \cup {e}
    /\ UNCHANGED <<rowVars, soldTo, price, happened, historyVars>>

\* Mutant: a row without a customer is everybody's.
LinkedLoosely(k) == {w \in Workspace : customer[w] \in {k, Nobody}}

Linked(k) == {w \in Workspace : customer[w] = k}

SetPlan(k, p) ==
    /\ plan' = [w \in Workspace |-> IF w \in Linked(k) THEN p ELSE plan[w]]
    /\ UNCHANGED customer

\* handleCheckoutCompleted says nothing of the plan.
CheckoutCompleted(e) ==
    /\ e.type = "completed"
    /\ customer' = [customer EXCEPT ![soldTo[e.of]] = e.of]
    /\ UNCHANGED plan

SubscriptionUpdated(e) == e.type = "updated" /\ SetPlan(e.of, PlanOf(e.price))

\* Mutant: what is canceled keeps its plan.
DeletedKeepsPlan(e) == e.type = "deleted" /\ UNCHANGED rowVars

SubscriptionDeleted(e) == e.type = "deleted" /\ SetPlan(e.of, "bronze")

\* One goroutine of dispatchEvent: one UPDATE.
Dispatch(e) ==
    /\ e \in running /\ running' = running \ {e}
    /\ CheckoutCompleted(e) \/ SubscriptionUpdated(e) \/ SubscriptionDeleted(e)
    /\ LET w == soldTo[e.of]
       IN  /\ applied' = [applied EXCEPT ![w] = IF e.n > @ THEN e.n ELSE @]
           /\ disturbed' = IF e.n < applied[w] THEN disturbed \cup {w} ELSE disturbed
    /\ UNCHANGED <<stripeVars, outbox, completed, priced, sold>>

\* The UPDATE fails; the error is logged and the event gone.
Fail(e) ==
    /\ e \in running /\ running' = running \ {e}
    /\ disturbed' = disturbed \cup {soldTo[e.of]}
    /\ UNCHANGED <<rowVars, stripeVars, outbox, completed, priced, applied, sold>>

\* A stop of the Control API takes its goroutines along.
CrashBilling ==
    /\ running # {} /\ running' = {}
    /\ disturbed' = disturbed \cup {soldTo[e.of] : e \in running}
    /\ UNCHANGED <<rowVars, stripeVars, outbox, completed, priced, applied, sold>>

BillingNext ==
    \/ \E k \in Customer :
          \/ \E w \in Workspace, p \in Plan : Checkout(w, k, p)
          \/ \E p \in Price : Change(k, p)
          \/ Complete(k) \/ Cancel(k)
    \/ \E e \in outbox : HandleWebhook(e)
    \/ \E e \in running : Dispatch(e) \/ Fail(e)
    \/ CrashBilling
-----------------------------------------------------------------------------
BillingTypeOK ==
    /\ plan \in [Workspace -> Plan] /\ customer \in [Workspace -> Customer \cup {Nobody}]
    /\ soldTo \in [Customer -> Workspace \cup {Nobody}]
    /\ price \in [Customer -> Price \cup {"none"}]
    /\ happened \in 0 .. MaxEvents /\ repeats \in 0 .. MaxRepeats
    /\ \A e \in outbox \cup running : e.n \in 1 .. happened /\ soldTo[e.of] # Nobody

\* No order, loss or repetition of events gives a workspace a plan that was not
\* sold to it.
PlanWasSold ==
    \A w \in Workspace : plan[w] # "bronze" => <<w, plan[w]>> \in sold

\* Events that were all handled, each in its order, leave a workspace with the
\* plan of the customer it is linked to, if Stripe told a price of that customer
\* after its checkout completed: an earlier update finds no row that is linked
\* (lines 246-249 and 262-290), and the checkout itself sets no plan.  So the plan is
\* not always synced "when a subscription changes" (line 262).
InOrderConverges ==
    \A w \in Workspace \ disturbed :
        (\A e \in outbox \cup running : soldTo[e.of] # w) =>
            LET k == customer[w]
            IN  /\ k = Nobody => plan[w] = "bronze"
                /\ k # Nobody /\ completed[k] < priced[k] => plan[w] = PlanOf(price[k])
=============================================================================
