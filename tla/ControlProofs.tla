--------------------------- MODULE ControlProofs ---------------------------
(***************************************************************************)
(* The Control API's tables, for any number of workspaces, customers,      *)
(* events, requests and records: plans follow what Stripe sold, a recovery *)
(* code works once, one decision is appealed once, and a walk of the       *)
(* history skips nothing.                                                  *)
(***************************************************************************)
EXTENDS Control, FiniteSetTheorems, TLAPS

-----------------------------------------------------------------------------
(* Plans of workspaces.                                                    *)

BillingSpec == BillingInit /\ [][BillingNext]_billingVars

\* The events that may still be applied.
Pending == outbox \cup running

Event ==
    [n : 1 .. MaxEvents, type : {"completed", "updated", "deleted"},
     of : Customer, price : Price \cup {"none"}]

\* An event that names the price of its customer.
Pricing(e) == e.type \in {"updated", "deleted"}

\* Stripe's side: events are numbered, belong to a sale, and the last that names a
\* price names the customer's present one.
Numbered ==
    /\ plan \in [Workspace -> Plan] /\ customer \in [Workspace -> Customer \cup {Nobody}]
    /\ soldTo \in [Customer -> Workspace \cup {Nobody}]
    /\ price \in [Customer -> Price \cup {"none"}]
    /\ happened \in 0 .. MaxEvents /\ repeats \in 0 .. MaxRepeats
    /\ applied \in [Workspace -> 0 .. happened]
    /\ completed \in [Customer -> 0 .. happened] /\ priced \in [Customer -> 0 .. happened]
    /\ Pending \subseteq Event
    /\ \A e \in Pending : e.n <= happened /\ soldTo[e.of] \in Workspace
    /\ \A e \in Pending : e.type = "deleted" => e.price = "none"
    /\ \A e, f \in Pending : e.n = f.n => e = f
    /\ \A e \in Pending : e.type = "completed" => e.n = completed[e.of]
    /\ \A e \in Pending : Pricing(e) =>
          e.n <= priced[e.of] /\ (e.n = priced[e.of] => e.price = price[e.of])
    /\ \A k \in Customer : soldTo[k] = Nobody => price[k] = "none" /\ priced[k] = 0

\* The table's side: a row is linked to a customer it was sold to, and gets a plan
\* from no other.
Owned ==
    \A w \in Workspace :
        /\ customer[w] # Nobody => soldTo[customer[w]] = w
        /\ plan[w] # "bronze" => customer[w] # Nobody

\* Of a workspace whose events were neither lost nor late: the last price of a
\* customer is still to be applied if it is newer than what was.
Foretold ==
    \A k \in Customer :
        soldTo[k] # Nobody /\ soldTo[k] \notin disturbed /\ priced[k] > applied[soldTo[k]] =>
            \E e \in Pending : Pricing(e) /\ e.of = k /\ e.n = priced[k]

\* Nothing that is still to be applied to w is older than what was.
Timely(w) ==
    w \notin disturbed /\ \A e \in Pending : soldTo[e.of] = w => e.n >= applied[w]

\* Then its plan is of the last price of its customer, if that came after the
\* customer's checkout completed and was applied.
Following ==
    \A w \in Workspace : \A k \in Customer :
        /\ Timely(w) /\ customer[w] = k
        /\ completed[k] < priced[k] /\ priced[k] <= applied[w]
        => plan[w] = PlanOf(price[k])

BillingInv == Numbered /\ Owned /\ Foretold /\ Following

LEMMA PlanOfPlan ==
    /\ \A p : PlanOf(p) \in Plan
    /\ PlanOf("none") = "bronze"
  BY BillingAssumption DEF PlanOf, Plan

\* The plan of a price is no matter of the state.
LEMMA PlanOfSame == \A p : PlanOf(p)' = PlanOf(p)
  BY DEF PlanOf

\* A customer pays for a checkout.
LEMMA CheckoutInv ==
    ASSUME BillingInv, NEW w \in Workspace, NEW k \in Customer, NEW p \in Plan,
           Checkout(w, k, p)
    PROVE  BillingInv'
<1> USE DEF BillingInv
<1>1. /\ soldTo[k] = Nobody /\ soldTo' = [soldTo EXCEPT ![k] = w]
      /\ price' = [price EXCEPT ![k] = priceIDs[p]] /\ priceIDs[p] \in Price
      /\ UNCHANGED <<plan, customer, happened, repeats, completed, priced, applied, disturbed>>
  BY BillingAssumption DEF Checkout, rowVars
<1>2. Pending' = Pending
  BY DEF Pending, Checkout
<1>3. w # Nobody /\ soldTo'[k] = w /\ price'[k] = priceIDs[p] /\ priced[k] = 0
  BY <1>1, BillingAssumption DEF Numbered
<1>4. \A e \in Pending : e.of # k /\ e.of \in Customer /\ soldTo'[e.of] = soldTo[e.of]
                          /\ price'[e.of] = price[e.of]
  BY <1>1, BillingAssumption DEF Numbered, Event
<1>5. \A j \in Customer \ {k} : soldTo'[j] = soldTo[j] /\ price'[j] = price[j]
  BY <1>1 DEF Numbered
<1>6. Numbered'
  <2>1. /\ soldTo' \in [Customer -> Workspace \cup {Nobody}]
        /\ price' \in [Customer -> Price \cup {"none"}]
    BY <1>1 DEF Numbered
  <2>2. \A j \in Customer : soldTo'[j] = Nobody => price'[j] = "none" /\ priced'[j] = 0
    BY <1>1, <1>3, <1>5 DEF Numbered
  <2>3. \A e \in Pending' : Pricing(e) =>
            e.n <= priced'[e.of] /\ (e.n = priced'[e.of] => e.price = price'[e.of])
    BY <1>1, <1>2, <1>4 DEF Numbered
  <2>4. \A e \in Pending' : e.n <= happened' /\ soldTo'[e.of] \in Workspace
    BY <1>1, <1>2, <1>4 DEF Numbered
  <2>5. QED
    BY <1>1, <1>2, <2>1, <2>2, <2>3, <2>4 DEF Numbered, Pricing
<1>7. Owned'
  BY <1>1, <1>3, BillingAssumption DEF Owned, Numbered
<1>8. Foretold'
  <2> SUFFICES ASSUME NEW j \in Customer, soldTo'[j] # Nobody, soldTo'[j] \notin disturbed',
                      priced'[j] > applied'[soldTo'[j]]
               PROVE  \E e \in Pending' : Pricing(e) /\ e.of = j /\ e.n = priced'[j]
      BY DEF Foretold, Pricing
  <2>1. j # k
    <3>1. applied[w] \in Nat
      BY BillingAssumption DEF Numbered
    <3>2. QED
      BY <1>1, <1>3, <3>1
  <2>2. QED
    BY <1>1, <1>2, <1>5, <2>1 DEF Foretold
<1>9. Following'
  <2> SUFFICES ASSUME NEW v \in Workspace, NEW j \in Customer, Timely(v)', customer'[v] = j,
                      completed'[j] < priced'[j], priced'[j] <= applied'[v]
               PROVE  plan'[v] = PlanOf(price'[j])
      BY PlanOfSame DEF Following, PlanOf
  <2>1. j # k
    BY <1>1, BillingAssumption DEF Owned, Numbered
  <2>2. Timely(v)
    BY <1>1, <1>2, <1>4 DEF Timely
  <2>3. QED
    BY <1>1, <1>5, <2>1, <2>2 DEF Following
<1>10. QED
  BY <1>6, <1>7, <1>8, <1>9

\* Stripe has one more event to post: a checkout that completed, or a price.
LEMMA PostInv ==
    ASSUME BillingInv, NEW e \in Event, NEW k \in Customer, e.of = k,
           e.n = happened + 1, happened' = happened + 1, happened' <= MaxEvents,
           Pending' = Pending \cup {e}, soldTo[k] # Nobody,
           e.type = "deleted" => e.price = "none",
           \/ /\ e.type = "completed" /\ completed[k] = 0
              /\ completed' = [completed EXCEPT ![k] = e.n] /\ UNCHANGED <<price, priced>>
           \/ /\ Pricing(e) /\ price' = [price EXCEPT ![k] = e.price]
              /\ priced' = [priced EXCEPT ![k] = e.n] /\ UNCHANGED completed,
           UNCHANGED <<plan, customer, soldTo, repeats, applied, disturbed>>
    PROVE  BillingInv'
<1> USE DEF BillingInv
<1>1. /\ happened \in Nat /\ MaxEvents \in Nat
      /\ \A j \in Customer : completed[j] \in Nat /\ priced[j] \in Nat
                              /\ completed[j] <= happened /\ priced[j] <= happened
      /\ \A v \in Workspace : applied[v] \in Nat /\ applied[v] <= happened
      /\ \A f \in Pending : f.n \in Nat /\ f.n <= happened /\ f.of \in Customer
  BY BillingAssumption DEF Numbered, Event
<1>2. \A j \in Customer \ {k} : /\ completed'[j] = completed[j] /\ priced'[j] = priced[j]
                                /\ price'[j] = price[j]
  BY DEF Numbered
<1>3. \/ /\ e.type = "completed" /\ ~Pricing(e)
         /\ completed[k] = 0 /\ completed'[k] = happened + 1
         /\ price'[k] = price[k] /\ priced'[k] = priced[k]
      \/ /\ Pricing(e) /\ e.type # "completed" /\ price'[k] = e.price
         /\ priced'[k] = happened + 1 /\ completed'[k] = completed[k]
  BY DEF Numbered, Pricing
<1>4. Numbered'
  <2>1. /\ completed' \in [Customer -> 0 .. happened'] /\ priced' \in [Customer -> 0 .. happened']
        /\ price' \in [Customer -> Price \cup {"none"}]
    <3>1. /\ completed \in [Customer -> 0 .. happened'] /\ priced \in [Customer -> 0 .. happened']
          /\ price \in [Customer -> Price \cup {"none"}]
      BY <1>1 DEF Numbered
    <3>2. e.n \in 0 .. happened' /\ e.price \in Price \cup {"none"}
      BY <1>1 DEF Event
    <3>3. QED
      BY <3>1, <3>2
  <2>2. happened' \in 0 .. MaxEvents /\ applied' \in [Workspace -> 0 .. happened']
    BY <1>1 DEF Numbered
  <2>3. \A f \in Pending' : f.n <= happened' /\ soldTo'[f.of] \in Workspace
    BY <1>1 DEF Numbered
  <2>4. \A f, g \in Pending' : f.n = g.n => f = g
    BY <1>1 DEF Numbered
  <2>5. ASSUME NEW f \in Pending', f.type = "completed"
        PROVE  f.n = completed'[f.of]
    <3>1. CASE f = e
      BY <1>3, <2>5, <3>1
    <3>2. CASE f \in Pending /\ f.of # k
      BY <1>1, <1>2, <2>5, <3>2 DEF Numbered
    <3>3. CASE f \in Pending /\ f.of = k
      <4>1. f.n = completed[k] /\ f.n # 0
        BY <2>5, <3>3 DEF Numbered, Event
      <4>2. QED
        BY <1>3, <3>3, <4>1
    <3>4. QED
      BY <3>1, <3>2, <3>3
  <2>6. ASSUME NEW f \in Pending', Pricing(f)
        PROVE  f.n <= priced'[f.of] /\ (f.n = priced'[f.of] => f.price = price'[f.of])
    <3>1. CASE f = e
      BY <1>1, <1>3, <2>6, <3>1
    <3>2. CASE f \in Pending /\ f.of # k
      BY <1>1, <1>2, <2>6, <3>2 DEF Numbered
    <3>3. CASE f \in Pending /\ f.of = k
      <4>1. f.n <= priced[k] /\ (f.n = priced[k] => f.price = price[k])
        BY <2>6, <3>3 DEF Numbered
      <4>2. QED
        BY <1>1, <1>3, <3>3, <4>1
    <3>4. QED
      BY <3>1, <3>2, <3>3
  <2>7. \A j \in Customer : soldTo'[j] = Nobody => price'[j] = "none" /\ priced'[j] = 0
    BY <1>2 DEF Numbered
  <2>8. \A f \in Pending' : f.type = "deleted" => f.price = "none"
    BY DEF Numbered
  <2>9. QED
    BY <2>1, <2>2, <2>3, <2>4, <2>5, <2>6, <2>7, <2>8 DEF Numbered, Pricing
<1>5. Owned'
  BY DEF Owned
<1>6. Foretold'
  <2> SUFFICES ASSUME NEW j \in Customer, soldTo'[j] # Nobody, soldTo'[j] \notin disturbed',
                      priced'[j] > applied'[soldTo'[j]]
               PROVE  \E f \in Pending' : Pricing(f) /\ f.of = j /\ f.n = priced'[j]
      BY DEF Foretold, Pricing
  <2>1. CASE priced'[j] = priced[j]
    BY <2>1 DEF Foretold
  <2>2. CASE priced'[j] # priced[j]
    BY <1>2, <1>3, <2>2
  <2>3. QED
    BY <2>1, <2>2
<1>7. Following'
  <2> SUFFICES ASSUME NEW v \in Workspace, NEW j \in Customer, Timely(v)', customer'[v] = j,
                      completed'[j] < priced'[j], priced'[j] <= applied'[v]
               PROVE  plan'[v] = PlanOf(price'[j])
      BY PlanOfSame DEF Following, PlanOf
  <2>1. j # k
    BY <1>1, <1>3
  <2>2. Timely(v)
    BY DEF Timely
  <2>3. QED
    BY <1>2, <2>1, <2>2 DEF Following
<1>8. QED
  BY <1>4, <1>5, <1>6, <1>7

\* Events are done with, those of a workspace that is not disturbed by that stay.
LEMMA LossInv ==
    ASSUME BillingInv, Pending' \subseteq Pending, disturbed \subseteq disturbed',
           \A e \in Pending \ Pending' : soldTo[e.of] \in disturbed',
           repeats' \in 0 .. MaxRepeats,
           UNCHANGED <<plan, customer, soldTo, price, happened, completed, priced, applied>>
    PROVE  BillingInv'
<1> USE DEF BillingInv
<1>1. Numbered' /\ Owned'
  BY DEF Numbered, Owned, Pricing
<1>2. Foretold'
  BY DEF Foretold, Pricing
<1>3. \A v \in Workspace : Timely(v)' => Timely(v)
  BY DEF Timely
<1>4. Following'
  BY <1>3, PlanOfSame DEF Following, PlanOf
<1>5. QED
  BY <1>1, <1>2, <1>4

\* What dispatchEvent makes of the row of an event's workspace, and of no other.
LEMMA DispatchRow ==
    ASSUME BillingInv, NEW e \in running, Dispatch(e), NEW w, w = soldTo[e.of]
    PROVE  /\ \A v \in Workspace \ {w} :
                plan'[v] = plan[v] /\ customer'[v] = customer[v] /\ applied'[v] = applied[v]
           /\ plan' \in [Workspace -> Plan] /\ customer' \in [Workspace -> Customer \cup {Nobody}]
           /\ e.type = "completed" => customer'[w] = e.of /\ plan'[w] = plan[w]
           /\ Pricing(e) => /\ customer'[w] = customer[w]
                            /\ customer[w] = e.of => plan'[w] = PlanOf(e.price)
                            /\ customer[w] # e.of => plan'[w] = plan[w]
<1>1. /\ e \in Event /\ w \in Workspace /\ e.of \in Customer /\ e.of # Nobody
      /\ e.type \in {"completed", "updated", "deleted"}
      /\ plan \in [Workspace -> Plan] /\ customer \in [Workspace -> Customer \cup {Nobody}]
      /\ applied \in [Workspace -> 0 .. happened]
      /\ e.type = "deleted" => e.price = "none"
  BY BillingAssumption DEF BillingInv, Numbered, Pending, Event
<1>2. \A v \in Workspace \ {w} : applied'[v] = applied[v]
  BY <1>1 DEF Dispatch
<1>3. \A v \in Linked(e.of) : v = w
  BY <1>1 DEF BillingInv, Owned, Linked
<1>4. CASE e.type = "completed"
  <2>1. customer' = [customer EXCEPT ![w] = e.of] /\ plan' = plan
    BY <1>4 DEF Dispatch, CheckoutCompleted, SubscriptionUpdated, SubscriptionDeleted
  <2>2. QED
    BY <1>1, <1>2, <1>4, <2>1 DEF Pricing
<1>5. CASE Pricing(e)
  <2>1. SetPlan(e.of, PlanOf(e.price))
    <3>1. CASE e.type = "updated"
      BY <3>1 DEF Dispatch, CheckoutCompleted, SubscriptionUpdated, SubscriptionDeleted
    <3>2. CASE e.type = "deleted"
      BY <1>1, <3>2, PlanOfPlan
         DEF Dispatch, CheckoutCompleted, SubscriptionUpdated, SubscriptionDeleted
    <3>3. QED
      BY <1>5, <3>1, <3>2 DEF Pricing
  <2>2. PICK p : p = PlanOf(e.price)
    OBVIOUS
  <2>3. plan' = [v \in Workspace |-> IF v \in Linked(e.of) THEN p ELSE plan[v]]
    BY <2>1, <2>2 DEF SetPlan
  <2>4. customer' = customer /\ p \in Plan
    BY <2>1, <2>2, PlanOfPlan DEF SetPlan
  <2>5. QED
    BY <1>1, <1>2, <1>3, <1>5, <2>2, <2>3, <2>4 DEF Pricing, Linked
<1>6. QED
  BY <1>1, <1>4, <1>5 DEF Pricing

\* One event is applied: in its order, again, or late.
LEMMA DispatchInv ==
    ASSUME BillingInv, NEW e \in running, Dispatch(e)
    PROVE  BillingInv'
<1> USE DEF BillingInv
<1>0. PICK w : w = soldTo[e.of]
  OBVIOUS
<1>1. /\ e \in Pending /\ e.n \in Nat /\ e.n <= happened /\ happened \in Nat /\ w \in Workspace
      /\ e.of \in Customer /\ e.of # Nobody
      /\ e.type \in {"completed", "updated", "deleted"}
      /\ \A v \in Workspace : applied[v] \in Nat
  BY <1>0, BillingAssumption DEF Numbered, Pending, Event
<1>2. /\ Pending' \subseteq Pending /\ Pending \ {e} \subseteq Pending'
      /\ UNCHANGED <<soldTo, price, happened, repeats, completed, priced>>
  BY DEF Pending, Dispatch, stripeVars
<1>3. applied' = [applied EXCEPT ![w] = IF e.n > @ THEN e.n ELSE @]
  BY <1>0 DEF Dispatch
<1>4. /\ disturbed \subseteq disturbed'
      /\ e.n < applied[w] => w \in disturbed'
  BY <1>0 DEF Dispatch
<1>5. /\ \A v \in Workspace \ {w} :
           plan'[v] = plan[v] /\ customer'[v] = customer[v] /\ applied'[v] = applied[v]
      /\ plan' \in [Workspace -> Plan] /\ customer' \in [Workspace -> Customer \cup {Nobody}]
      /\ e.type = "completed" => customer'[w] = e.of /\ plan'[w] = plan[w]
      /\ Pricing(e) => /\ customer'[w] = customer[w]
                       /\ customer[w] = e.of => plan'[w] = PlanOf(e.price)
                       /\ customer[w] # e.of => plan'[w] = plan[w]
  BY <1>0, DispatchRow
<1>6. w \notin disturbed' => e.n >= applied[w] /\ applied'[w] = e.n
  BY <1>1, <1>3, <1>4 DEF Numbered
<1>7. \A f \in Pending : f.n \in Nat /\ f.of \in Customer /\ (f.n = e.n => f = e)
                         /\ soldTo[f.of] \in Workspace
  BY <1>1 DEF Numbered, Event
<1>8. Numbered'
  <2>1. applied' \in [Workspace -> 0 .. happened']
    BY <1>1, <1>2, <1>3 DEF Numbered
  <2>2. QED
    BY <1>2, <1>5, <2>1 DEF Numbered, Pricing
<1>9. Owned'
  <2>1. customer'[w] # Nobody => soldTo'[customer'[w]] = w
    BY <1>0, <1>1, <1>2, <1>5 DEF Owned, Pricing
  <2>2. plan'[w] # "bronze" => customer'[w] # Nobody
    BY <1>1, <1>5 DEF Owned, Pricing
  <2>3. QED
    BY <1>2, <1>5, <2>1, <2>2 DEF Owned
\* What Following says of w holds again: the event that was applied is not older
\* than any before it.
<1>10. ASSUME Timely(w)', NEW k \in Customer, customer'[w] = k,
              completed[k] < priced[k], priced[k] <= applied'[w]
       PROVE  plan'[w] = PlanOf(price[k])
  <2>1. /\ w \notin disturbed /\ w \notin disturbed' /\ applied'[w] = e.n /\ applied[w] <= e.n
        /\ \A f \in Pending' : soldTo[f.of] = w => f.n >= e.n
        /\ k # Nobody /\ completed[k] \in Nat /\ priced[k] \in Nat
        /\ soldTo[k] = w
    BY <1>1, <1>2, <1>4, <1>6, <1>9, <1>10, BillingAssumption DEF Timely, Owned, Numbered
  <2>2. Timely(w)
    BY <1>1, <1>2, <1>7, <2>1 DEF Timely
  <2>3. CASE priced[k] > applied[w]
    <3>1. PICK f \in Pending : Pricing(f) /\ f.of = k /\ f.n = priced[k]
      BY <1>1, <2>1, <2>3, BillingAssumption DEF Foretold
    <3>2. f = e
      <4>1. ASSUME f # e
            PROVE  f.n >= e.n
        BY <1>2, <2>1, <3>1, <4>1
      <4>2. f.n <= e.n /\ f.n \in Nat /\ (f.n = e.n => f = e)
        BY <1>7, <1>10, <2>1, <3>1
      <4>3. QED
        BY <1>1, <4>1, <4>2
    <3>3. e.price = price[k]
      BY <3>1, <3>2 DEF Numbered
    <3>4. QED
      BY <1>5, <1>10, <3>1, <3>2, <3>3
  <2>4. CASE priced[k] <= applied[w] /\ Pricing(e)
    <3>1. customer[w] = k
      BY <1>5, <1>10, <2>4
    <3>2. plan[w] = PlanOf(price[k])
      BY <1>1, <1>10, <2>2, <2>4, <3>1 DEF Following
    <3>3. CASE e.of = k
      <4>1. e.n <= priced[k] /\ (e.n = priced[k] => e.price = price[k])
        BY <1>1, <2>4, <3>3 DEF Numbered
      <4>2. e.price = price[k]
        BY <1>1, <2>1, <2>4, <4>1
      <4>3. QED
        BY <1>5, <2>4, <3>1, <3>3, <4>2
    <3>4. CASE e.of # k
      BY <1>5, <2>4, <3>1, <3>2, <3>4
    <3>5. QED
      BY <3>3, <3>4
  <2>5. CASE priced[k] <= applied[w] /\ e.type = "completed"
    <3>1. e.of = k /\ e.n = completed[k]
      BY <1>1, <1>5, <1>10, <2>5 DEF Numbered
    <3>2. QED
      BY <1>1, <1>10, <2>1, <2>5, <3>1
  <2>6. QED
    BY <1>1, <2>1, <2>3, <2>4, <2>5 DEF Pricing
<1>11. Foretold'
  <2> SUFFICES ASSUME NEW k \in Customer, soldTo'[k] # Nobody, soldTo'[k] \notin disturbed',
                      priced'[k] > applied'[soldTo'[k]]
               PROVE  \E f \in Pending' : Pricing(f) /\ f.of = k /\ f.n = priced'[k]
      BY DEF Foretold, Pricing
  <2>1. soldTo[k] \in Workspace /\ soldTo[k] \notin disturbed /\ priced[k] \in Nat
    BY <1>2, <1>4 DEF Numbered
  <2>2. priced[k] > applied[soldTo[k]] /\ (soldTo[k] = w => priced[k] # e.n)
    BY <1>1, <1>2, <1>5, <1>6, <2>1
  <2>3. PICK f \in Pending : Pricing(f) /\ f.of = k /\ f.n = priced[k]
    BY <1>2, <2>1, <2>2 DEF Foretold
  <2>4. f # e
    BY <1>0, <2>2, <2>3
  <2>5. QED
    BY <1>2, <2>3, <2>4
<1>12. Following'
  <2> SUFFICES ASSUME NEW v \in Workspace, NEW k \in Customer, Timely(v)', customer'[v] = k,
                      completed[k] < priced[k], priced[k] <= applied'[v]
               PROVE  plan'[v] = PlanOf(price[k])
      BY <1>2, PlanOfSame DEF Following
  <2>1. CASE v = w
    BY <1>10, <2>1
  <2>2. CASE v # w
    <3>1. Timely(v)
      BY <1>0, <1>2, <1>4, <1>5, <2>2 DEF Timely
    <3>2. QED
      BY <1>5, <2>2, <3>1 DEF Following
  <2>3. QED
    BY <2>1, <2>2
<1>13. QED
  BY <1>8, <1>9, <1>11, <1>12

LEMMA BillingRests ==
    ASSUME BillingInv, Pending' = Pending, UNCHANGED <<rowVars, historyVars>>,
           UNCHANGED <<soldTo, price, happened>>, repeats' \in 0 .. MaxRepeats
    PROVE  BillingInv'
  BY LossInv DEF rowVars, historyVars

LEMMA BillingInductive == BillingInv /\ [BillingNext]_billingVars => BillingInv'
<1> SUFFICES ASSUME BillingInv, [BillingNext]_billingVars
             PROVE  BillingInv'
    OBVIOUS
<1>1. /\ price \in [Customer -> Price \cup {"none"}] /\ happened \in Nat /\ MaxEvents \in Nat
      /\ repeats \in 0 .. MaxRepeats /\ MaxRepeats \in Nat
      /\ \A k \in Customer : price[k] # "none" => soldTo[k] # Nobody
  BY BillingAssumption DEF BillingInv, Numbered
<1>2. ASSUME NEW k \in Customer, NEW w \in Workspace, NEW p \in Plan, Checkout(w, k, p)
      PROVE  BillingInv'
  BY <1>2, CheckoutInv
<1>3. ASSUME NEW k \in Customer, NEW p \in Price, Change(k, p)
      PROVE  BillingInv'
  <2>1. PICK e : e = [n |-> happened + 1, type |-> "updated", of |-> k, price |-> p]
    OBVIOUS
  <2>2. /\ e \in Event /\ Pricing(e) /\ e.type = "updated" /\ e.n = happened + 1
        /\ e.of = k /\ e.price = p
    BY <1>1, <1>3, <2>1 DEF Change, Post, Event, Pricing
  <2>3. Pending' = Pending \cup {e} /\ happened' = happened + 1 /\ happened' <= MaxEvents
    BY <1>1, <1>3, <2>1 DEF Change, Post, Pending
  <2>4. QED
    BY <1>1, <1>3, <2>2, <2>3, PostInv DEF Change, rowVars
<1>4. ASSUME NEW k \in Customer, Cancel(k)
      PROVE  BillingInv'
  <2>1. PICK e : e = [n |-> happened + 1, type |-> "deleted", of |-> k, price |-> "none"]
    OBVIOUS
  <2>2. /\ e \in Event /\ Pricing(e) /\ e.type = "deleted" /\ e.n = happened + 1
        /\ e.of = k /\ e.price = "none"
    BY <1>1, <1>4, <2>1 DEF Cancel, Post, Event, Pricing
  <2>3. Pending' = Pending \cup {e} /\ happened' = happened + 1 /\ happened' <= MaxEvents
    BY <1>1, <1>4, <2>1 DEF Cancel, Post, Pending
  <2>4. QED
    BY <1>1, <1>4, <2>2, <2>3, PostInv DEF Cancel, rowVars
<1>5. ASSUME NEW k \in Customer, Complete(k)
      PROVE  BillingInv'
  <2>1. PICK e : e = [n |-> happened + 1, type |-> "completed", of |-> k, price |-> "none"]
    OBVIOUS
  <2>2. /\ e \in Event /\ e.type = "completed" /\ e.n = happened + 1
        /\ e.of = k /\ e.price = "none"
    BY <1>1, <1>5, <2>1 DEF Complete, Post, Event
  <2>3. Pending' = Pending \cup {e} /\ happened' = happened + 1 /\ happened' <= MaxEvents
    BY <1>1, <1>5, <2>1 DEF Complete, Post, Pending
  <2>4. QED
    BY <1>5, <2>2, <2>3, PostInv DEF Complete, rowVars
<1>6. ASSUME NEW e \in outbox, HandleWebhook(e)
      PROVE  BillingInv'
  <2>1. Pending' = Pending /\ repeats' \in 0 .. MaxRepeats
    BY <1>1, <1>6 DEF HandleWebhook, Pending
  <2>2. QED
    BY <1>6, <2>1, BillingRests DEF HandleWebhook
<1>7. ASSUME NEW e \in running, Dispatch(e)
      PROVE  BillingInv'
  BY <1>7, DispatchInv
<1>8. ASSUME NEW e \in running, Fail(e)
      PROVE  BillingInv'
  BY <1>1, <1>8, LossInv DEF Fail, Pending, rowVars, stripeVars
<1>9. CASE CrashBilling
  BY <1>1, <1>9, LossInv DEF CrashBilling, Pending, rowVars, stripeVars
<1>10. CASE UNCHANGED billingVars
  BY <1>1, <1>10, BillingRests DEF billingVars, stripeVars, Pending
<1>11. QED
  BY <1>2, <1>3, <1>4, <1>5, <1>6, <1>7, <1>8, <1>9, <1>10 DEF BillingNext

LEMMA BillingInvariant == BillingSpec => []BillingInv
<1>1. BillingInit => BillingInv
  <2> SUFFICES ASSUME BillingInit
               PROVE  BillingInv
      OBVIOUS
  <2>1. Numbered
    BY BillingAssumption DEF BillingInit, Numbered, Pending, Plan
  <2>2. Owned /\ Foretold /\ Following
    BY DEF BillingInit, Owned, Foretold, Following, Pending
  <2>3. QED
    BY <2>1, <2>2 DEF BillingInv
<1>2. QED
  BY <1>1, BillingInductive, PTL DEF BillingSpec

\* Once no event of a workspace is to come, none was lost and none came late, its
\* plan is the one of its customer's price, if a price was told after the checkout
\* completed: for any number of checkouts, changes and cancellations, repeated and
\* interleaved (dispatchEvent, lines 209-318).
THEOREM PlansConverge == BillingSpec => []InOrderConverges
<1>1. BillingInv => InOrderConverges
  <2> SUFFICES ASSUME BillingInv, NEW w \in Workspace, w \notin disturbed,
                      \A e \in outbox \cup running : soldTo[e.of] # w,
                      NEW k, k = customer[w]
               PROVE  /\ k = Nobody => plan[w] = "bronze"
                      /\ k # Nobody /\ completed[k] < priced[k] => plan[w] = PlanOf(price[k])
      BY DEF InOrderConverges
  <2>1. k = Nobody => plan[w] = "bronze"
    BY DEF BillingInv, Owned
  <2>2. ASSUME k # Nobody, completed[k] < priced[k]
        PROVE  plan[w] = PlanOf(price[k])
    <3>1. /\ k \in Customer /\ soldTo[k] = w /\ w # Nobody
          /\ priced[k] \in Nat /\ applied[w] \in Nat
      BY <2>2, BillingAssumption DEF BillingInv, Owned, Numbered
    <3>2. Timely(w)
      BY DEF Timely, Pending
    <3>3. priced[k] <= applied[w]
      BY <3>1 DEF BillingInv, Foretold, Pending
    <3>4. QED
      BY <2>2, <3>1, <3>2, <3>3 DEF BillingInv, Following
  <2>3. QED
    BY <2>1, <2>2
<1>2. QED
  BY <1>1, BillingInvariant, PTL

\* No two plans are configured with one price: priceIDToPlan would take either.
PricesDiffer ==
    \A p, q \in DOMAIN priceIDs : priceIDs[p] = priceIDs[q] => p = q

\* What was sold covers what an event still says, and so what a row says.
Sold ==
    /\ \A e \in Pending : e.type = "updated" =>
          <<soldTo[e.of], PlanOf(e.price)>> \in sold
    /\ PlanWasSold

LEMMA SoldInductive ==
    ASSUME PricesDiffer, BillingInv, Sold, [BillingNext]_billingVars
    PROVE  Sold'
<1>1. \A e \in Pending : /\ e.type \in {"completed", "updated", "deleted"}
                         /\ e.of \in Customer /\ soldTo[e.of] # Nobody
                         /\ soldTo[e.of] \in Workspace
                         /\ e.type = "deleted" => e.price = "none"
  BY BillingAssumption DEF BillingInv, Numbered, Event
<1>2. ASSUME NEW k \in Customer, NEW w \in Workspace, NEW p \in Plan, Checkout(w, k, p)
      PROVE  Sold'
  <2>1. /\ Pending' = Pending /\ plan' = plan /\ sold \subseteq sold'
        /\ soldTo' = [soldTo EXCEPT ![k] = w] /\ soldTo[k] = Nobody
    BY <1>2 DEF Checkout, Pending, rowVars
  <2>2. \A e \in Pending : soldTo'[e.of] = soldTo[e.of]
    BY <1>1, <2>1 DEF BillingInv, Numbered
  <2>3. QED
    BY <2>1, <2>2 DEF Sold, PlanWasSold, PlanOf
<1>3. ASSUME NEW k \in Customer, NEW p \in Price, Change(k, p)
      PROVE  Sold'
  <2>1. PICK u : u = [n |-> happened + 1, type |-> "updated", of |-> k, price |-> p]
    OBVIOUS
  <2>2. u.of = k /\ u.price = p
    BY <2>1
  <2>3. /\ Pending' = Pending \cup {u} /\ soldTo' = soldTo /\ plan' = plan
        /\ sold' = sold \cup {<<soldTo[k], PlanOf(p)>>}
    BY <1>3, <2>1 DEF Change, Post, Pending, rowVars
  <2>4. QED
    BY <2>2, <2>3 DEF Sold, PlanWasSold, PlanOf
<1>4. ASSUME NEW k \in Customer, Cancel(k)
      PROVE  Sold'
  <2>1. PICK u : u = [n |-> happened + 1, type |-> "deleted", of |-> k, price |-> "none"]
    OBVIOUS
  <2>2. u.type = "deleted"
    BY <2>1
  <2>3. Pending' = Pending \cup {u} /\ UNCHANGED <<soldTo, plan, sold>>
    BY <1>4, <2>1 DEF Cancel, Post, Pending, rowVars
  <2>4. QED
    BY <2>2, <2>3 DEF Sold, PlanWasSold, PlanOf
<1>5. ASSUME NEW k \in Customer, Complete(k)
      PROVE  Sold'
  <2>1. PICK u : u = [n |-> happened + 1, type |-> "completed", of |-> k, price |-> "none"]
    OBVIOUS
  <2>2. u.type = "completed"
    BY <2>1
  <2>3. Pending' = Pending \cup {u} /\ UNCHANGED <<soldTo, plan, sold>>
    BY <1>5, <2>1 DEF Complete, Post, Pending, rowVars
  <2>4. QED
    BY <2>2, <2>3 DEF Sold, PlanWasSold, PlanOf
<1>6. ASSUME Pending' \subseteq Pending, UNCHANGED <<soldTo, plan, sold>>
      PROVE  Sold'
  BY <1>6 DEF Sold, PlanWasSold, PlanOf
<1>7. ASSUME NEW e \in running, Dispatch(e)
      PROVE  Sold'
  <2>0. PICK w : w = soldTo[e.of]
    OBVIOUS
  <2>1. /\ Pending' \subseteq Pending /\ UNCHANGED <<soldTo, sold>> /\ e \in Pending
    BY <1>7 DEF Dispatch, Pending, stripeVars
  <2>2. /\ \A v \in Workspace \ {w} : plan'[v] = plan[v]
        /\ e.type = "completed" => plan'[w] = plan[w]
        /\ Pricing(e) => plan'[w] \in {plan[w], PlanOf(e.price)}
    BY <1>7, <2>0, DispatchRow
  <2>3. plan'[w] # "bronze" => <<w, plan'[w]>> \in sold
    BY <1>1, <2>0, <2>1, <2>2, PlanOfPlan DEF Sold, PlanWasSold, Pricing
  <2>4. PlanWasSold'
    BY <2>1, <2>2, <2>3 DEF Sold, PlanWasSold
  <2>5. QED
    BY <2>1, <2>4 DEF Sold, PlanOf
<1>8. QED
  BY <1>2, <1>3, <1>4, <1>5, <1>6, <1>7
     DEF BillingNext, HandleWebhook, Fail, CrashBilling, Pending, rowVars, stripeVars,
         historyVars, billingVars

\* A workspace never has a plan that was not sold to it, whatever is lost, late or
\* repeated (handleSubscriptionUpdated and priceIDToPlan, lines 262-331).
THEOREM PlansAreSold ==
    ASSUME PricesDiffer
    PROVE  BillingSpec => []PlanWasSold
<1>1. BillingInit => Sold
  BY DEF BillingInit, Sold, PlanWasSold, Pending
<1>2. BillingInv /\ Sold /\ [BillingNext]_billingVars => Sold'
  BY SoldInductive
<1>3. Sold => PlanWasSold
  BY DEF Sold
<1>4. QED
  BY <1>1, <1>2, <1>3, BillingInvariant, PTL DEF BillingSpec
-----------------------------------------------------------------------------
(* The second factor.                                                      *)

MfaSpec == MfaInit /\ [][MfaNext]_mfaVars

Passed == {"deleteCodes", "deleteRow", "done"}

\* A code is brought only after its enrollment stored all of its codes, so a code
\* that was used is not stored again.
CodesUsedUp ==
    \A d \in Disabler : passcode[d] \in Code =>
        /\ step[passcode[d][1]] = "done"
        /\ step[d] \in Passed => passcode[d] \notin unused

\* As long as enrolling and disabling do not overlap: what is written belongs to
\* an enrollment that is there, and what is deleted is deleted codes first.
Separate ==
    /\ Active(Confirmer) = {} \/ Active(Disabler) = {}
    /\ \A c \in Confirmer : step[c] = "codes" => secret # NoSecret
    /\ \A d \in Disabler : step[d] = "deleteRow" => unused = {}
    /\ secret = NoSecret => unused = {}

Apart == overlap \/ Separate

\* A call that is storing codes has some left to store.
MoreCodes == \A c \in Confirmer : step[c] \in {"idle", "secret", "codes"} => stored[c] < Codes

MfaInv == MfaTypeOK /\ MoreCodes /\ CodesUsedUp /\ CodeAcceptedOnce /\ Apart
\* The owner of a code is a call of ConfirmEnrollment.
LEMMA CodeOwner == \A e \in Code : e[1] \in Confirmer
  BY DEF Code

\* Each call's step preserves the types.
LEMMA MfaTypeStep ==
    MfaTypeOK /\ MoreCodes /\ [MfaNext]_mfaVars => MfaTypeOK' /\ MoreCodes'
<1> SUFFICES ASSUME MfaTypeOK, MoreCodes, [MfaNext]_mfaVars
             PROVE  MfaTypeOK' /\ MoreCodes'
    OBVIOUS
<1>0. MoreCodes
    OBVIOUS
<1> USE MfaAssumption DEF MfaTypeOK, MoreCodes, Go, Ended, Code
<1>1. ASSUME NEW c \in Confirmer, Confirm(c) \/ StoreSecret(c)
      PROVE  MfaTypeOK' /\ MoreCodes'
  BY <1>1 DEF Confirm, StoreSecret, Active
<1>2. ASSUME NEW c \in Confirmer, StoreCode(c)
      PROVE  MfaTypeOK' /\ MoreCodes'
  <2>1. CASE step' = [step EXCEPT ![c] = "failed"] /\ UNCHANGED <<unused, stored>>
    BY <1>2, <2>1 DEF StoreCode
  <2>2. CASE stored' = [stored EXCEPT ![c] = @ + 1]
               /\ unused' = unused \cup {<<c, stored[c] + 1>>}
               /\ Go(c, IF stored[c] + 1 = Codes THEN "done" ELSE "codes")
    <3>1. stored[c] + 1 \in 1 .. Codes
      BY <1>0, <1>2 DEF MoreCodes, StoreCode
    <3>2. stored' \in [Confirmer -> 0 .. Codes] /\ unused' \subseteq Code
      BY <2>2, <3>1
    <3>3. QED
      BY <1>2, <2>2, <3>2 DEF StoreCode
  <2>3. QED
    BY <1>2, <2>1, <2>2 DEF StoreCode
<1>3. ASSUME NEW d \in Disabler, Disable(d)
      PROVE  MfaTypeOK' /\ MoreCodes'
  BY <1>3 DEF Disable, Active
<1>4. ASSUME NEW d \in Disabler, Verify(d) \/ ConsumeRecoveryCode(d)
      PROVE  MfaTypeOK' /\ MoreCodes'
  BY <1>4 DEF Verify, ConsumeRecoveryCode
<1>5. ASSUME NEW d \in Disabler, DeleteCodes(d) \/ DeleteRow(d)
      PROVE  MfaTypeOK' /\ MoreCodes'
  BY <1>5 DEF DeleteCodes, DeleteRow
<1>6. CASE UNCHANGED mfaVars
  BY <1>6 DEF mfaVars
<1>7. QED
  BY <1>1, <1>2, <1>3, <1>4, <1>5, <1>6 DEF MfaNext

LEMMA MfaInductive == MfaInv /\ [MfaNext]_mfaVars => MfaInv'
<1> SUFFICES ASSUME MfaInv, [MfaNext]_mfaVars
             PROVE  MfaInv'
    OBVIOUS
<1> USE MfaAssumption
<1>0. MfaTypeOK /\ MfaTypeOK' /\ MoreCodes'
  BY MfaTypeStep DEF MfaInv
<1>1. ASSUME NEW c \in Confirmer, Confirm(c)
      PROVE  (CodesUsedUp /\ CodeAcceptedOnce /\ Apart)'
  <2>1. (CodesUsedUp /\ CodeAcceptedOnce)'
    BY <1>0, <1>1, CodeOwner DEF MfaInv, Confirm, Go, CodesUsedUp, CodeAcceptedOnce, Passed,
                                 MfaTypeOK
  <2>2. Apart'
    <3>1. CASE overlap \/ Active(Disabler) # {}
      BY <1>1, <3>1 DEF Confirm, Apart
    <3>2. CASE ~overlap /\ Active(Disabler) = {}
      <4>1. \A d \in Disabler : step[d] \in Ended /\ step'[d] = step[d]
        BY <1>0, <1>1, <3>2 DEF Active, Confirm, Go, MfaTypeOK, MfaAssumption
      <4>2. Active(Disabler)' = {}
        BY <4>1 DEF Active
      <4>3. Separate
        BY <3>2 DEF MfaInv, Apart
      <4>4. Separate'
        BY <1>0, <1>1, <4>1, <4>2, <4>3 DEF Separate, Confirm, Go, Ended, MfaTypeOK
      <4>5. QED
        BY <4>4 DEF Apart
    <3>3. QED
      BY <3>1, <3>2
  <2>3. QED
    BY <2>1, <2>2
<1>2. ASSUME NEW c \in Confirmer, StoreSecret(c)
      PROVE  (CodesUsedUp /\ CodeAcceptedOnce /\ Apart)'
  BY <1>0, <1>2 DEF MfaInv, StoreSecret, Go, CodesUsedUp, CodeAcceptedOnce, Apart, Separate, Active,
                    Passed, Ended, Code, MfaTypeOK
<1>3. ASSUME NEW c \in Confirmer, StoreCode(c)
      PROVE  (CodesUsedUp /\ CodeAcceptedOnce /\ Apart)'
  BY <1>0, <1>3 DEF MfaInv, StoreCode, Go, CodesUsedUp, CodeAcceptedOnce, Apart, Separate, Active,
                    Passed, Ended, Code, MfaTypeOK
<1>4. ASSUME NEW d \in Disabler, Disable(d)
      PROVE  (CodesUsedUp /\ CodeAcceptedOnce /\ Apart)'
  <2>1. PICK p \in Confirmer \cup {e \in Code : step[e[1]] = "done"} \cup {NoSecret} :
            passcode' = [passcode EXCEPT ![d] = p]
    BY <1>4 DEF Disable
  <2>2. p \in Code => step[p[1]] = "done"
    BY <2>1 DEF MfaAssumption
  <2>3. (CodesUsedUp /\ CodeAcceptedOnce)'
    BY <1>0, <1>4, <2>1, <2>2, CodeOwner DEF MfaInv, Disable, Go, CodesUsedUp,
                               CodeAcceptedOnce, Passed, MfaTypeOK, MfaAssumption
  <2>4. Apart'
    <3>1. CASE overlap \/ Active(Confirmer) # {}
      BY <1>4, <3>1 DEF Disable, Apart
    <3>2. CASE ~overlap /\ Active(Confirmer) = {}
      <4>1. \A c \in Confirmer : step[c] \in Ended /\ step'[c] = step[c]
        BY <1>0, <1>4, <3>2 DEF Active, Disable, Go, MfaTypeOK, MfaAssumption
      <4>2. Active(Confirmer)' = {}
        BY <4>1 DEF Active
      <4>3. Separate
        BY <3>2 DEF MfaInv, Apart
      <4>4. Separate'
        BY <1>0, <1>4, <4>1, <4>2, <4>3 DEF Separate, Disable, Go, Ended, MfaTypeOK
      <4>5. QED
        BY <4>4 DEF Apart
    <3>3. QED
      BY <3>1, <3>2
  <2>5. QED
    BY <2>3, <2>4
<1>5. ASSUME NEW d \in Disabler, Verify(d)
      PROVE  (CodesUsedUp /\ CodeAcceptedOnce /\ Apart)'
  BY <1>0, <1>5 DEF MfaInv, Verify, Go, CodesUsedUp, CodeAcceptedOnce, Apart, Separate, Active,
                    Passed, Ended, Code, MfaTypeOK
<1>6. ASSUME NEW d \in Disabler, ConsumeRecoveryCode(d)
      PROVE  (CodesUsedUp /\ CodeAcceptedOnce /\ Apart)'
  BY <1>0, <1>6 DEF MfaInv, ConsumeRecoveryCode, Go, CodesUsedUp, CodeAcceptedOnce, Apart, Separate,
                    Active, Passed, Ended, Code, MfaTypeOK
<1>7. ASSUME NEW d \in Disabler, DeleteCodes(d) \/ DeleteRow(d)
      PROVE  (CodesUsedUp /\ CodeAcceptedOnce /\ Apart)'
  BY <1>0, <1>7 DEF MfaInv, DeleteCodes, DeleteRow, Go, CodesUsedUp, CodeAcceptedOnce, Apart, Separate,
                    Active, Passed, Ended, Code, MfaTypeOK
<1>8. ASSUME UNCHANGED mfaVars
      PROVE  (CodesUsedUp /\ CodeAcceptedOnce /\ Apart)'
  <2>1. (CodesUsedUp /\ CodeAcceptedOnce)'
    BY <1>8 DEF MfaInv, mfaVars, CodesUsedUp, CodeAcceptedOnce
  <2>2. Separate' <=> Separate
    BY <1>8 DEF mfaVars, Separate, Active
  <2>3. CASE overlap
    BY <1>8, <2>1, <2>3 DEF mfaVars, Apart
  <2>4. CASE Separate
    BY <2>1, <2>2, <2>4 DEF Apart
  <2>5. QED
    BY <2>3, <2>4 DEF MfaInv, Apart
<1>9. QED
  BY <1>0, <1>1, <1>2, <1>3, <1>4, <1>5, <1>6, <1>7, <1>8 DEF MfaNext, MfaInv

LEMMA MfaInvariant == MfaSpec => []MfaInv
<1>1. MfaInit => MfaInv
  <2> SUFFICES ASSUME MfaInit PROVE MfaInv
    OBVIOUS
  <2>1. MfaTypeOK /\ MoreCodes
    <3>1. 0 < Codes /\ 0 \in 0 .. Codes
      BY MfaAssumption
    <3>2. QED
      BY <3>1 DEF MfaInit, MfaTypeOK, MoreCodes, Ended
  <2>2. \A d \in Disabler : passcode[d] \notin Code
    BY MfaAssumption DEF MfaInit
  <2>3. CodesUsedUp /\ CodeAcceptedOnce /\ Apart
    BY <2>2 DEF MfaInit, CodesUsedUp, CodeAcceptedOnce, Apart, Separate, Active, Ended
  <2>4. QED
    BY <2>1, <2>3 DEF MfaInv
<1>2. QED
  BY <1>1, MfaInductive, PTL DEF MfaSpec

\* A recovery code gets one call past Verify at most, for any number of calls and
\* any interleaving of their statements (consumeRecoveryCode, lines 233-259).
THEOREM CodesWorkOnce == MfaSpec => []CodeAcceptedOnce
<1>1. MfaInv => CodeAcceptedOnce
  BY DEF MfaInv
<1>2. QED
  BY <1>1, MfaInvariant, PTL

\* Codes outlive their enrollment only after an overlap of enrolling and
\* disabling, whichever of their statements fail (lines 106-145 and 204-229).
THEOREM OrphansNeedOverlap == MfaSpec => []OrphanCodesNeedOverlap
<1>1. MfaInv => OrphanCodesNeedOverlap
  BY DEF MfaInv, Apart, Separate, OrphanCodesNeedOverlap
<1>2. QED
  BY <1>1, MfaInvariant, PTL
-----------------------------------------------------------------------------
(* Appeals against one decision.                                           *)

AppealsSpec == AppealsInit /\ [][AppealsNext]_appealVars

\* What each request's place and answer say about the table.
Consistent ==
    /\ \A r \in Submitter : found[r] = {} \/ found[r] = appeals
    /\ \A r \in appeals : request[r] = "done" /\ answer[r] = "201"
    /\ \A r \in Submitter : request[r] = "insert" => r \in raced \cup broken
    /\ \A r \in Submitter : answer[r] = "500" =>
          r \in broken \/ (r \in raced /\ appeals # {} /\ appeals # {r})

AppealsInv == AppealsTypeOK /\ Consistent

\* An appeal is one row or none, and rows are never taken back: the invariant
\* says what a request's answer and its row have to do with each other.
LEMMA AppealsInductive == AppealsInv /\ [AppealsNext]_appealVars => AppealsInv'
<1> SUFFICES ASSUME AppealsInv, [AppealsNext]_appealVars
             PROVE  AppealsInv'
    OBVIOUS
<1> USE DEF AppealsInv
<1>1. CASE Record
  BY <1>1 DEF Record, AppealsTypeOK, Consistent
<1>2. ASSUME NEW r \in Submitter, Submit(r)
      PROVE  AppealsInv'
  BY <1>2 DEF Submit, Move, AppealsTypeOK, Consistent
<1>3. ASSUME NEW r \in Submitter, FindDecision(r)
      PROVE  AppealsInv'
  BY <1>3 DEF FindDecision, Move, Answer, AppealsTypeOK, Consistent
<1>4. ASSUME NEW r \in Submitter, LookForAppeal(r)
      PROVE  AppealsInv'
  BY <1>4 DEF LookForAppeal, Move, Answer, AppealsTypeOK, Consistent
<1>5. ASSUME NEW r \in Submitter, Insert(r)
      PROVE  AppealsInv'
  BY <1>5 DEF Insert, Move, Answer, AppealsTypeOK, Consistent
<1>6. CASE UNCHANGED appealVars
  BY <1>6 DEF appealVars, AppealsTypeOK, Consistent
<1>7. QED
  BY <1>1, <1>2, <1>3, <1>4, <1>5, <1>6 DEF AppealsNext

LEMMA AppealsInvariant == AppealsSpec => []AppealsInv
<1>1. AppealsInit => AppealsInv
  BY DEF AppealsInit, AppealsInv, AppealsTypeOK, Consistent
<1>2. QED
  BY <1>1, AppealsInductive, PTL DEF AppealsSpec

\* All requests that are told of an appeal are told of the same one, and an
\* internal error for a recorded decision has the database or a request that was
\* first for its reason (HandleSubmit, lines 60-131).
THEOREM AppealsStayOne == AppealsSpec => []AppealsAreOne
<1>1. AppealsInv => AppealsAreOne
  BY DEF AppealsInv, Consistent, AppealsAreOne, AppealsTypeOK
<1>2. QED
  BY <1>1, AppealsInvariant, PTL
-----------------------------------------------------------------------------
(* The decision history.                                                   *)

DecisionsSpec == DecisionsInit /\ [][DecisionsNext]_decisionVars

\* The records that come before r in every order.
Newer(r) == {s \in log : Before(s, r)}

\* No other record has its timestamp.
Alone(r) == \A s \in AuditRecord \ {r} : timestamp[s] # timestamp[r]

\* What the client still has to be shown lies beyond its offset, and there is more
\* to come; the records above it only grow in number, as the oldest go first.
Ahead ==
    \A r \in (there \cap log) \ walked :
        Alone(r) => walking # "done" /\ offset <= Cardinality(Newer(r))

WalkInv ==
    /\ DecisionsTypeOK
    /\ walking = "no" => offset = 0
    /\ there \subseteq log \cup retired
    /\ Ahead

\* The records at some places of an order.
RecordsAt(order, R) == {order[i] : i \in R}

\* Part of an order has as many records as places.
LEMMA PlacesCount ==
    ASSUME NEW S, NEW n \in Nat, NEW order \in [1 .. n -> S], IsInjective(order),
           NEW R \in SUBSET (1 .. n)
    PROVE  /\ IsFiniteSet(RecordsAt(order, R))
           /\ Cardinality(RecordsAt(order, R)) = Cardinality(R)
<1>1. IsFiniteSet(1 .. n)
  BY FS_Interval
<1>2. IsFiniteSet(R)
  BY <1>1, FS_Subset
<1>3. [i \in R |-> order[i]] \in Bijection(R, RecordsAt(order, R))
  BY DEF RecordsAt, Bijection, Injection, Surjection, IsInjective
<1>4. QED
  BY <1>2, <1>3, FS_Bijection DEF ExistsBijection

\* An order of the records is one-to-one onto them, and a record alone at its time
\* stands right after the newer ones.
LEMMA Places ==
    ASSUME DecisionsTypeOK, NEW order \in Orders
    PROVE  /\ IsFiniteSet(log) /\ Cardinality(log) \in Nat
           /\ order \in [1 .. Cardinality(log) -> log] /\ IsInjective(order)
           /\ \A r \in log : Alone(r) =>
                 \E i \in 1 .. Cardinality(log) :
                     order[i] = r /\ Cardinality(Newer(r)) = i - 1
<1>1. IsFiniteSet(log) /\ log \subseteq AuditRecord /\ timestamp \in [AuditRecord -> Nat]
  BY DecisionsAssumption, FS_Subset DEF DecisionsTypeOK
<1>2. Cardinality(log) \in Nat
  BY <1>1, FS_CardinalityType
<1>3. order \in [1 .. Cardinality(log) -> log] /\ IsInjective(order)
  BY DEF Orders, SetToSeqs, IsInjective
<1>4. order \in Surjection(1 .. Cardinality(log), log)
  <2>1. order \in Injection(1 .. Cardinality(log), log)
    BY <1>3 DEF Injection
  <2>2. Cardinality(1 .. Cardinality(log)) = Cardinality(log)
    BY <1>2, FS_Interval
  <2>3. QED
    BY <1>1, <2>1, <2>2, FS_Injection
<1>5. ASSUME NEW r \in log, Alone(r)
      PROVE  \E i \in 1 .. Cardinality(log) : order[i] = r /\ Cardinality(Newer(r)) = i - 1
  <2>1. PICK i \in 1 .. Cardinality(log) : order[i] = r
    BY <1>4 DEF Surjection
  <2>2. \A j \in 1 .. Cardinality(log) : Before(order[j], r) <=> j < i
    <3> SUFFICES ASSUME NEW j \in 1 .. Cardinality(log)
                 PROVE  Before(order[j], r) <=> j < i
        OBVIOUS
    <3>1. /\ Before(order[j], order[i]) => j < i
          /\ Before(order[i], order[j]) => i < j
      BY <1>3 DEF Orders
    <3>2. j # i => order[j] # r
      BY <1>3, <2>1 DEF IsInjective
    <3>3. /\ order[j] \in AuditRecord /\ r \in AuditRecord
          /\ timestamp[order[j]] \in Nat /\ timestamp[r] \in Nat
      BY <1>1, <1>3
    <3>4. QED
      BY <1>2, <1>5, <2>1, <3>1, <3>2, <3>3 DEF Before, Alone
  <2>3. Newer(r) = {order[j] : j \in 1 .. i - 1}
    <3>1. \A s \in log : \E j \in 1 .. Cardinality(log) : order[j] = s
      BY <1>4 DEF Surjection
    <3>2. \A j \in 1 .. i - 1 : j \in 1 .. Cardinality(log) /\ order[j] \in log
      BY <1>2, <1>3
    <3>3. QED
      BY <1>2, <2>2, <3>1, <3>2 DEF Newer
  <2>4. PICK R : R = 1 .. i - 1
    OBVIOUS
  <2>5. R \in SUBSET (1 .. Cardinality(log))
    BY <1>2, <2>4
  <2>6. Cardinality(R) = i - 1
    <3>1. Cardinality(R) = IF 1 > i - 1 THEN 0 ELSE i - 1 - 1 + 1
      BY <1>2, <2>4, FS_Interval
    <3>2. QED
      BY <1>2, <3>1
  <2>7. Cardinality(RecordsAt(order, R)) = Cardinality(R)
    BY <1>2, <1>3, <2>5, PlacesCount
  <2>8. QED
    BY <2>1, <2>3, <2>4, <2>6, <2>7 DEF RecordsAt
<1>6. QED
  BY <1>1, <1>2, <1>3, <1>5

\* One page: what it leaves out of the records the client has yet to be shown lies
\* behind it, and then it is full.
LEMMA ListInv ==
    ASSUME WalkInv, NEW asked \in 0 .. MaxLimit + 1, ListDecisions(asked)
    PROVE  WalkInv'
<1>0. PICK limit : limit = PageLimit(asked)
  OBVIOUS
<1>1. limit \in Nat \ {0} /\ offset \in Nat /\ log \subseteq AuditRecord
  BY <1>0, DecisionsAssumption DEF PageLimit, WalkInv, DecisionsTypeOK
<1>2. PICK order \in Orders :
          /\ walked' = walked \cup Page(order, limit)
          /\ offset' = offset + Cardinality(Page(order, limit))
          /\ walking' = IF Cardinality(Page(order, limit)) < limit THEN "done" ELSE "yes"
  BY <1>0 DEF ListDecisions
<1>3. /\ there' = IF walking = "no" THEN log ELSE there
      /\ log' = log /\ retired' = retired
  BY DEF ListDecisions
<1>4. PICK N, places : /\ N = Cardinality(log) /\ N \in Nat
                       /\ places = {n \in 1 .. N : offset < n /\ n <= offset + limit}
  BY Places DEF WalkInv
<1>5. /\ order \in [1 .. N -> log] /\ IsInjective(order)
      /\ \A r \in log : Alone(r) =>
            \E i \in 1 .. N : order[i] = r /\ Cardinality(Newer(r)) = i - 1
  BY <1>4, Places DEF WalkInv
<1>6. Page(order, limit) = {order[i] : i \in places}
  BY <1>4, <1>5 DEF Page
<1>7. /\ Cardinality(Page(order, limit)) = Cardinality(places)
      /\ Cardinality(places) \in Nat /\ Page(order, limit) \subseteq log
  <2>1. places \in SUBSET (1 .. N)
    BY <1>4
  <2>2. IsFiniteSet(1 .. N)
    BY <1>4, FS_Interval
  <2>3. Cardinality(places) \in Nat
    BY <2>1, <2>2, FS_Subset, FS_CardinalityType
  <2>4. Cardinality(RecordsAt(order, places)) = Cardinality(places)
    <3>1. N \in Nat /\ order \in [1 .. N -> log] /\ IsInjective(order)
      BY <1>4, <1>5
    <3>2. QED
      BY <2>1, <3>1, PlacesCount
  <2>5. {order[i] : i \in places} \subseteq log
    BY <1>5, <2>1
  <2>6. QED
    BY <1>6, <2>3, <2>4, <2>5 DEF RecordsAt
<1>8. DecisionsTypeOK'
  BY <1>1, <1>2, <1>3, <1>7 DEF WalkInv, DecisionsTypeOK
<1>9. ASSUME NEW r \in (there' \cap log) \ walked', Alone(r)
      PROVE  walking' # "done" /\ offset' <= Cardinality(Newer(r))
  <2>1. PICK i \in 1 .. N : order[i] = r /\ Cardinality(Newer(r)) = i - 1
    BY <1>5, <1>9
  <2>2. offset <= i - 1
    BY <1>1, <1>2, <1>3, <1>4, <1>9, <2>1 DEF WalkInv, Ahead
  <2>3. i \notin places
    BY <1>2, <1>6, <1>9, <2>1
  <2>4. i > offset + limit
    BY <1>1, <1>4, <2>1, <2>2, <2>3
  <2>5. places = offset + 1 .. offset + limit
    BY <1>1, <1>4, <2>1, <2>4
  <2>6. Cardinality(places) = limit
    BY <1>1, <2>5, FS_Interval
  <2>7. QED
    BY <1>1, <1>2, <1>7, <2>1, <2>4, <2>6
<1>10. Ahead'
  BY <1>3, <1>9 DEF Ahead, Newer, Alone
<1>11. QED
  BY <1>2, <1>3, <1>8, <1>10 DEF WalkInv

LEMMA WalkInductive == WalkInv /\ [DecisionsNext]_decisionVars => WalkInv'
<1> SUFFICES ASSUME WalkInv, [DecisionsNext]_decisionVars
             PROVE  WalkInv'
    OBVIOUS
<1>0. /\ log \subseteq AuditRecord /\ timestamp \in [AuditRecord -> Nat] /\ offset \in Nat
      /\ \A r : IsFiniteSet(Newer(r)) /\ Cardinality(Newer(r)) \in Nat
  <2>1. IsFiniteSet(log)
    BY DecisionsAssumption, FS_Subset DEF WalkInv, DecisionsTypeOK
  <2>2. \A r : Newer(r) \in SUBSET log
    BY DEF Newer
  <2>3. QED
    BY <2>1, <2>2, FS_Subset, FS_CardinalityType, DecisionsAssumption
       DEF WalkInv, DecisionsTypeOK
<1>1. ASSUME NEW asked \in 0 .. MaxLimit + 1, ListDecisions(asked)
      PROVE  WalkInv'
  BY <1>1, ListInv
<1>2. ASSUME NEW a \in AuditRecord, InsertAudit(a)
      PROVE  WalkInv'
  <2>1. /\ log' = log \cup {a} /\ a \notin log \cup retired
        /\ UNCHANGED <<retired, offset, walked, there, walking>>
    BY <1>2 DEF InsertAudit
  <2>2. DecisionsTypeOK'
    BY <2>1 DEF WalkInv, DecisionsTypeOK
  <2>3. ASSUME NEW r \in (there \cap log) \ walked, Alone(r)
        PROVE  offset <= Cardinality(Newer(r)')
    <3>1. IsFiniteSet(Newer(r)')
      <4>1. Newer(r)' \in SUBSET AuditRecord
        BY <1>0, <2>1 DEF Newer
      <4>2. QED
        BY <4>1, FS_Subset, DecisionsAssumption
    <3>2. Newer(r) \in SUBSET (Newer(r)')
      BY <2>1 DEF Newer
    <3>3. Cardinality(Newer(r)) <= Cardinality(Newer(r)') /\ Cardinality(Newer(r)') \in Nat
      BY <3>1, <3>2, FS_Subset, FS_CardinalityType
    <3>4. QED
      BY <1>0, <2>3, <3>3 DEF WalkInv, Ahead
  <2>4. there' \cap log' = there \cap log
    BY <2>1 DEF WalkInv
  <2>5. Ahead'
    BY <2>1, <2>3, <2>4 DEF WalkInv, Ahead, Alone
  <2>6. QED
    BY <2>1, <2>2, <2>5 DEF WalkInv
<1>3. ASSUME NEW a \in AuditRecord, Retire(a)
      PROVE  WalkInv'
  <2>1. /\ log' = log \ {a} /\ retired' = retired \cup {a} /\ a \in log
        /\ \A s \in log : ~(timestamp[s] < timestamp[a])
        /\ UNCHANGED <<offset, walked, there, walking>>
    BY <1>3 DEF Retire
  <2>2. DecisionsTypeOK'
    BY <2>1 DEF WalkInv, DecisionsTypeOK
  <2>3. \A r \in log : Newer(r)' = Newer(r)
    BY <1>0, <2>1 DEF Newer, Before
  <2>4. Ahead'
    BY <2>1, <2>3 DEF WalkInv, Ahead, Alone
  <2>5. QED
    BY <2>1, <2>2, <2>4 DEF WalkInv
<1>4. CASE UNCHANGED decisionVars
  BY <1>4 DEF decisionVars, WalkInv, DecisionsTypeOK, Ahead, Newer, Alone
<1>5. QED
  BY <1>1, <1>2, <1>3, <1>4 DEF DecisionsNext

LEMMA WalkInvariant == DecisionsSpec => []WalkInv
<1>1. DecisionsInit => WalkInv
  <2> SUFFICES ASSUME DecisionsInit
               PROVE  WalkInv
      OBVIOUS
  <2>1. \A r : Cardinality(Newer(r)) \in Nat
    <3>1. IsFiniteSet(log)
      BY DecisionsAssumption, FS_Subset DEF DecisionsInit
    <3>2. \A r : Newer(r) \in SUBSET log
      BY DEF Newer
    <3>3. QED
      BY <3>1, <3>2, FS_Subset, FS_CardinalityType
  <2>2. DecisionsTypeOK
    BY DEF DecisionsInit, DecisionsTypeOK
  <2>3. QED
    BY <2>1, <2>2 DEF DecisionsInit, WalkInv, Ahead
<1>2. QED
  BY <1>1, WalkInductive, PTL DEF DecisionsSpec

\* A walk of the history skips no record but of a shared timestamp, for any number
\* of records, any timestamps, any page sizes, and whatever arrives or retires
\* between two pages (HandleListDecisions, lines 54-149).
THEOREM WalkSkipsNothing == DecisionsSpec => []NothingSkipped
<1>1. WalkInv => NothingSkipped
  BY DEF WalkInv, DecisionsTypeOK, Ahead, Alone, NothingSkipped
<1>2. QED
  BY <1>1, WalkInvariant, PTL
-----------------------------------------------------------------------------
(* The four together.                                                      *)

\* Beside the others, each part runs as it does alone.
LEMMA Together == ControlSpec => BillingSpec /\ MfaSpec /\ AppealsSpec /\ DecisionsSpec
<1>1. ControlInit => BillingInit /\ MfaInit /\ AppealsInit /\ DecisionsInit
  BY DEF ControlInit
<1>2. [ControlNext]_controlVars =>
          /\ [BillingNext]_billingVars /\ [MfaNext]_mfaVars
          /\ [AppealsNext]_appealVars /\ [DecisionsNext]_decisionVars
  BY DEF ControlNext, BillingRoutes, MfaRoutes, AppealsRoutes, DecisionsRoutes, controlVars
<1>3. QED
  BY <1>1, <1>2, PTL
     DEF ControlSpec, BillingSpec, MfaSpec, AppealsSpec, DecisionsSpec

\* Every row keeps its type, and every webhook that is still to be applied belongs
\* to a customer that was sold something, whatever the routes interleave.
THEOREM ControlTypeCorrect == ControlSpec => []ControlTypeOK
<1>1. BillingInv /\ MfaInv /\ AppealsInv /\ WalkInv => ControlTypeOK
  <2> SUFFICES ASSUME BillingInv, MfaInv, AppealsInv, WalkInv
               PROVE  ControlTypeOK
      OBVIOUS
  <2>1. MfaTypeOK /\ AppealsTypeOK /\ DecisionsTypeOK
    BY DEF MfaInv, AppealsInv, WalkInv
  <2>2. ASSUME NEW e \in Pending
        PROVE  e.n \in 1 .. happened /\ soldTo[e.of] # Nobody
    <3>1. e \in Event /\ e.n <= happened /\ soldTo[e.of] \in Workspace /\ happened \in Nat
      BY <2>2 DEF BillingInv, Numbered
    <3>2. e.n \in Nat \ {0}
      BY <3>1 DEF Event
    <3>3. QED
      BY <3>1, <3>2, BillingAssumption
  <2>3. BillingTypeOK
    BY <2>2 DEF BillingTypeOK, BillingInv, Numbered, Pending
  <2>4. QED
    BY <2>1, <2>3 DEF ControlTypeOK
<1>2. QED
  BY <1>1, Together, BillingInvariant, MfaInvariant, AppealsInvariant, WalkInvariant, PTL
=============================================================================
