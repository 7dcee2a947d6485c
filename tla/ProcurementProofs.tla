--------------------------- MODULE ProcurementProofs ---------------------------
(***************************************************************************)
(* Proofs that the properties of Procurement hold for any number of        *)
(* callers, orders, keys and calls, any stock and any quantities.          *)
(***************************************************************************)
EXTENDS Procurement, TLAPS

AtOrder == {"consumed", "stocked", "saved"}
AtQuote == {"missed", "stored"}

(***************************************************************************)
(* Jobs.                                                                   *)
(***************************************************************************)

\* The stage of a call says which locals it has.
LEMMA JobFields ==
  ASSUME TypeOK, NEW c \in Callers
  PROVE  /\ job[c] = Idle \/ job[c] \in OrderJobs \/ job[c] \in QuoteJobs
         /\ job[c] # Idle => job[c].at \in AtOrder \cup AtQuote
         /\ job[c].at \in AtOrder =>
              /\ job[c] \in OrderJobs
              /\ job[c].order \in OrderIds
              /\ job[c].quantity \in Quantities
              /\ job[c].quantity \in Int
              /\ job[c].left \in Int
         /\ job[c].at \in AtQuote =>
              /\ job[c] \in QuoteJobs
              /\ job[c].key \in Keys \cup {NoKey}
              /\ job[c].quote \in Nat
<1>1. job[c] = Idle \/ job[c] \in OrderJobs \/ job[c] \in QuoteJobs
  BY DEF TypeOK
<1>2. CASE job[c] = Idle
  BY <1>2 DEF Idle, AtOrder, AtQuote
<1>3. CASE job[c] \in OrderJobs
  BY <1>3, ProcurementAssumption DEF OrderJobs, AtOrder, AtQuote
<1>4. CASE job[c] \in QuoteJobs
  BY <1>4 DEF QuoteJobs, AtOrder, AtQuote
<1>5. QED BY <1>1, <1>2, <1>3, <1>4

\* What a call works on is valid, and what it means to leave is not negative.
JobsSound ==
  \A c \in Callers :
    /\ job[c].at \in AtOrder => job[c].quantity > 0
    /\ job[c].at = "consumed" => job[c].left >= 0

LEMMA TypeInit == Init => TypeOK /\ JobsSound
<1>1. SUFFICES ASSUME Init PROVE TypeOK /\ JobsSound OBVIOUS
<1>2. quotes \in Seq(Keys \cup {NoKey}) BY <1>1 DEF Init
<1>3. TypeOK BY <1>1, <1>2, ProcurementAssumption DEF Init, TypeOK
<1>4. JobsSound BY <1>1 DEF Init, JobsSound, Idle, AtOrder
<1>5. QED BY <1>3, <1>4

\* Both are kept by every step.
LEMMA TypeStep == TypeOK /\ JobsSound /\ [Next]_vars => TypeOK' /\ JobsSound'
<1> SUFFICES ASSUME TypeOK, JobsSound, [Next]_vars PROVE TypeOK' /\ JobsSound'
  OBVIOUS
<1> USE ProcurementAssumption
<1> DEFINE Goal == TypeOK' /\ JobsSound'
<1>b. ASSUME NEW c \in Callers, Begin(c)
      PROVE  calls' \in 0 .. MaxCalls
  BY <1>b DEF Begin, TypeOK
<1>1. ASSUME NEW c \in Callers, NEW o \in OrderIds, NEW q \in Quantities,
             TakeFromCopy(c, o, q)
      PROVE  Goal
  <2> DEFINE j == [at |-> "consumed", order |-> o, quantity |-> q,
                   left |-> Remaining(stock, q)]
  <2>1. /\ q \in Int /\ q > 0
        /\ Remaining(stock, q) \in Int /\ Remaining(stock, q) >= 0
    BY <1>1 DEF TakeFromCopy, Valid, Enough, Remaining, TypeOK
  <2>2. j \in OrderJobs BY <2>1 DEF OrderJobs
  <2>3. job' = [job EXCEPT ![c] = j] BY <1>1 DEF TakeFromCopy
  <2>4. job' \in [Callers -> {Idle} \cup OrderJobs \cup QuoteJobs]
    BY <2>2, <2>3 DEF TypeOK
  <2>5. orderly' \in BOOLEAN BY <1>1 DEF TakeFromCopy
  <2>6. TypeOK'
    BY <1>1, <1>b, <2>4, <2>5 DEF TakeFromCopy, TypeOK, quoteVars
  <2>7. JobsSound' BY <2>1, <2>3 DEF JobsSound, TypeOK
  <2>8. QED BY <2>6, <2>7
<1>2. ASSUME NEW c \in Callers, NEW q \in Quantities, RejectOrder(c, q)
      PROVE  Goal
  BY <1>2, <1>b DEF RejectOrder, TypeOK, JobsSound, ledgerVars, quoteVars
<1>3. ASSUME NEW c \in Callers, UpdateStock(c) PROVE Goal
  <2>1. /\ job[c] \in OrderJobs /\ job[c].order \in OrderIds
        /\ job[c].left \in Int
        /\ job[c].quantity \in Nat
    BY <1>3, JobFields DEF UpdateStock, JobsSound, AtOrder
  <2>2. job' \in [Callers -> {Idle} \cup OrderJobs \cup QuoteJobs]
    BY <1>3, <2>1 DEF UpdateStock, TypeOK, OrderJobs
  <2>3. stock' \in Int /\ used' \in Nat /\ paid' \in [OrderIds -> Nat]
    <3>1. stock' \in Int /\ used' \in Nat
      BY <1>3, <2>1 DEF UpdateStock, TypeOK
    <3>2. \A n \in Nat : n + job[c].quantity \in Nat BY <2>1
    <3>3. paid' \in [OrderIds -> Nat]
      BY <1>3, <2>1, <3>2, Zenon DEF UpdateStock, TypeOK
    <3>4. QED BY <3>1, <3>3
  <2>4. TypeOK' BY <1>3, <2>2, <2>3 DEF UpdateStock, TypeOK, quoteVars
  <2>5. JobsSound'
    BY <1>3, <2>1 DEF UpdateStock, JobsSound, TypeOK, AtOrder, OrderJobs
  <2>6. QED BY <2>4, <2>5
<1>4. ASSUME NEW c \in Callers, SaveOrder(c) PROVE Goal
  <2>1. /\ job[c] \in OrderJobs /\ job[c].order \in OrderIds
        /\ job[c].quantity \in Quantities
    BY <1>4, JobFields DEF SaveOrder, AtOrder
  <2>2. job' \in [Callers -> {Idle} \cup OrderJobs \cup QuoteJobs]
    BY <1>4, <2>1 DEF SaveOrder, TypeOK, OrderJobs
  <2>3. orders' \in [OrderIds -> Quantities \cup {NoOrder}]
    BY <1>4, <2>1 DEF SaveOrder, TypeOK
  <2>4. TypeOK' BY <1>4, <2>2, <2>3 DEF SaveOrder, TypeOK, quoteVars
  <2>5. JobsSound'
    BY <1>4, <2>1 DEF SaveOrder, JobsSound, TypeOK, AtOrder, OrderJobs
  <2>6. QED BY <2>4, <2>5
<1>5. ASSUME NEW c \in Callers, Dispatch(c) PROVE Goal
  <2>1. job[c].order \in OrderIds /\ job[c].quantity \in Quantities
    BY <1>5, JobFields DEF Dispatch, AtOrder
  <2>2. TypeOK' BY <1>5, <2>1 DEF Dispatch, TypeOK, quoteVars
  <2>3. JobsSound' BY <1>5 DEF Dispatch, JobsSound, TypeOK, Idle, AtOrder
  <2>4. QED BY <2>2, <2>3
<1>6. ASSUME NEW c \in Callers, NEW k \in Keys, QuoteFromCache(c, k)
      PROVE  Goal
  BY <1>6, <1>b
  DEF QuoteFromCache, Answered, TypeOK, JobsSound, ledgerVars
<1>7. ASSUME NEW c \in Callers, NEW k \in Keys \cup {NoKey},
             NEW broken \in BOOLEAN, CacheMiss(c, k, broken)
      PROVE  Goal
  <2> DEFINE j == [at |-> "missed", key |-> k, quote |-> 0]
  <2>1. j \in QuoteJobs /\ j.at \notin AtOrder BY DEF QuoteJobs, AtOrder
  <2>2. job' = [job EXCEPT ![c] = j] BY <1>7 DEF CacheMiss
  <2>3. healthy' \in [Keys -> BOOLEAN] /\ apart' \in [Keys -> BOOLEAN]
    <3>1. CASE k = NoKey BY <1>7, <3>1 DEF CacheMiss, TypeOK
    <3>2. CASE k # NoKey
      <4> DEFINE alone == \A d \in Callers :
                   job[d].at \in {"missed", "stored"} => job[d].key # k
      <4>1. /\ healthy' = [healthy EXCEPT ![k] = @ /\ ~broken]
            /\ apart' = [apart EXCEPT ![k] = @ /\ alone]
        BY <1>7, <3>2 DEF CacheMiss
      <4>2. healthy \in [Keys -> BOOLEAN] /\ apart \in [Keys -> BOOLEAN]
        BY DEF TypeOK
      <4> HIDE DEF alone
      <4>3. QED BY <4>1, <4>2, Zenon
    <3>3. QED BY <3>1, <3>2
  <2>4. TypeOK' BY <1>7, <1>b, <2>1, <2>2, <2>3 DEF CacheMiss, TypeOK, ledgerVars
  <2>5. JobsSound' BY <2>1, <2>2 DEF JobsSound, TypeOK, AtOrder
  <2>6. QED BY <2>4, <2>5
<1>8. ASSUME NEW c \in Callers, StoreQuote(c) PROVE Goal
  <2>1. job[c] \in QuoteJobs /\ job[c].key \in Keys \cup {NoKey}
    BY <1>8, JobFields DEF StoreQuote, AtQuote
  <2>2. quotes' \in Seq(Keys \cup {NoKey}) /\ Len(quotes) + 1 \in Nat
    BY <1>8, <2>1 DEF StoreQuote, TypeOK
  <2>3. job' \in [Callers -> {Idle} \cup OrderJobs \cup QuoteJobs]
    BY <1>8, <2>1, <2>2 DEF StoreQuote, TypeOK, QuoteJobs
  <2>4. TypeOK' BY <1>8, <2>2, <2>3 DEF StoreQuote, TypeOK, ledgerVars
  <2>5. JobsSound'
    BY <1>8, <2>1 DEF StoreQuote, JobsSound, TypeOK, AtOrder, QuoteJobs
  <2>6. QED BY <2>4, <2>5
<1>9. ASSUME NEW c \in Callers, CacheAndAnswer(c) PROVE Goal
  <2>1. job[c].key \in Keys \cup {NoKey} /\ job[c].quote \in Nat
    BY <1>9, JobFields DEF CacheAndAnswer, AtQuote
  <2>2. cache' \in [Keys -> Nat] /\ healthy' \in [Keys -> BOOLEAN]
    BY <1>9, <2>1 DEF CacheAndAnswer, TypeOK
  <2>3. answers' \subseteq [key : Keys \cup {NoKey}, quote : Nat]
    BY <1>9, <2>1 DEF CacheAndAnswer, Answered, TypeOK
  <2>4. TypeOK'
    BY <1>9, <2>2, <2>3 DEF CacheAndAnswer, TypeOK, ledgerVars
  <2>5. JobsSound' BY <1>9 DEF CacheAndAnswer, JobsSound, TypeOK, Idle, AtOrder
  <2>6. QED BY <2>4, <2>5
<1>10. ASSUME NEW c \in Callers, Refuse(c) PROVE Goal
  BY <1>10, <1>b DEF Refuse, TypeOK, JobsSound, ledgerVars, quoteVars
<1>11. ASSUME NEW c \in Callers, Abort(c) PROVE Goal
  <2>1. healthy' \in [Keys -> BOOLEAN]
    BY <1>11, Zenon DEF Abort, TypeOK
  <2>2. TypeOK' BY <1>11, <2>1 DEF Abort, TypeOK, ledgerVars
  <2>3. JobsSound' BY <1>11 DEF Abort, JobsSound, TypeOK, Idle, AtOrder
  <2>4. QED BY <2>2, <2>3
<1>12. ASSUME NEW k \in Keys, Expire(k) PROVE Goal
  BY <1>12 DEF Expire, TypeOK, JobsSound, ledgerVars
<1>13. ASSUME UNCHANGED vars PROVE Goal
  BY <1>13 DEF vars, ledgerVars, quoteVars, TypeOK, JobsSound
<1>14. QED
  BY <1>1, <1>2, <1>3, <1>4, <1>5, <1>6, <1>7, <1>8, <1>9, <1>10, <1>11, <1>12,
     <1>13 DEF Next, OrderNext, QuoteNext

\* TypeOK holds throughout, for every instance.
THEOREM TypeCorrect == Spec => []TypeOK
<1>1. Init => TypeOK /\ JobsSound BY TypeInit
<1>2. TypeOK /\ JobsSound /\ [Next]_vars => (TypeOK /\ JobsSound)'
  BY TypeStep
<1>3. QED BY <1>1, <1>2, PTL DEF Spec

(***************************************************************************)
(* The ledger: stock, orders and announcements.  A call that holds a copy  *)
(* knows what the stock will be as long as it is the only one; a call that *)
(* has written the stock has paid for its order; a call that has saved its *)
(* order may announce it.                                                  *)
(***************************************************************************)

Held ==
  orderly => \A c \in Callers : job[c].at = "consumed" =>
    /\ job[c].left + job[c].quantity * Unit = stock
    /\ \A d \in Callers : job[d].at = "consumed" => d = c

Paid == \A c \in Callers :
  job[c].at = "stocked" => job[c].quantity <= paid[job[c].order]

Saved == \A c \in Callers : job[c].at = "saved" => orders[job[c].order] # NoOrder

LedgerInv ==
  /\ NoOverdraft
  /\ StockAccounted
  /\ Held
  /\ SavedIsPaid
  /\ Paid
  /\ AnnouncedIsSaved
  /\ Saved

\* A step of a quote, or one that ends a call, is no step of the ledger.
OrderStutter ==
  /\ UNCHANGED ledgerVars
  /\ \A d \in Callers : job'[d].at \in AtOrder => job'[d] = job[d]

LEMMA LedgerStutter == LedgerInv /\ OrderStutter => LedgerInv'
<1> SUFFICES ASSUME LedgerInv, OrderStutter PROVE LedgerInv' OBVIOUS
<1>1. UNCHANGED <<stock, orders, events, paid, used, orderly>>
  BY DEF OrderStutter, ledgerVars
<1>2. /\ NoOverdraft' /\ StockAccounted' /\ SavedIsPaid' /\ AnnouncedIsSaved'
  BY <1>1 DEF LedgerInv, NoOverdraft, StockAccounted, SavedIsPaid,
              AnnouncedIsSaved
<1>3. Held' BY <1>1 DEF LedgerInv, Held, OrderStutter, AtOrder
<1>4. Paid' /\ Saved' BY <1>1 DEF LedgerInv, Paid, Saved, OrderStutter, AtOrder
<1>5. QED BY <1>2, <1>3, <1>4 DEF LedgerInv

LEMMA LedgerInit == Init => LedgerInv
<1>1. SUFFICES ASSUME Init PROVE LedgerInv OBVIOUS
<1>2. NoOverdraft /\ StockAccounted
  BY <1>1, ProcurementAssumption DEF Init, NoOverdraft, StockAccounted
<1>3. Held /\ Paid /\ Saved BY <1>1 DEF Init, Held, Paid, Saved, Idle
<1>4. SavedIsPaid /\ AnnouncedIsSaved
  BY <1>1 DEF Init, SavedIsPaid, AnnouncedIsSaved
<1>5. QED BY <1>2, <1>3, <1>4 DEF LedgerInv

\* Taking from a copy: the copy is the stock, and the call is the only holder
\* if the behaviour is still orderly.
LEMMA LedgerTake ==
  ASSUME TypeOK, LedgerInv, NEW c \in Callers, NEW o \in OrderIds,
         NEW q \in Quantities, TakeFromCopy(c, o, q)
  PROVE  LedgerInv'
<1> DEFINE j == [at |-> "consumed", order |-> o, quantity |-> q,
                 left |-> Remaining(stock, q)]
<1>1. /\ job' = [job EXCEPT ![c] = j]
      /\ UNCHANGED <<stock, orders, events, paid, used>>
      /\ orderly' = (orderly /\ \A d \in Callers : job[d].at # "consumed")
  BY DEF TakeFromCopy
<1>2. /\ job'[c] = j
      /\ \A d \in Callers : d # c => job'[d] = job[d]
  BY <1>1 DEF TypeOK
<1>3. NoOverdraft' /\ StockAccounted' /\ SavedIsPaid' /\ AnnouncedIsSaved'
  BY <1>1 DEF LedgerInv, NoOverdraft, StockAccounted, SavedIsPaid,
              AnnouncedIsSaved
<1>4. Held'
  <2>1. j.left + j.quantity * Unit = stock
    BY ProcurementAssumption DEF Remaining, TypeOK
  <2>2. orderly' => \A d \in Callers : job'[d].at = "consumed" => d = c
    BY <1>1, <1>2
  <2>3. QED BY <1>1, <1>2, <2>1, <2>2 DEF Held
<1>5. Paid' /\ Saved' BY <1>1, <1>2 DEF LedgerInv, Paid, Saved
<1>6. QED BY <1>3, <1>4, <1>5 DEF LedgerInv

\* Writing the stock: of an only holder it is exactly the order's consumption.
LEMMA LedgerUpdate ==
  ASSUME TypeOK, JobsSound, LedgerInv, NEW c \in Callers, UpdateStock(c)
  PROVE  LedgerInv'
<1> DEFINE o == job[c].order  q == job[c].quantity
<1>1. /\ job[c] \in OrderJobs /\ o \in OrderIds
      /\ job[c].left \in Int /\ job[c].left >= 0
      /\ q \in Nat
  BY JobFields DEF UpdateStock, JobsSound, AtOrder
<1>2. /\ job[c].at = "consumed"
      /\ stock' = job[c].left
      /\ paid' = [paid EXCEPT ![o] = @ + q]
      /\ used' = used + q
      /\ job' = [job EXCEPT ![c].at = "stocked"]
      /\ UNCHANGED <<orders, events, orderly>>
  BY DEF UpdateStock
<1>3. /\ job'[c].at = "stocked" /\ job'[c].order = o /\ job'[c].quantity = q
      /\ \A d \in Callers : d # c => job'[d] = job[d]
  BY <1>1, <1>2 DEF TypeOK, OrderJobs
<1>4. /\ paid'[o] = paid[o] + q
      /\ \A p \in OrderIds :
           paid[p] \in Nat /\ paid'[p] \in Nat /\ paid'[p] >= paid[p]
  <2>1. \A p \in OrderIds : paid[p] \in Nat /\ paid[p] + q >= paid[p]
    BY <1>1 DEF TypeOK
  <2>2. \A p \in OrderIds : paid'[p] = IF p = o THEN paid[p] + q ELSE paid[p]
    BY <1>1, <1>2, Zenon DEF TypeOK
  <2> HIDE DEF o, q
  <2>3. QED BY <1>1, <2>1, <2>2
<1>5. NoOverdraft' BY <1>1, <1>2 DEF NoOverdraft
<1>6. StockAccounted'
  <2>1. SUFFICES ASSUME orderly PROVE stock' + used' * Unit = InitialStock
    BY <1>2 DEF StockAccounted
  <2>2. job[c].left + q * Unit = stock
    BY <1>2, <2>1 DEF LedgerInv, Held
  <2>3. stock + used * Unit = InitialStock
    BY <2>1 DEF LedgerInv, StockAccounted
  <2>4. (used + q) * Unit = used * Unit + q * Unit
    BY <1>1, ProcurementAssumption DEF TypeOK
  <2>5. used * Unit \in Int /\ q * Unit \in Int
    BY <1>1, ProcurementAssumption DEF TypeOK
  <2> HIDE DEF q
  <2>6. QED BY <1>1, <1>2, <2>2, <2>3, <2>4, <2>5 DEF TypeOK
<1>7. Held'
  BY <1>2, <1>3 DEF LedgerInv, Held
<1>8. SavedIsPaid'
  <2>1. ASSUME NEW p \in OrderIds, orders[p] # NoOrder
        PROVE  orders[p] <= paid'[p]
    <3>1. orders[p] \in Int
      BY <2>1, ProcurementAssumption DEF TypeOK
    <3>2. orders[p] <= paid[p] BY <2>1 DEF LedgerInv, SavedIsPaid
    <3>3. QED BY <1>4, <3>1, <3>2
  <2>2. QED BY <1>2, <2>1 DEF SavedIsPaid
<1>9. Paid'
  <2>1. ASSUME NEW d \in Callers, job'[d].at = "stocked"
        PROVE  job'[d].quantity <= paid'[job'[d].order]
    <3>1. CASE d = c
      BY <1>1, <1>3, <1>4, <3>1
    <3>2. CASE d # c
      <4>1. /\ job[d].at = "stocked" /\ job'[d] = job[d]
            /\ job[d].order \in OrderIds /\ job[d].quantity \in Int
        BY <1>3, <2>1, <3>2, JobFields DEF AtOrder
      <4>2. job[d].quantity <= paid[job[d].order]
        BY <4>1 DEF LedgerInv, Paid
      <4>3. paid[job[d].order] <= paid'[job[d].order] BY <1>4, <4>1
      <4>4. QED BY <1>4, <4>1, <4>2, <4>3
    <3>3. QED BY <3>1, <3>2
  <2>2. QED BY <2>1 DEF Paid
<1>10. AnnouncedIsSaved' /\ Saved'
  BY <1>2, <1>3 DEF LedgerInv, AnnouncedIsSaved, Saved
<1>11. QED BY <1>5, <1>6, <1>7, <1>8, <1>9, <1>10 DEF LedgerInv

\* Saving: the order is paid for.
LEMMA LedgerSave ==
  ASSUME TypeOK, LedgerInv, NEW c \in Callers, SaveOrder(c)
  PROVE  LedgerInv'
<1> DEFINE o == job[c].order  q == job[c].quantity
<1>1. /\ job[c] \in OrderJobs /\ o \in OrderIds /\ q \in Int
  BY JobFields DEF SaveOrder, AtOrder
<1>2. /\ job[c].at = "stocked"
      /\ orders' = [orders EXCEPT ![o] = q]
      /\ job' = [job EXCEPT ![c].at = "saved"]
      /\ UNCHANGED <<stock, events, paid, used, orderly>>
  BY DEF SaveOrder
<1>3. /\ job'[c].at = "saved" /\ job'[c].order = o
      /\ \A d \in Callers : d # c => job'[d] = job[d]
  BY <1>1, <1>2 DEF TypeOK, OrderJobs
<1>4. /\ orders'[o] = q /\ q # NoOrder
      /\ \A p \in OrderIds : p # o => orders'[p] = orders[p]
  BY <1>1, <1>2, ProcurementAssumption DEF TypeOK
<1>5. NoOverdraft' /\ StockAccounted'
  BY <1>2 DEF LedgerInv, NoOverdraft, StockAccounted
<1>6. Held' BY <1>2, <1>3 DEF LedgerInv, Held
<1>7. Paid' BY <1>2, <1>3 DEF LedgerInv, Paid
<1>8. SavedIsPaid'
  BY <1>1, <1>2, <1>4 DEF LedgerInv, Paid, SavedIsPaid
<1>9. AnnouncedIsSaved' /\ Saved'
  <2>1. \A p \in OrderIds : orders[p] # NoOrder => orders'[p] # NoOrder
    BY <1>4
  <2>2. AnnouncedIsSaved'
    BY <1>2, <2>1 DEF LedgerInv, AnnouncedIsSaved, TypeOK
  <2>3. ASSUME NEW d \in Callers, job'[d].at = "saved"
        PROVE  orders'[job'[d].order] # NoOrder
    <3>1. CASE d = c BY <1>3, <1>4, <3>1
    <3>2. CASE d # c
      BY <1>3, <2>1, <2>3, <3>2, JobFields DEF LedgerInv, Saved, AtOrder
    <3>3. QED BY <3>1, <3>2
  <2>4. QED BY <2>2, <2>3 DEF Saved
<1>10. QED BY <1>5, <1>6, <1>7, <1>8, <1>9 DEF LedgerInv

\* Announcing: the order is saved.
LEMMA LedgerDispatch ==
  ASSUME TypeOK, LedgerInv, NEW c \in Callers, Dispatch(c)
  PROVE  LedgerInv'
<1>1. /\ job[c].at = "saved" /\ job' = [job EXCEPT ![c] = Idle]
      /\ \/ events' = events \cup {[order |-> job[c].order,
                                     quantity |-> job[c].quantity]}
         \/ UNCHANGED events
      /\ UNCHANGED <<stock, orders, paid, used, orderly>>
  BY DEF Dispatch
<1>2. \A d \in Callers : job'[d].at \in AtOrder => job'[d] = job[d]
  BY <1>1 DEF TypeOK, Idle, AtOrder
<1>3. NoOverdraft' /\ StockAccounted' /\ SavedIsPaid'
  BY <1>1 DEF LedgerInv, NoOverdraft, StockAccounted, SavedIsPaid
<1>4. Held' /\ Paid' /\ Saved'
  BY <1>1, <1>2 DEF LedgerInv, Held, Paid, Saved, AtOrder
<1>5. AnnouncedIsSaved'
  BY <1>1 DEF LedgerInv, Saved, AnnouncedIsSaved
<1>6. QED BY <1>3, <1>4, <1>5 DEF LedgerInv

\* Every other action is no step of the ledger.
LEMMA OtherSteps ==
  ASSUME TypeOK,
         \/ \E c \in Callers :
              \/ \E q \in Quantities : RejectOrder(c, q)
              \/ QuoteNext(c) \/ Refuse(c) \/ Abort(c)
         \/ \E k \in Keys : Expire(k)
         \/ UNCHANGED vars
  PROVE  OrderStutter
<1>1. ASSUME UNCHANGED <<job, ledgerVars>> PROVE OrderStutter
  BY <1>1 DEF OrderStutter
<1>2. ASSUME NEW c \in Callers, UNCHANGED ledgerVars,
             NEW j, job' = [job EXCEPT ![c] = j], j.at \notin AtOrder
      PROVE  OrderStutter
  BY <1>2 DEF OrderStutter, TypeOK
<1>3. Idle.at \notin AtOrder BY DEF Idle, AtOrder
<1>4. ASSUME NEW c \in Callers, NEW k \in Keys \cup {NoKey},
             NEW broken \in BOOLEAN, CacheMiss(c, k, broken)
      PROVE  OrderStutter
  <2>1. [at |-> "missed", key |-> k, quote |-> 0].at \notin AtOrder
    BY DEF AtOrder
  <2>2. QED BY <1>2, <1>4, <2>1 DEF CacheMiss
<1>5. ASSUME NEW c \in Callers, StoreQuote(c) PROVE OrderStutter
  <2>1. job[c] \in QuoteJobs
    BY <1>5, JobFields DEF StoreQuote, AtQuote
  <2>2. job'[c].at = "stored" /\ \A d \in Callers : d # c => job'[d] = job[d]
    BY <1>5, <2>1 DEF StoreQuote, QuoteJobs, TypeOK
  <2>3. QED BY <1>5, <2>2 DEF StoreQuote, OrderStutter, AtOrder
<1>6. ASSUME NEW c \in Callers, QuoteNext(c) PROVE OrderStutter
  BY <1>1, <1>2, <1>3, <1>4, <1>5, <1>6
  DEF QuoteNext, QuoteFromCache, CacheAndAnswer
<1>7. QED
  BY <1>1, <1>2, <1>3, <1>6
  DEF RejectOrder, Refuse, Abort, Expire, vars

LEMMA LedgerStep ==
  TypeOK /\ JobsSound /\ LedgerInv /\ [Next]_vars => LedgerInv'
  BY LedgerTake, LedgerUpdate, LedgerSave, LedgerDispatch, OtherSteps,
     LedgerStutter
  DEF Next, OrderNext

LEMMA Ledger == Spec => [](TypeOK /\ JobsSound /\ LedgerInv)
<1>1. Init => TypeOK /\ JobsSound /\ LedgerInv BY TypeInit, LedgerInit
<1>2. TypeOK /\ JobsSound /\ LedgerInv /\ [Next]_vars
        => (TypeOK /\ JobsSound /\ LedgerInv)'
  BY TypeStep, LedgerStep
<1>3. QED BY <1>1, <1>2, PTL DEF Spec

\* The stock never goes below zero, however the orders interleave.
THEOREM NeverOverdrawn == Spec => []NoOverdraft
  BY Ledger, PTL DEF LedgerInv

\* While reads and writes of the stock do not interleave, what is left and what
\* was used make up the initial stock, failures included.
THEOREM Accounted == Spec => []StockAccounted
  BY Ledger, PTL DEF LedgerInv

\* A saved order has used the material of its whole quantity.
THEOREM OrdersPaid == Spec => []SavedIsPaid
  BY Ledger, PTL DEF LedgerInv

\* Only saved orders are announced.
THEOREM AnnouncementsTrue == Spec => []AnnouncedIsSaved
  BY Ledger, PTL DEF LedgerInv

(***************************************************************************)
(* Quotes: what is cached, and what a call is about to cache and answer,   *)
(* is saved under the key.  With calls of a key apart and nothing failing, *)
(* its quote is in the cache or on its way there, and a call that missed   *)
(* the cache is the first of its key.                                      *)
(***************************************************************************)

Has(k, i) == i \in 1 .. Len(quotes) /\ quotes[i] = k

CacheSaved == \A k \in Keys : cache[k] # 0 => Has(k, cache[k])

StoredSaved == \A c \in Callers : job[c].at = "stored" => Has(job[c].key, job[c].quote)

Answers == \A a \in answers : Has(a.key, a.quote)

QuotesSaved == CacheSaved /\ StoredSaved /\ Answers

Asks(c, k) == job[c].at \in AtQuote /\ job[c].key = k

KeyInv(k) ==
  /\ \A i \in 1 .. Len(quotes) : quotes[i] = k =>
       \/ cache[k] = i
       \/ \E c \in Callers : job[c].at = "stored" /\ job[c].key = k /\ job[c].quote = i
  /\ \A c, d \in Callers : Asks(c, k) /\ Asks(d, k) => c = d
  /\ \A c \in Callers : job[c].at = "missed" /\ job[c].key = k =>
       \A i \in 1 .. Len(quotes) : quotes[i] # k
  /\ \A i, j \in 1 .. Len(quotes) : quotes[i] = k /\ quotes[j] = k => i = j

KeysInv == \A k \in Keys : healthy[k] /\ apart[k] => KeyInv(k)

QuoteInv == QuotesSaved /\ KeysInv

\* A step of an order, or one that leaves no trace, is no step of the quotes.
QuoteStutter ==
  /\ UNCHANGED quoteVars
  /\ \A d \in Callers :
       job'[d].at \in AtQuote \/ job[d].at \in AtQuote => job'[d] = job[d]

LEMMA QuoteStutters == QuoteInv /\ QuoteStutter => QuoteInv'
<1> SUFFICES ASSUME QuoteInv, QuoteStutter PROVE QuoteInv' OBVIOUS
<1>1. UNCHANGED <<quotes, cache, answers, healthy, apart>>
  BY DEF QuoteStutter, quoteVars
<1>2. \A d \in Callers :
        job'[d].at \in AtQuote \/ job[d].at \in AtQuote => job'[d] = job[d]
  BY DEF QuoteStutter
<1>3. CacheSaved' /\ Answers'
  BY <1>1 DEF QuoteInv, QuotesSaved, CacheSaved, Answers, Has
<1>4. StoredSaved'
  BY <1>1, <1>2 DEF QuoteInv, QuotesSaved, StoredSaved, Has, AtQuote
<1>5. ASSUME NEW k \in Keys, KeyInv(k) PROVE KeyInv(k)'
  BY <1>1, <1>2, <1>5 DEF KeyInv, Asks, AtQuote
<1>6. KeysInv' BY <1>1, <1>5 DEF QuoteInv, KeysInv
<1>7. QED BY <1>3, <1>4, <1>6 DEF QuoteInv, QuotesSaved

LEMMA QuoteInit == Init => QuoteInv
<1> SUFFICES ASSUME Init PROVE QuoteInv OBVIOUS
<1>1. \A i \in 1 .. Len(quotes) : FALSE BY DEF Init
<1>2. QuotesSaved
  BY DEF Init, QuotesSaved, CacheSaved, StoredSaved, Answers, Idle
<1>3. KeysInv BY <1>1 DEF Init, KeysInv, KeyInv, Asks, Idle, AtQuote
<1>4. QED BY <1>2, <1>3 DEF QuoteInv

LEMMA OrderSteps ==
  ASSUME TypeOK,
         \/ \E c \in Callers : OrderNext(c) \/ Refuse(c)
         \/ UNCHANGED vars
  PROVE  QuoteStutter
<1>1. ASSUME UNCHANGED <<job, quoteVars>> PROVE QuoteStutter
  BY <1>1 DEF QuoteStutter
<1>2. ASSUME NEW c \in Callers, NEW o \in OrderIds, NEW q \in Quantities,
             TakeFromCopy(c, o, q)
      PROVE  QuoteStutter
  <2> DEFINE j == [at |-> "consumed", order |-> o, quantity |-> q,
                   left |-> Remaining(stock, q)]
  <2>1. job' = [job EXCEPT ![c] = j] /\ job[c] = Idle /\ UNCHANGED quoteVars
    BY <1>2 DEF TakeFromCopy, Begin
  <2>2. j.at \notin AtQuote /\ Idle.at \notin AtQuote BY DEF AtQuote, Idle
  <2>3. QED BY <2>1, <2>2 DEF QuoteStutter, TypeOK
<1>3. ASSUME NEW c \in Callers, UpdateStock(c) \/ SaveOrder(c)
      PROVE  QuoteStutter
  <2>1. job[c] \in OrderJobs /\ job[c].at \notin AtQuote
    BY <1>3, JobFields DEF UpdateStock, SaveOrder, AtOrder, AtQuote
  <2>2. /\ job'[c].at \notin AtQuote
        /\ \A d \in Callers : d # c => job'[d] = job[d]
    BY <1>3, <2>1 DEF UpdateStock, SaveOrder, OrderJobs, TypeOK, AtQuote
  <2>3. QED BY <1>3, <2>1, <2>2 DEF QuoteStutter, UpdateStock, SaveOrder
<1>4. ASSUME NEW c \in Callers, Dispatch(c) PROVE QuoteStutter
  <2>1. job[c].at \notin AtQuote /\ Idle.at \notin AtQuote
    BY <1>4 DEF Dispatch, AtQuote, Idle
  <2>2. QED BY <1>4, <2>1 DEF Dispatch, QuoteStutter, TypeOK
<1>5. QED
  BY <1>1, <1>2, <1>3, <1>4 DEF OrderNext, RejectOrder, Refuse, vars

LEMMA QuoteHit ==
  ASSUME TypeOK, QuoteInv, NEW c \in Callers, NEW k \in Keys,
         QuoteFromCache(c, k)
  PROVE  QuoteInv'
<1>1. /\ cache[k] # 0 /\ UNCHANGED <<job, quotes, cache, healthy, apart>>
      /\ answers' = answers \cup {[key |-> k, quote |-> cache[k]]}
  BY DEF QuoteFromCache, Answered
<1>2. CacheSaved' /\ StoredSaved'
  BY <1>1 DEF QuoteInv, QuotesSaved, CacheSaved, StoredSaved, Has
<1>3. Answers'
  BY <1>1 DEF QuoteInv, QuotesSaved, CacheSaved, Answers, Has
<1>4. KeysInv' BY <1>1 DEF QuoteInv, KeysInv, KeyInv, Asks
<1>5. QED BY <1>2, <1>3, <1>4 DEF QuoteInv, QuotesSaved

LEMMA QuoteMiss ==
  ASSUME TypeOK, QuoteInv, NEW c \in Callers, NEW k \in Keys \cup {NoKey},
         NEW broken \in BOOLEAN, CacheMiss(c, k, broken)
  PROVE  QuoteInv'
<1> DEFINE j == [at |-> "missed", key |-> k, quote |-> 0]
<1>1. /\ job' = [job EXCEPT ![c] = j]
      /\ job[c] = Idle
      /\ UNCHANGED <<quotes, cache, answers>>
  BY DEF CacheMiss, Begin
<1>2. /\ job'[c] = j /\ job[c].at \notin AtQuote
      /\ \A d \in Callers : d # c => job'[d] = job[d]
  BY <1>1 DEF TypeOK, Idle, AtQuote
<1>3. CacheSaved' /\ Answers'
  BY <1>1 DEF QuoteInv, QuotesSaved, CacheSaved, Answers, Has
<1>4. StoredSaved'
  BY <1>1, <1>2 DEF QuoteInv, QuotesSaved, StoredSaved, Has
<1>5. ASSUME NEW m \in Keys, healthy'[m], apart'[m] PROVE KeyInv(m)'
  <2>1. CASE m # k
    <3>1. healthy[m] /\ apart[m]
      BY <1>5, <2>1 DEF CacheMiss, TypeOK
    <3>2. KeyInv(m) BY <3>1 DEF QuoteInv, KeysInv
    <3>3. \A d \in Callers :
            /\ Asks(d, m)' <=> Asks(d, m)
            /\ Asks(d, m) => job'[d] = job[d]
      BY <1>2, <2>1 DEF Asks, AtQuote
    <3>4. QED BY <1>1, <3>2, <3>3 DEF KeyInv, Asks, AtQuote
  <2>2. CASE m = k
    <3>1. /\ healthy[k] /\ apart[k] /\ ~broken /\ cache[k] = 0
          /\ \A d \in Callers :
               job[d].at \in {"missed", "stored"} => job[d].key # k
      BY <1>5, <2>2, ProcurementAssumption DEF CacheMiss, TypeOK
    <3>2. KeyInv(k) BY <2>2, <3>1 DEF QuoteInv, KeysInv
    <3>3. \A i \in 1 .. Len(quotes) : quotes[i] # k
      BY <3>1, <3>2 DEF KeyInv
    <3>4. \A d \in Callers : Asks(d, k)' => d = c
      BY <1>2, <3>1 DEF Asks, AtQuote
    <3>5. QED BY <1>1, <2>2, <3>3, <3>4 DEF KeyInv, Asks, AtQuote
  <2>3. QED BY <2>1, <2>2
<1>6. QED BY <1>3, <1>4, <1>5 DEF QuoteInv, QuotesSaved, KeysInv

LEMMA QuoteStore ==
  ASSUME TypeOK, QuoteInv, NEW c \in Callers, StoreQuote(c)
  PROVE  QuoteInv'
<1> DEFINE n == Len(quotes) + 1  k == job[c].key
<1>1. /\ job[c] \in QuoteJobs /\ k \in Keys \cup {NoKey}
      /\ job[c].at = "missed"
      /\ quotes' = Append(quotes, k)
      /\ job' = [job EXCEPT ![c].at = "stored", ![c].quote = n]
      /\ UNCHANGED <<cache, answers, healthy, apart>>
  BY JobFields DEF StoreQuote, AtQuote
<1>2. /\ job'[c].at = "stored" /\ job'[c].key = k /\ job'[c].quote = n
      /\ \A d \in Callers : d # c => job'[d] = job[d]
  BY <1>1 DEF TypeOK, QuoteJobs
<1>3. /\ Len(quotes) \in Nat /\ Len(quotes') = n /\ quotes'[n] = k
      /\ \A i \in 1 .. Len(quotes) : quotes'[i] = quotes[i]
      /\ \A i \in 1 .. Len(quotes') : i \in 1 .. Len(quotes) \/ i = n
      /\ n \in 1 .. Len(quotes') /\ n \notin 1 .. Len(quotes)
  BY <1>1 DEF TypeOK
<1> HIDE DEF n, k
<1>4. \A m, i : Has(m, i) => Has(m, i)'
  BY <1>3 DEF Has, n
<1>5. CacheSaved' /\ Answers'
  BY <1>1, <1>4 DEF QuoteInv, QuotesSaved, CacheSaved, Answers
<1>6. StoredSaved'
  <2>1. ASSUME NEW d \in Callers, job'[d].at = "stored"
        PROVE  Has(job[d].key, job[d].quote)'
    <3>1. CASE d = c BY <1>2, <1>3, <3>1 DEF Has
    <3>2. CASE d # c
      BY <1>2, <1>4, <2>1, <3>2 DEF QuoteInv, QuotesSaved, StoredSaved
    <3>3. QED BY <3>1, <3>2
  <2>2. QED BY <2>1 DEF StoredSaved
<1>7. ASSUME NEW m \in Keys, healthy'[m], apart'[m] PROVE KeyInv(m)'
  <2>1. KeyInv(m) BY <1>1, <1>7 DEF QuoteInv, KeysInv
  <2>2. \A d \in Callers : Asks(d, m)' <=> Asks(d, m)
    BY <1>1, <1>2 DEF Asks, AtQuote, k
  <2>3. CASE m # k
    <3>1. \A i \in 1 .. Len(quotes') : quotes'[i] = m =>
            i \in 1 .. Len(quotes) /\ quotes[i] = m
      BY <1>3, <2>3
    <3>2. \A d \in Callers : Asks(d, m) => job'[d] = job[d]
      BY <1>2, <2>3 DEF Asks, k
    <3>3. \A i \in 1 .. Len(quotes) : quotes[i] = m =>
            \/ cache'[m] = i
            \/ \E d \in Callers : /\ job'[d].at = "stored" /\ job'[d].key = m
                                 /\ job'[d].quote = i
      <4>1. \A i \in 1 .. Len(quotes) : quotes[i] = m =>
              \/ cache[m] = i
              \/ \E d \in Callers : /\ job[d].at = "stored" /\ job[d].key = m
                                   /\ job[d].quote = i
        BY <2>1 DEF KeyInv
      <4>2. \A d \in Callers : job[d].at = "stored" => job'[d] = job[d]
        BY <1>1, <1>2
      <4>3. cache' = cache BY <1>1
      <4>4. QED BY <4>1, <4>2, <4>3
    <3>4. \A d \in Callers : job'[d].at = "missed" /\ job'[d].key = m =>
            job[d].at = "missed" /\ job[d].key = m
      BY <1>2
    <3>5. \A d, e \in Callers : Asks(d, m)' /\ Asks(e, m)' => d = e
      BY <2>1, <2>2 DEF KeyInv
    <3>6. QED BY <2>1, <3>1, <3>3, <3>4, <3>5 DEF KeyInv
  <2>4. CASE m = k
    <3>1. \A i \in 1 .. Len(quotes) : quotes[i] # k
      BY <1>1, <2>1, <2>4 DEF KeyInv, k
    <3>2. \A i \in 1 .. Len(quotes') : quotes'[i] = k => i = n
      BY <1>3, <3>1
    <3>3. \A d \in Callers : Asks(d, m)' => d = c
      BY <1>1, <2>1, <2>2, <2>4 DEF KeyInv, Asks, AtQuote, k
    <3>4. /\ \A i \in 1 .. Len(quotes') : quotes'[i] = m =>
               job'[c].at = "stored" /\ job'[c].key = m /\ job'[c].quote = i
          /\ \A i, j \in 1 .. Len(quotes') :
               quotes'[i] = m /\ quotes'[j] = m => i = j
      BY <1>2, <2>4, <3>2
    <3>5. \A d \in Callers : ~(job'[d].at = "missed" /\ job'[d].key = m)
      BY <1>2, <3>3 DEF Asks, AtQuote
    <3>6. QED BY <3>3, <3>4, <3>5 DEF KeyInv
  <2>5. QED BY <2>3, <2>4
<1>8. QED BY <1>5, <1>6, <1>7 DEF QuoteInv, QuotesSaved, KeysInv

LEMMA QuoteAnswer ==
  ASSUME TypeOK, QuoteInv, NEW c \in Callers, CacheAndAnswer(c)
  PROVE  QuoteInv'
<1> DEFINE n == job[c].quote  k == job[c].key
<1>1. /\ job[c].at = "stored" /\ k \in Keys \cup {NoKey}
      /\ job' = [job EXCEPT ![c] = Idle]
      /\ answers' = answers \cup {[key |-> k, quote |-> n]}
      /\ UNCHANGED <<quotes, apart>>
  BY JobFields DEF CacheAndAnswer, Answered, AtQuote
<1>2. /\ \A m \in Keys : m # k => cache'[m] = cache[m] /\ healthy'[m] = healthy[m]
      /\ \A m \in Keys : cache'[m] = cache[m] \/ (m = k /\ cache'[m] = n)
      /\ \A m \in Keys : healthy'[m] => healthy[m]
      /\ \A m \in Keys : m = k /\ healthy'[m] => cache'[m] = n
  <2>1. cache \in [Keys -> Nat] /\ healthy \in [Keys -> BOOLEAN]
    BY DEF TypeOK
  <2>2. CASE /\ k # NoKey
             /\ cache' = [cache EXCEPT ![k] = n]
             /\ UNCHANGED healthy
    BY <1>1, <2>1, <2>2
  <2>3. CASE /\ k # NoKey
             /\ healthy' = [healthy EXCEPT ![k] = FALSE]
             /\ UNCHANGED cache
    BY <1>1, <2>1, <2>3
  <2>4. CASE k = NoKey /\ UNCHANGED <<cache, healthy>>
    BY <2>4, ProcurementAssumption
  <2>5. QED BY <2>2, <2>3, <2>4 DEF CacheAndAnswer
<1>3. /\ job'[c] = Idle
      /\ \A d \in Callers : d # c => job'[d] = job[d]
  BY <1>1 DEF TypeOK
<1>4. /\ Idle.at \notin AtQuote /\ Idle.at # "stored" /\ Idle.at # "missed"
  BY DEF AtQuote, Idle
<1>5. Has(k, n) BY <1>1 DEF QuoteInv, QuotesSaved, StoredSaved
<1> HIDE DEF n, k
<1>6. CacheSaved'
  BY <1>1, <1>2, <1>5 DEF QuoteInv, QuotesSaved, CacheSaved, Has
<1>7. StoredSaved'
  BY <1>1, <1>3, <1>4 DEF QuoteInv, QuotesSaved, StoredSaved, Has
<1>8. Answers'
  BY <1>1, <1>5 DEF QuoteInv, QuotesSaved, Answers, Has
<1>9. ASSUME NEW m \in Keys, healthy'[m], apart'[m] PROVE KeyInv(m)'
  <2>1. KeyInv(m) BY <1>1, <1>2, <1>9 DEF QuoteInv, KeysInv
  <2>2. \A d \in Callers : job'[d].at \in AtQuote => job'[d] = job[d]
    BY <1>3, <1>4
  <2>3. \A i \in 1 .. Len(quotes) : quotes[i] = m =>
          \/ cache'[m] = i
          \/ \E d \in Callers : /\ job'[d].at = "stored" /\ job'[d].key = m
                               /\ job'[d].quote = i
    <3>1. CASE m = k
      <4>1. n \in 1 .. Len(quotes) /\ quotes[n] = m BY <1>5, <3>1 DEF Has
      <4>2. \A i \in 1 .. Len(quotes) : quotes[i] = m => i = n
        BY <2>1, <4>1 DEF KeyInv
      <4>3. QED BY <1>2, <1>9, <3>1, <4>2
    <3>2. CASE m # k
      <4>1. \A d \in Callers : job[d].at = "stored" /\ job[d].key = m =>
              job'[d] = job[d]
        BY <1>3, <3>2 DEF k
      <4>2. \A i \in 1 .. Len(quotes) : quotes[i] = m =>
              \/ cache[m] = i
              \/ \E d \in Callers : /\ job[d].at = "stored" /\ job[d].key = m
                                   /\ job[d].quote = i
        BY <2>1 DEF KeyInv
      <4>3. QED BY <1>2, <3>2, <4>1, <4>2
    <3>3. QED BY <3>1, <3>2
  <2>4. \A d, e \in Callers : Asks(d, m)' /\ Asks(e, m)' => d = e
    BY <2>1, <2>2 DEF KeyInv, Asks
  <2>5. \A d \in Callers : job'[d].at = "missed" /\ job'[d].key = m =>
          \A i \in 1 .. Len(quotes) : quotes[i] # m
    BY <2>1, <2>2 DEF KeyInv, AtQuote
  <2>6. QED BY <1>1, <2>1, <2>3, <2>4, <2>5 DEF KeyInv
<1>10. QED BY <1>6, <1>7, <1>8, <1>9 DEF QuoteInv, QuotesSaved, KeysInv

LEMMA QuoteAbort ==
  ASSUME TypeOK, QuoteInv, NEW c \in Callers, Abort(c)
  PROVE  QuoteInv'
<1>1. /\ job' = [job EXCEPT ![c] = Idle]
      /\ UNCHANGED <<quotes, cache, answers, apart>>
      /\ healthy' = [k \in Keys |->
           healthy[k] /\ ~(job[c].at = "stored" /\ job[c].key = k)]
  BY DEF Abort
<1>2. /\ job'[c] = Idle
      /\ \A d \in Callers : d # c => job'[d] = job[d]
  BY <1>1 DEF TypeOK
<1>3. Idle.at \notin AtQuote /\ Idle.at # "stored" /\ Idle.at # "missed"
  BY DEF AtQuote, Idle
<1>4. CacheSaved' /\ Answers'
  BY <1>1 DEF QuoteInv, QuotesSaved, CacheSaved, Answers, Has
<1>5. StoredSaved'
  BY <1>1, <1>2, <1>3 DEF QuoteInv, QuotesSaved, StoredSaved, Has
<1>6. ASSUME NEW m \in Keys, healthy'[m], apart'[m] PROVE KeyInv(m)'
  <2>1. healthy[m] /\ ~(job[c].at = "stored" /\ job[c].key = m)
    BY <1>1, <1>6
  <2>2. KeyInv(m) BY <1>1, <1>6, <2>1 DEF QuoteInv, KeysInv
  <2>3. \A d \in Callers : job'[d].at \in AtQuote => job'[d] = job[d]
    BY <1>2, <1>3
  <2>4. \A d \in Callers : job[d].at = "stored" /\ job[d].key = m =>
          job'[d] = job[d]
    BY <1>2, <2>1
  <2>5. \A i \in 1 .. Len(quotes) : quotes[i] = m =>
          \/ cache[m] = i
          \/ \E d \in Callers : /\ job[d].at = "stored" /\ job[d].key = m
                               /\ job[d].quote = i
    BY <2>2 DEF KeyInv
  <2>6. \A i \in 1 .. Len(quotes) : quotes[i] = m =>
          \/ cache[m] = i
          \/ \E d \in Callers : /\ job'[d].at = "stored" /\ job'[d].key = m
                               /\ job'[d].quote = i
    BY <2>4, <2>5
  <2>7. \A d, e \in Callers : Asks(d, m)' /\ Asks(e, m)' => d = e
    BY <2>2, <2>3 DEF KeyInv, Asks
  <2>8. \A d \in Callers : job'[d].at = "missed" /\ job'[d].key = m =>
          \A i \in 1 .. Len(quotes) : quotes[i] # m
    BY <2>2, <2>3 DEF KeyInv, AtQuote
  <2>9. QED BY <1>1, <2>2, <2>6, <2>7, <2>8 DEF KeyInv
<1>7. QED BY <1>4, <1>5, <1>6 DEF QuoteInv, QuotesSaved, KeysInv

LEMMA QuoteExpire ==
  ASSUME TypeOK, QuoteInv, NEW k \in Keys, Expire(k)
  PROVE  QuoteInv'
<1>1. /\ cache' = [cache EXCEPT ![k] = 0]
      /\ healthy' = [healthy EXCEPT ![k] = FALSE]
      /\ UNCHANGED <<job, quotes, answers, apart>>
  BY DEF Expire
<1>2. /\ cache'[k] = 0 /\ ~healthy'[k]
      /\ \A m \in Keys : m # k => cache'[m] = cache[m] /\ healthy'[m] = healthy[m]
  BY <1>1 DEF TypeOK
<1>3. QuotesSaved'
  BY <1>1, <1>2
  DEF QuoteInv, QuotesSaved, CacheSaved, StoredSaved, Answers, Has
<1>4. KeysInv' BY <1>1, <1>2 DEF QuoteInv, KeysInv, KeyInv, Asks
<1>5. QED BY <1>3, <1>4 DEF QuoteInv

LEMMA QuoteStep == TypeOK /\ QuoteInv /\ [Next]_vars => QuoteInv'
  BY OrderSteps, QuoteStutters, QuoteHit, QuoteMiss, QuoteStore, QuoteAnswer,
     QuoteAbort, QuoteExpire
  DEF Next, QuoteNext

LEMMA Quoted == Spec => [](TypeOK /\ JobsSound /\ QuoteInv)
<1>1. Init => TypeOK /\ JobsSound /\ QuoteInv BY TypeInit, QuoteInit
<1>2. TypeOK /\ JobsSound /\ QuoteInv /\ [Next]_vars
        => (TypeOK /\ JobsSound /\ QuoteInv)'
  BY TypeStep, QuoteStep
<1>3. QED BY <1>1, <1>2, PTL DEF Spec

\* Every answer is a saved quote of its key.
THEOREM AnswersTrue == Spec => []AnsweredIsSaved
<1>1. QuoteInv => AnsweredIsSaved
  BY DEF QuoteInv, QuotesSaved, Answers, Has, AnsweredIsSaved
<1>2. QED BY <1>1, Quoted, PTL

\* Calls of a key apart, a cache that works and no death: one quote per key.
THEOREM KeyWorks == Spec => []OneQuotePerKey
<1>1. QuoteInv => OneQuotePerKey
  BY DEF QuoteInv, KeysInv, KeyInv, OneQuotePerKey
<1>2. QED BY <1>1, Quoted, PTL

\* The stock is never negative, and accounted for while its reads and writes do not
\* interleave.
THEOREM StockStaysSound == Spec => []StockSound
  BY NeverOverdrawn, Accounted, PTL DEF StockSound

\* Whatever fails, what is saved, announced and answered agrees.
THEOREM RecordsAlwaysAgree == Spec => []RecordsAgree
  BY OrdersPaid, AnnouncementsTrue, AnswersTrue, PTL DEF RecordsAgree

================================================================================
