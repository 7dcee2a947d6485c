------------------------------ MODULE Procurement ------------------------------
(***************************************************************************)
(* The procurement commands of kpi_b2b: several callers, each a request    *)
(* thread inside ProcurementCommandFacade, place production orders that    *)
(* eat into one material's stock and ask for turnkey quotes under an       *)
(* idempotency key.                                                        *)
(*                                                                         *)
(* The repositories, the quote gateway and the cache are ports, so every   *)
(* call of one is a point where another caller may run, where the call may *)
(* raise, or where the process may die.  Each action below goes from one   *)
(* such call to the next.  Abort is a port call that raises, and a death   *)
(* of the process; a port that raises after it has committed is the        *)
(* successful step followed by Abort.                                      *)
(***************************************************************************)
EXTENDS Integers, Sequences

CONSTANTS Callers,       \* request threads
          OrderIds,      \* order_id of the requests
          Quantities,    \* target_quantity of the requests, invalid ones too
          Unit,          \* unit_per_product of the material
          InitialStock,  \* available_stock when the system starts
          Keys,          \* idempotency keys
          NoKey,         \* a quote asked for without a key
          NoOrder,       \* an order_id nothing is saved under
          MaxCalls       \* bound: calls made in a behaviour

ASSUME ProcurementAssumption ==
  /\ Quantities \subseteq Int
  /\ Unit \in Nat \ {0}
  /\ InitialStock \in Nat
  /\ MaxCalls \in Nat
  /\ NoKey \notin Keys
  /\ NoOrder \notin Int

VARIABLES job,        \* job[c]: what the call of c is doing, and its locals
          stock,      \* available_stock as the inventory repository holds it
          orders,     \* orders[o]: target_quantity of the order saved under o
          events,     \* orders announced on procurement.order.dispatched
          quotes,     \* the saved quotes, in order: the key each was made for
          cache,      \* cache[k]: the quote the idempotency store holds, 0: none
          answers,    \* quotes given to callers, with the key they asked under
          calls,      \* calls made so far
          paid,       \* history: paid[o]: products whose material o has used
          used,       \* history: the same, of all orders together
          orderly,    \* history: no stock was read while another call held a copy
          healthy,    \* history: healthy[k]: no failure or expiry hit k's quotes
          apart       \* history: apart[k]: calls under k never overlapped

ledgerVars == <<stock, orders, events, paid, used, orderly>>
quoteVars  == <<quotes, cache, answers, healthy, apart>>
vars       == <<job, calls, ledgerVars, quoteVars>>

Idle == [at |-> "idle"]

OrderJobs == [at : {"consumed", "stocked", "saved"}, order : OrderIds,
              quantity : Quantities, left : Int]
QuoteJobs == [at : {"missed", "stored"}, key : Keys \cup {NoKey}, quote : Nat]

Init ==
  /\ job = [c \in Callers |-> Idle]
  /\ stock = InitialStock
  /\ orders = [o \in OrderIds |-> NoOrder]
  /\ events = {}
  /\ quotes = <<>>
  /\ cache = [k \in Keys |-> 0]
  /\ answers = {}
  /\ calls = 0
  /\ paid = [o \in OrderIds |-> 0]
  /\ used = 0
  /\ orderly = TRUE
  /\ healthy = [k \in Keys |-> TRUE]
  /\ apart = [k \in Keys |-> TRUE]

(***************************************************************************)
(* Production orders.                                                      *)
(***************************************************************************)

\* Every call starts here: a free caller, inside the bound.
Begin(c) ==
  /\ job[c] = Idle
  /\ calls < MaxCalls
  /\ calls' = calls + 1

\* Mutant: quantities are not validated.
Valid_Unchecked(q) == TRUE

\* ProductionOrder.validate and the first guard of check_and_consume.
Valid(q) == q > 0

\* The comparison of check_and_consume, on the copy the query port returned.
Enough(available, q) == available >= q * Unit

\* Mutant: the consumption forgets the quantity.
Remaining_OneUnit(available, q) == available - Unit

\* What check_and_consume leaves in the copy.
Remaining(available, q) == available - q * Unit

\* The order is created, the inventory is read and check_and_consume takes the
\* material from the copy; nothing is written yet.
TakeFromCopy(c, o, q) ==
  /\ Begin(c)
  /\ Valid(q)
  /\ Enough(stock, q)
  /\ job' = [job EXCEPT ![c] = [at |-> "consumed", order |-> o, quantity |-> q,
                                left |-> Remaining(stock, q)]]
  /\ orderly' = (orderly /\ \A d \in Callers : job[d].at # "consumed")
  /\ UNCHANGED <<stock, orders, events, paid, used, quoteVars>>

\* A call that ends before it has done anything: no permission, no company in
\* the context, no such material, no asset to quote.
Refuse(c) ==
  /\ Begin(c)
  /\ UNCHANGED <<job, ledgerVars, quoteVars>>

\* A ValueError of the validation or of check_and_consume: the rejection is
\* audited and raised as ERR_COMMON_INVALID_INPUT, before any write.
RejectOrder(c, q) ==
  /\ Begin(c)
  /\ ~Valid(q) \/ ~Enough(stock, q)
  /\ UNCHANGED <<job, ledgerVars, quoteVars>>

\* update_stock stores the whole entity: the number computed from the copy.
UpdateStock(c) ==
  /\ job[c].at = "consumed"
  /\ stock' = job[c].left
  /\ paid' = [paid EXCEPT ![job[c].order] = @ + job[c].quantity]
  /\ used' = used + job[c].quantity
  /\ job' = [job EXCEPT ![c].at = "stocked"]
  /\ UNCHANGED <<calls, orders, events, orderly, quoteVars>>

\* Mutant: the order is saved without waiting for the stock.
SaveOrder_Early(c) ==
  /\ job[c].at \in {"consumed", "stocked"}
  /\ orders' = [orders EXCEPT ![job[c].order] = job[c].quantity]
  /\ job' = [job EXCEPT ![c].at = "saved"]
  /\ UNCHANGED <<calls, stock, events, paid, used, orderly, quoteVars>>

\* IDLE -> STARTING -> EXECUTE on the entity, then save_production_order.
SaveOrder(c) ==
  /\ job[c].at = "stocked"
  /\ orders' = [orders EXCEPT ![job[c].order] = job[c].quantity]
  /\ job' = [job EXCEPT ![c].at = "saved"]
  /\ UNCHANGED <<calls, stock, events, paid, used, orderly, quoteVars>>

\* The audit record, then the event when the use case has an event bus.
Dispatch(c) ==
  /\ job[c].at = "saved"
  /\ \/ events' = events \cup {[order |-> job[c].order, quantity |-> job[c].quantity]}
     \/ UNCHANGED events
  /\ job' = [job EXCEPT ![c] = Idle]
  /\ UNCHANGED <<calls, stock, orders, paid, used, orderly, quoteVars>>

(***************************************************************************)
(* Quotes.                                                                 *)
(***************************************************************************)

\* A quote returned to the caller that asked for it under key k.
Answered(k, n) == answers' = answers \cup {[key |-> k, quote |-> n]}

\* find_cached_quote has one: it is the answer and nothing else is called.
QuoteFromCache(c, k) ==
  /\ Begin(c)
  /\ k # NoKey
  /\ cache[k] # 0
  /\ Answered(k, cache[k])
  /\ UNCHANGED <<job, ledgerVars, quotes, cache, healthy, apart>>

\* Mutant: the cache is never asked.
CacheMiss_NoLookup(c, k, broken) ==
  /\ Begin(c)
  /\ apart' = [j \in Keys |->
       apart[j] /\ (j = k => \A d \in Callers :
         job[d].at \in {"missed", "stored"} => job[d].key # k)]
  /\ job' = [job EXCEPT ![c] = [at |-> "missed", key |-> k, quote |-> 0]]
  /\ UNCHANGED <<ledgerVars, quotes, cache, answers, healthy>>

\* No key, nothing cached, or a lookup that raised and was only logged
\* (broken): the call goes on to the gateway.
CacheMiss(c, k, broken) ==
  /\ Begin(c)
  /\ IF k = NoKey
       THEN UNCHANGED <<healthy, apart>>
       ELSE /\ broken \/ cache[k] = 0
            /\ healthy' = [healthy EXCEPT ![k] = @ /\ ~broken]
            /\ apart' = [apart EXCEPT ![k] =
                 @ /\ \A d \in Callers :
                        job[d].at \in {"missed", "stored"} => job[d].key # k]
  /\ job' = [job EXCEPT ![c] = [at |-> "missed", key |-> k, quote |-> 0]]
  /\ UNCHANGED <<ledgerVars, quotes, cache, answers>>

\* The gateway prices the request, B2bQuote.create gives it a new id and
\* save_quote stores it.
StoreQuote(c) ==
  /\ job[c].at = "missed"
  /\ quotes' = Append(quotes, job[c].key)
  /\ job' = [job EXCEPT ![c].at = "stored", ![c].quote = Len(quotes) + 1]
  /\ UNCHANGED <<calls, ledgerVars, cache, answers, healthy, apart>>

\* The result is cached under the key, unless there is none or the cache
\* raises, which is only logged; then it is returned.
CacheAndAnswer(c) ==
  LET k == job[c].key  n == job[c].quote
  IN /\ job[c].at = "stored"
     /\ \/ /\ k # NoKey
           /\ cache' = [cache EXCEPT ![k] = n]
           /\ UNCHANGED healthy
        \/ /\ k # NoKey
           /\ healthy' = [healthy EXCEPT ![k] = FALSE]
           /\ UNCHANGED cache
        \/ /\ k = NoKey
           /\ UNCHANGED <<cache, healthy>>
     /\ Answered(k, n)
     /\ job' = [job EXCEPT ![c] = Idle]
     /\ UNCHANGED <<calls, ledgerVars, quotes, apart>>

(***************************************************************************)
(* The environment.                                                        *)
(***************************************************************************)

\* ttl_seconds of the idempotency store runs out.
Expire(k) ==
  /\ cache[k] # 0
  /\ cache' = [cache EXCEPT ![k] = 0]
  /\ healthy' = [healthy EXCEPT ![k] = FALSE]
  /\ UNCHANGED <<job, calls, ledgerVars, quotes, answers, apart>>

\* A port raises something that is not a ValueError, or the process dies: the
\* call is gone and what it has written stays.
Abort(c) ==
  /\ job[c] # Idle
  /\ job' = [job EXCEPT ![c] = Idle]
  /\ healthy' = [k \in Keys |->
       healthy[k] /\ ~(job[c].at = "stored" /\ job[c].key = k)]
  /\ UNCHANGED <<calls, ledgerVars, quotes, cache, answers, apart>>

OrderNext(c) ==
  \/ \E o \in OrderIds, q \in Quantities : TakeFromCopy(c, o, q)
  \/ \E q \in Quantities : RejectOrder(c, q)
  \/ UpdateStock(c)
  \/ SaveOrder(c)
  \/ Dispatch(c)

QuoteNext(c) ==
  \/ \E k \in Keys : QuoteFromCache(c, k)
  \/ \E k \in Keys \cup {NoKey}, broken \in BOOLEAN : CacheMiss(c, k, broken)
  \/ StoreQuote(c)
  \/ CacheAndAnswer(c)

Next ==
  \/ \E c \in Callers : OrderNext(c) \/ QuoteNext(c) \/ Refuse(c) \/ Abort(c)
  \/ \E k \in Keys : Expire(k)

Spec == Init /\ [][Next]_vars

--------------------------------------------------------------------------------
(***************************************************************************)
(* Properties.                                                             *)
(***************************************************************************)

TypeOK ==
  /\ job \in [Callers -> {Idle} \cup OrderJobs \cup QuoteJobs]
  /\ stock \in Int
  /\ orders \in [OrderIds -> Quantities \cup {NoOrder}]
  /\ events \subseteq [order : OrderIds, quantity : Quantities]
  /\ quotes \in Seq(Keys \cup {NoKey})
  /\ cache \in [Keys -> Nat]
  /\ answers \subseteq [key : Keys \cup {NoKey}, quote : Nat]
  /\ calls \in 0 .. MaxCalls
  /\ paid \in [OrderIds -> Nat]
  /\ used \in Nat
  /\ orderly \in BOOLEAN
  /\ healthy \in [Keys -> BOOLEAN]
  /\ apart \in [Keys -> BOOLEAN]

\* However orders interleave and fail, the stock the repository holds is never
\* below zero (MaterialInventory refuses to be built with a negative one, so a
\* negative number would make every later order of the material fail).
NoOverdraft == stock >= 0

\* No material appears or vanishes: as long as no call reads the stock while
\* another holds a copy of it, what is left and what the orders have used make
\* up the initial stock, also when a call failed between its two writes.
StockAccounted == orderly => stock + used * Unit = InitialStock

\* The stock is sound: never negative, and accounted for while reads and writes of
\* it do not interleave.
StockSound == NoOverdraft /\ StockAccounted

\* An order that is saved, and so in EXECUTE, has used the material of its
\* whole quantity, whatever failed or was retried under the same order_id: the
\* stock is written before the order.
SavedIsPaid == \A o \in OrderIds : orders[o] # NoOrder => orders[o] <= paid[o]

\* Production is announced only for an order that is in the repository, so a
\* subscriber of procurement.order.dispatched can look it up.
AnnouncedIsSaved == \A e \in events : orders[e.order] # NoOrder

\* A quote a caller was given, fresh or from the cache, is one the repository
\* has, and it was made under the key the caller asked with.
AnsweredIsSaved ==
  \A a \in answers : a.quote \in 1 .. Len(quotes) /\ quotes[a.quote] = a.key

\* What others are told stands on what is stored, whichever step failed: a saved
\* order on used material, an announcement on a saved order, an answer on a saved
\* quote.
RecordsAgree == SavedIsPaid /\ AnnouncedIsSaved /\ AnsweredIsSaved

\* The idempotency key works as long as calls under it do not overlap, the
\* store answers and keeps its entries and no call dies: one saved quote.
OneQuotePerKey ==
  \A k \in Keys : healthy[k] /\ apart[k] =>
    \A i, j \in 1 .. Len(quotes) : quotes[i] = k /\ quotes[j] = k => i = j

\* IQuoteIdempotencyStore is documented as the port that prevents duplicate
\* requests: with a store that works, one key never gets two quotes.
DuplicatesPrevented ==
  \A k \in Keys : healthy[k] =>
    \A i, j \in 1 .. Len(quotes) : quotes[i] = k /\ quotes[j] = k => i = j

================================================================================
