-------------------------------- MODULE EventBus -------------------------------
(***************************************************************************)
(* The event bus within the process.  The list of handlers is copied under *)
(* the lock; the handlers are called after it, one by one in the thread    *)
(* that publishes, while other threads subscribe and unsubscribe.  There   *)
(* is one topic: handlers of different topics never meet.                  *)
(***************************************************************************)
CONSTANTS Publishers,   \* threads that publish, one event each
          Handlers      \* handlers that may be subscribed

VARIABLES subscribers,  \* handlers on the list
          due,          \* handlers each publisher has still to call
          addressed,    \* history: handlers each event was for
          called        \* history: handlers that were called with it

busVars == <<subscribers, due, addressed, called>>

BusInit ==
  /\ subscribers \in SUBSET Handlers
  /\ due = [p \in Publishers |-> {}]
  /\ addressed = [p \in Publishers |-> {}]
  /\ called = [p \in Publishers |-> {}]

Subscribe(h) ==
  /\ subscribers' = subscribers \cup {h}
  /\ UNCHANGED <<due, addressed, called>>

Unsubscribe(h) ==
  /\ h \in subscribers
  /\ subscribers' = subscribers \ {h}
  /\ UNCHANGED <<due, addressed, called>>

Publish(p) ==
  /\ due' = [due EXCEPT ![p] = subscribers]
  /\ addressed' = [addressed EXCEPT ![p] = subscribers]
  /\ UNCHANGED <<subscribers, called>>

\* Mutant: an exception of a handler ends the round.
SafeDispatch_Stops(p, h) ==
  /\ h \in due[p]
  /\ \E raises \in BOOLEAN :
       due' = [due EXCEPT ![p] = IF raises THEN {} ELSE @ \ {h}]
  /\ called' = [called EXCEPT ![p] = @ \cup {h}]
  /\ UNCHANGED <<subscribers, addressed>>

\* The handler returns or raises, and the round goes on.
SafeDispatch(p, h) ==
  /\ h \in due[p]
  /\ due' = [due EXCEPT ![p] = @ \ {h}]
  /\ called' = [called EXCEPT ![p] = @ \cup {h}]
  /\ UNCHANGED <<subscribers, addressed>>

\* Nothing published by p is still on its way, and every handler it was for has it,
\* once and although others raised or left the list in between.
Delivered(p) == due[p] = {} /\ called[p] = addressed[p]

================================================================================
