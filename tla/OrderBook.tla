------------------------------ MODULE OrderBook ------------------------------
(***************************************************************************)
(* What orders.service.ts promises, with no requests in it: orders are     *)
(* placed, moved along ORDER_TRANSITIONS and cancelled at once.  Placing   *)
(* takes the units off the shelf, cancelling puts them back exactly once,  *)
(* delivering counts them as sold exactly once.                            *)
(***************************************************************************)
EXTENDS Naturals

CONSTANTS Products, OrderIds, InitialStock,
          Moves,   \* the <<from, to>> pairs of statuses an order may move along
          Wants    \* the contents an order may have: units of each product

VARIABLES shelf, sold, state, units
\* shelf[p]: units for sale       sold[p]: units delivered
\* state[o]: "none" or a status   units[o]: what the order asks for

bookVars == <<shelf, sold, state, units>>

None == [p \in Products |-> 0]

BookInit ==
  /\ shelf = InitialStock
  /\ sold  = None
  /\ state = [o \in OrderIds |-> "none"]
  /\ units = [o \in OrderIds |-> None]

Place(o, u) ==
  /\ state[o] = "none"
  /\ \A p \in Products : u[p] <= shelf[p]
  /\ shelf' = [p \in Products |-> shelf[p] - u[p]]
  /\ state' = [state EXCEPT ![o] = "pending"]
  /\ units' = [units EXCEPT ![o] = u]
  /\ UNCHANGED sold

\* Every move but the two that touch the products.
Advance(o, s) ==
  /\ <<state[o], s>> \in Moves
  /\ s \notin {"cancelled", "delivered"}
  /\ state' = [state EXCEPT ![o] = s]
  /\ UNCHANGED <<shelf, sold, units>>

Deliver(o) ==
  /\ <<state[o], "delivered">> \in Moves
  /\ state' = [state EXCEPT ![o] = "delivered"]
  /\ sold'  = [p \in Products |-> sold[p] + units[o][p]]
  /\ UNCHANGED <<shelf, units>>

Cancel(o) ==
  /\ <<state[o], "cancelled">> \in Moves
  /\ state' = [state EXCEPT ![o] = "cancelled"]
  /\ shelf' = [p \in Products |-> shelf[p] + units[o][p]]
  /\ UNCHANGED <<sold, units>>

BookNext ==
  \E o \in OrderIds :
    \/ \E u \in Wants : Place(o, u)
    \/ \E to \in {m[2] : m \in Moves} : Advance(o, to)
    \/ Deliver(o)
    \/ Cancel(o)

BookSpec == BookInit /\ [][BookNext]_bookVars
=============================================================================
