------------------------------ MODULE PaymentLedger ------------------------------
(* What the bridge promises about the money of one order, with no table, handler,  *)
(* timeout or crash in it: an attempt is recorded before Chapa registers it,       *)
(* registered before a client is sent to its checkout page, and so on until the    *)
(* application is told of a payment that really was collected.  Attempts are       *)
(* recorded in order.  Nothing is ever taken back.                                 *)
EXTENDS Integers

CONSTANT MaxAttempts

VARIABLES recorded,     \* attempts with a row
          registered,   \* attempts Chapa knows
          offered,      \* attempts whose checkout URL a client has
          collected,    \* attempts whose payment Chapa collected
          reported      \* attempts with a payment.success notification queued

ledger == <<recorded, registered, offered, collected, reported>>

LedgerInit ==
  /\ recorded = {}
  /\ registered = {}
  /\ offered = {}
  /\ collected = {}
  /\ reported = {}

Record(a) ==
  /\ \A b \in 1 .. a - 1 : b \in recorded
  /\ recorded' = recorded \cup {a}
  /\ UNCHANGED <<registered, offered, collected, reported>>

RegisterAtChapa(a) ==
  /\ a \in recorded
  /\ registered' = registered \cup {a}
  /\ UNCHANGED <<recorded, offered, collected, reported>>

OfferCheckout(a) ==
  /\ a \in registered
  /\ offered' = offered \cup {a}
  /\ UNCHANGED <<recorded, registered, collected, reported>>

CollectPayment(a) ==
  /\ a \in offered
  /\ collected' = collected \cup {a}
  /\ UNCHANGED <<recorded, registered, offered, reported>>

Report(a) ==
  /\ a \in collected
  /\ reported' = reported \cup {a}
  /\ UNCHANGED <<recorded, registered, offered, collected>>

LedgerNext ==
  \E a \in 1 .. MaxAttempts :
    Record(a) \/ RegisterAtChapa(a) \/ OfferCheckout(a) \/ CollectPayment(a) \/ Report(a)

LedgerSpec == LedgerInit /\ [][LedgerNext]_ledger

=============================================================================
