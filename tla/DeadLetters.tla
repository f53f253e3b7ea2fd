---------------------------- MODULE DeadLetters ----------------------------
(***************************************************************************)
(* What PayKit promises about telling a merchant's app, with no goroutines,*)
(* attempts, logs or requests: a payment that is due is tried, each try    *)
(* reaches its owner's app or nobody; a dead letter is written when three  *)
(* tries were spent on it, and on it alone; it is reopened at will, and    *)
(* closed only when the app has heard of the payment.                      *)
(*                                                                         *)
(* Delivery implements this specification (Delivery!RefinesDeadLetters).   *)
(***************************************************************************)
EXTENDS Naturals, Sequences, FiniteSets

CONSTANTS
  Payments,     \* the payments
  Owner,        \* the merchant of each
  Due           \* the payments that are to be told of

VARIABLES
  tries,        \* the tries made for each payment
  heard,        \* <<payment, merchant>>: the merchant's app has heard of it
  letters       \* the sequence of dead letters

deadLetters == <<tries, heard, letters>>

LettersOf(t) == {i \in DOMAIN letters : letters[i].transaction_id = t}

Mark(i, status) == letters' = [letters EXCEPT ![i].status = status]

Init ==
  /\ tries = [t \in Payments |-> 0]
  /\ heard = {}
  /\ letters = <<>>

Try(t) ==
  /\ tries' = [tries EXCEPT ![t] = @ + 1]
  /\ heard' \in {heard, heard \union {<<t, Owner[t]>>}}
  /\ UNCHANGED letters

(* Each dead letter of a payment has three tries of its own.               *)
Quarantine(t) ==
  /\ 3 * (Cardinality(LettersOf(t)) + 1) <= tries[t]
  /\ letters' = Append(letters,
       [transaction_id |-> t, merchant_id |-> Owner[t], status |-> "FAILED"])
  /\ UNCHANGED <<tries, heard>>

Reopen(i) == Mark(i, "REQUEUED") /\ UNCHANGED <<tries, heard>>

Resolve(i) ==
  /\ <<letters[i].transaction_id, letters[i].merchant_id>> \in heard
  /\ Mark(i, "RESOLVED")
  /\ UNCHANGED <<tries, heard>>

Next ==
  \/ \E t \in Due : Try(t) \/ Quarantine(t)
  \/ \E i \in DOMAIN letters : Reopen(i) \/ Resolve(i)

Spec == Init /\ [][Next]_deadLetters
=============================================================================
