---------------------------- MODULE CreditPromise ----------------------------
(***************************************************************************)
(* What buying service credit promises: a claim is asked for, accepted and *)
(* ended; its credit is granted at most once, at the moment its type names *)
(* and, when that moment is completion, only when the price has been       *)
(* received; nothing happens after the end.  Two requests that work on one *)
(* claim at the same time, or a payment that leaves an open claim with     *)
(* nothing paid, void the promise for that claim (`disputed`).             *)
(***************************************************************************)
EXTENDS Integers

CONSTANT Claims

VARIABLES
    stage,      \* where a claim is
    moment,     \* when its credit is due: a value of GrantMoments
    granted,    \* how many credit entries it has produced
    funded      \* the price has been received in full

vars == <<stage, moment, granted, funded>>

GrantMoments == {"approval", "first_payment", "completion"}

Stages == {"absent", "asked", "accepted", "completed", "withdrawn", "disputed"}

Init == /\ stage = [c \in Claims |-> "absent"]
        /\ moment = [c \in Claims |-> "completion"]
        /\ granted = [c \in Claims |-> 0]
        /\ funded = [c \in Claims |-> FALSE]

Move(c, from, to) == stage[c] = from /\ stage' = [stage EXCEPT ![c] = to]

\* A claim that costs nothing, or less, is funded from the start.
Ask(c) == /\ Move(c, "absent", "asked")
          /\ \E m \in GrantMoments : moment' = [moment EXCEPT ![c] = m]
          /\ \E free \in BOOLEAN : funded' = [funded EXCEPT ![c] = free]
          /\ UNCHANGED granted

\* Accepting grants the credit, and ends the claim, when approval is its moment.
Accept(c) == /\ Move(c, "asked", IF moment[c] = "approval" THEN "completed" ELSE "accepted")
             /\ granted' = [granted EXCEPT ![c] = IF moment[c] = "approval" THEN 1 ELSE 0]
             /\ UNCHANGED <<moment, funded>>

\* A payment that leaves the claim open grants the credit only at first_payment; a
\* negative one may take back what had funded it.
PayPart(c) == /\ Move(c, "accepted", "accepted")
              /\ granted' = [granted EXCEPT ![c] = IF moment[c] = "first_payment" THEN 1 ELSE 0]
              /\ funded' = [funded EXCEPT ![c] = FALSE]
              /\ UNCHANGED moment

PayInFull(c) == /\ Move(c, "accepted", "completed")
                /\ granted' = [granted EXCEPT ![c] = 1]
                /\ funded' = [funded EXCEPT ![c] = TRUE]
                /\ UNCHANGED moment

Withdraw(c) == /\ \/ Move(c, "asked", "withdrawn")
                  \/ Move(c, "accepted", "withdrawn")
               /\ UNCHANGED <<moment, granted, funded>>

Dispute(c) == /\ stage' = [stage EXCEPT ![c] = "disputed"]
              /\ granted' = [granted EXCEPT ![c] = 0]
              /\ funded' = [funded EXCEPT ![c] = FALSE]
              /\ UNCHANGED moment

Next == \E c \in Claims : \/ Ask(c) \/ Accept(c) \/ PayPart(c) \/ PayInFull(c)
                          \/ Withdraw(c) \/ Dispute(c)

Spec == Init /\ [][Next]_vars
=============================================================================
