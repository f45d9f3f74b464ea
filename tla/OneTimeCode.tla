---------------------------- MODULE OneTimeCode ----------------------------
(***************************************************************************)
(* What a cash code promises, without files, escrow or requests: its money *)
(* leaves the issuer once, and reaches one account once, that of whoever   *)
(* redeems it or the issuer's.                                             *)
(***************************************************************************)
EXTENDS Naturals

CONSTANTS Code, Account, NoAccount, Opening

VARIABLES
    state,  \* of each code
    worth,  \* its amount
    owner,  \* its issuer
    pocket  \* the money of each account

vars == <<state, worth, owner, pocket>>

Init ==
    /\ state = [k \in Code |-> "none"] /\ worth = [k \in Code |-> 0]
    /\ owner = [k \in Code |-> NoAccount] /\ pocket = Opening

Issue(k, a, n) ==
    /\ state[k] = "none" /\ n > 0 /\ pocket[a] >= n
    /\ state' = [state EXCEPT ![k] = "held"]
    /\ worth' = [worth EXCEPT ![k] = n] /\ owner' = [owner EXCEPT ![k] = a]
    /\ pocket' = [pocket EXCEPT ![a] = @ - n]

Leave(k, a, how) ==
    /\ state[k] = "held" /\ state' = [state EXCEPT ![k] = how]
    /\ pocket' = [pocket EXCEPT ![a] = @ + worth[k]]
    /\ UNCHANGED <<worth, owner>>

Redeem(k, a) == Leave(k, a, "paid")
Return(k) == Leave(k, owner[k], "returned")

Next == \E k \in Code :
    \/ \E a \in Account : Redeem(k, a) \/ \E n \in 1..pocket[a] : Issue(k, a, n)
    \/ Return(k)

Spec == Init /\ [][Next]_vars
=============================================================================
