---------------------------- MODULE TokenFamilies ----------------------------
(***************************************************************************)
(* What refresh-token rotation promises a resource owner, with no account, *)
(* password, device or clock in sight.  A family of tokens is opened once; *)
(* while it is live exactly one of its tokens is redeemable, and redeeming *)
(* it spends it for good; a closed family never opens again.               *)
(***************************************************************************)
CONSTANTS Family, Token

VARIABLES
    status,     \* of each family
    redeemable, \* of each family: its tokens that can still be redeemed
    spent       \* tokens that never can be again

vars == <<status, redeemable, spent>>

TypeOK ==
    /\ status \in [Family -> {"unborn", "live", "closed"}]
    /\ redeemable \in [Family -> SUBSET Token]
    /\ spent \in SUBSET Token

Init ==
    /\ status = [f \in Family |-> "unborn"]
    /\ redeemable = [f \in Family |-> {}]
    /\ spent = {}

Unused(t) == t \notin spent /\ \A f \in Family : t \notin redeemable[f]

(* the tokens that closing the families F spends *)
Lost(F) == UNION {redeemable[f] : f \in F}

(* A family may be opened in place of others. *)
Open(f, t, F) ==
    /\ status[f] = "unborn"
    /\ \A g \in F : status[g] = "live"
    /\ Unused(t)
    /\ status' = [g \in Family |-> IF g = f THEN "live"
                                   ELSE IF g \in F THEN "closed" ELSE status[g]]
    /\ redeemable' = [g \in Family |-> IF g = f THEN {t}
                                       ELSE IF g \in F THEN {} ELSE redeemable[g]]
    /\ spent' = spent \cup Lost(F)

Redeem(f, t, next) ==
    /\ status[f] = "live"
    /\ t \in redeemable[f]
    /\ Unused(next)
    /\ redeemable' = [redeemable EXCEPT ![f] = {next}]
    /\ spent' = spent \cup {t}
    /\ UNCHANGED status

Close(F) ==
    /\ \A g \in F : status[g] # "unborn"
    /\ status' = [g \in Family |-> IF g \in F THEN "closed" ELSE status[g]]
    /\ redeemable' = [g \in Family |-> IF g \in F THEN {} ELSE redeemable[g]]
    /\ spent' = spent \cup Lost(F)

Next ==
    \/ \E f \in Family, t \in Token, F \in SUBSET Family : Open(f, t, F)
    \/ \E f \in Family, t, next \in Token : Redeem(f, t, next)
    \/ \E F \in SUBSET Family : Close(F)

Spec == Init /\ [][Next]_vars

=============================================================================
