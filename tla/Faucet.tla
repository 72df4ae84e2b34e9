------------------------------- MODULE Faucet -------------------------------
(***************************************************************************)
(* What the give request promises: the genesis account grants an account   *)
(* its starting amount at most once, and only when it has not paid that    *)
(* account before (xrpc_already_give).  An account_delete makes the store  *)
(* forget what the account has received, so the account may be granted     *)
(* again; deleting the genesis account ends the promise.                   *)
(***************************************************************************)
CONSTANTS Account,
          Receipt       \* what tells one grant from another

VARIABLES open,         \* TRUE until the genesis account is deleted
          paid,         \* accounts that genesis has paid
          grants        \* per account, the receipts of its grants

Init ==
    /\ open = TRUE
    /\ paid = {}
    /\ grants = [a \in Account |-> {}]

Grant(a) ==
    /\ open /\ a \notin paid
    /\ paid' = paid \cup {a}
    /\ \E r \in Receipt : grants' = [grants EXCEPT ![a] = {r}]
    /\ UNCHANGED open

\* A payment by another request of genesis, which is always allowed.
Pay(a) ==
    /\ open
    /\ paid' = paid \cup {a}
    /\ UNCHANGED <<open, grants>>

\* A deletion forgets the payments that the store had already applied: it may
\* forget the grant and keep a later payment, but nothing of another account.
Forget(a) ==
    /\ open
    /\ paid' \in {paid, paid \ {a}}
    /\ \E kept \in SUBSET grants[a] :
          /\ kept # {} => a \in paid'
          /\ grants' = [grants EXCEPT ![a] = kept]
    /\ UNCHANGED open

Close ==
    /\ open' = FALSE
    /\ paid' = {}
    /\ grants' = [a \in Account |-> {}]

Next ==
    \/ \E a \in Account : Grant(a) \/ Pay(a) \/ Forget(a)
    \/ Close

Spec == Init /\ [][Next]_<<open, paid, grants>>
=============================================================================
