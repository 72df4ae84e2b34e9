---------------------------- MODULE MCXrpcHandler ----------------------------
(* Instances of XrpcHandler for TLC: threads and client accounts are model  *)
(* values, interchangeable where no constant names one of them.             *)
EXTENDS XrpcHandler, TLC

CONSTANTS g, ua, ub, c, t1, t2

GiveActions     == {"account_create", "give", "transfer_in", "account_delete"}
TransferActions == {"account_create", "give", "transfer_out", "transfer_in"}
AllActions      == GiveActions \cup TransferActions \cup {"set_property", "unknown"}

SignedAmounts  == {-1, 1}
UnusualAmounts == {Empty, NotANumber}

\* rsp is only an output: no step depends on it, and the properties about it
\* are about steps, all of which TLC checks.
WithoutAnswer == <<ledgerVars, pc, tx>>

Threads == Permutations({t1, t2})
=============================================================================
