---------------------------- MODULE MCXrpcQueries ----------------------------
(* Instances of XrpcQueries for TLC.                                        *)
EXTENDS XrpcQueries, TLC

CONSTANTS g, ua, ub, c, t1, r1

InfoActions    == {"account_create", "give", "transfer_in"}
QueriesActions == {"account_create", "transfer_out", "set_property"}

\* The queries with one store call.
PlainQueries == {"account_balance", "last_digest", "query_property",
                 "query_all_property"}

\* rsp and reply are only outputs: no step depends on them, and the properties
\* about them are about steps, all of which TLC checks.
WithoutReply == <<ledgerVars, pc, tx, query, clientVars>>
=============================================================================
