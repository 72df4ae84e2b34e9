---------------------------- MODULE MCXrpcHistory ----------------------------
(* Instances of XrpcHistory for TLC.                                        *)
EXTENDS XrpcHistory

CONSTANT a

\* With an INT_MAX of 7: pages that fit; pages whose end, or end and start,
\* wrap around; a negative number.
Requests == {[count |-> r[1], per_page |-> r[2]] :
                r \in {<<0, 2>>, <<1, 1>>, <<1, 7>>, <<2, 7>>, <<7, 1>>, <<-1, 2>>}}
=============================================================================
