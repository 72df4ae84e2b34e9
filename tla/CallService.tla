---------------------------- MODULE CallService ----------------------------
(***************************************************************************)
(* What the gRPC service promises for each call: its request is executed   *)
(* at most once, and the client gets at most one reply, the one computed   *)
(* from its own request.                                                   *)
(***************************************************************************)
EXTENDS Naturals, Sequences

CONSTANT Call

VARIABLES executed,     \* how often handle_request ran for a call
          answers       \* the replies a client got, named by their requests

Init ==
    /\ executed = [c \in Call |-> 0]
    /\ answers = [c \in Call |-> <<>>]

Execute(c) ==
    /\ executed[c] = 0
    /\ executed' = [executed EXCEPT ![c] = 1]
    /\ UNCHANGED answers

Answer(c) ==
    /\ executed[c] = 1 /\ answers[c] = <<>>
    /\ answers' = [answers EXCEPT ![c] = <<c>>]
    /\ UNCHANGED executed

Next == \E c \in Call : Execute(c) \/ Answer(c)

Spec == Init /\ [][Next]_<<executed, answers>>
=============================================================================
