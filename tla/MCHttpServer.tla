---------------------------- MODULE MCHttpServer ----------------------------
(* Instances of HttpServer for TLC.                                         *)
EXTENDS HttpServer, TLC

CONSTANTS c1, c2

FlatPost   == [method |-> "POST", body |-> <<"text", "brace">>]
NestedPost == [method |-> "POST", body |-> <<"brace", "brace">>]
Options    == [method |-> "OPTIONS", body |-> <<>>]
Get        == [method |-> "GET", body |-> <<>>]

AllMessages == {FlatPost, NestedPost, Options, Get}
FlatPosts   == {FlatPost}

Clients == Permutations({c1, c2})
=============================================================================
