---------------------------- MODULE MCThreadServers ----------------------------
(* What the clients of the four honeypots do in the runs. *)
EXTENDS ThreadServers

(* ssh: logs in with passwords and keys, types pieces of lines, pastes, control keys *)
Typed == {<<" ", "l">>, <<"l", " ", "CR", "p">>, <<"ESC[", " ", "l", "p">>, <<"^C">>, <<"^D">>,
          <<"e", "x", "i", "t", "CR">>}
SshUser == <<"u", "p">>

(* socks5: other versions, no methods, empty fields, fields that look like lengths *)
Clients == {<<4, 1>>, <<5, 0>>, <<5, 1, 0>>, <<5, 1, 2, 5>>, <<5, 2, 0, 2, 1, 0, 0>>,
            <<5, 1, 2, 1, 2, 1, 1, 1, 9>>, <<5, 1, 2, 1, 1, 7, 2, 8, 9>>}
Socks5User == <<<<7>>, <<8, 9>>>>

(* rdp: every kind of PDU *)
AnyPdu == {[kind |-> "cookie"], [kind |-> "creds", user |-> "u", password |-> "p"], [kind |-> "torn"],
           [kind |-> "long"], [kind |-> "fifteen"], [kind |-> "short", last |-> 1],
           [kind |-> "short", last |-> 2]}

(* elastic: the configured password has a colon in it *)
Basic(parts, path) == [kind |-> "basic", parts |-> parts, path |-> path]
AnyRequest == {[kind |-> "anonymous"], [kind |-> "garbled"], [kind |-> "head"], [kind |-> "bad"],
               Basic(<<"u", "p", "q">>, "other"), Basic(<<"u", "p", "q">>, "root"),
               Basic(<<"u", "p">>, "other"), Basic(<<"v", "p", "q">>, "root"),
               [kind |-> "scheme", parts |-> <<"u", "p">>]}
ElasticUser == <<<<"u">>, <<"p", "q">>>>
===============================================================================
