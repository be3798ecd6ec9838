------------------------------ MODULE MCConnect ------------------------------
(***************************************************************************)
(* The calls examined: every combination of credentials, TLS and           *)
(* reconnector through each entry point, and every policy of Policies      *)
(* through one of them.                                                    *)
(***************************************************************************)
EXTENDS Connect

Settings ==
    {[Default EXCEPT !.username = u, !.password = p, !.tls_config = t,
                     !.reconnector = r, !.reconnect = b] :
        u \in {None, "user"}, p \in {None, "key"}, t \in {None, "ca"},
        r \in {None, Custom}, b \in {None, DefaultPolicy}}

Entry(entry, versions, address, options) ==
    [entry |-> entry, versions |-> versions, address |-> address, options |-> options]

MCCalls ==
    {Entry("connect", v, a, o) :
        v \in {None, <<"ocpp1.6", "ocpp2.1">>}, a \in {"csms", "junk"}, o \in Settings \cup {None}}
    \cup {Entry("connect_X", <<v>>, "csms", o) : v \in Versions, o \in {None, Default}}
    \cup {Entry("connect", None, "csms",
                [Default EXCEPT !.reconnect = p, !.keepalive = None, !.timeout = 1]) :
            p \in Policies}
    \cup {Entry("from_transport", <<"ocpp2.1">>, "csms", [Default EXCEPT !.reconnector = r]) :
            r \in {None, Custom}}

==============================================================================
