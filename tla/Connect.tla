------------------------------- MODULE Connect -------------------------------
(***************************************************************************)
(* The WebSocket entry points: connect and connect_X turn ConnectOptions   *)
(* into a dial and a ClientConfig, negotiate the OCPP version, and leave   *)
(* behind the reconnector that redials when the connection is lost.  The   *)
(* waits between dials are module Backoff's, the errors exchanged on a     *)
(* connection module ErrorCodes'.  DNS, TCP, the WebSocket handshake, the  *)
(* server and a caller's own reconnector are external.                     *)
(***************************************************************************)
EXTENDS Backoff, ErrorCodes, Sequences

CONSTANTS Addresses,    \* addresses dialled
          Unparsable,   \* those Url::parse refuses
          Calls,        \* the calls of connect, connect_X and from_transport examined
          Custom,       \* a reconnector of the caller's
          None

VARIABLES call,      \* the call that made the client
          cpc,       \* where it is
          hello,     \* the dial under way, or the one that made the connection
          first,     \* history: the first dial
          config,    \* the ClientConfig, None before prepare
          client,    \* the version of the Client, None before it is built
          conn,      \* the version the peer speaks on the connection
          redialled, \* history: a reconnector was called
          error      \* the last CALLERROR: what was meant and what was understood

connectVars == <<call, cpc, hello, first, config, client, conn, redialled, error>>
vars == <<connectVars, backoffVars>>

DefaultKeepalive == [interval |-> 60, max_missed |-> 2]
DefaultTimeout == 5

\* ReconnectBehavior and KeepaliveBehavior are a policy, or None for Disabled;
\* DefaultReconnect is ReconnectBehavior::default, Default ConnectOptions::default.
DefaultReconnect == DefaultPolicy

Default == [username |-> None, password |-> None, timeout |-> None,
            reconnect |-> DefaultReconnect, tls_config |-> None,
            reconnector |-> None, keepalive |-> DefaultKeepalive]

\* Every version compiled in, newest first.
AllCompiledIn == <<"ocpp2.1", "ocpp2.0.1", "ocpp1.6">>

Listed(seq) == {seq[i] : i \in DOMAIN seq}

\* The versions a call puts in the Sec-WebSocket-Protocol header, in order.
Offered(c) == IF c.versions = None THEN AllCompiledIn ELSE c.versions

\* What a caller can write down: connect_X and from_transport name one version,
\* options may be absent, and from_transport takes a policy.
ASSUME ConnectAssumption ==
    /\ Unparsable \subseteq Addresses /\ None \notin Versions /\ Custom # None
    /\ \A c \in Calls :
          /\ c.entry \in {"connect", "connect_X", "from_transport"}
          /\ c.entry # "connect" => c.versions # None /\ \E v \in Versions : c.versions = <<v>>
          /\ Listed(Offered(c)) \subseteq Versions
          /\ c.options # None => /\ c.options.reconnect \in Policies \cup {None}
                                /\ c.options.reconnector \in {None, Custom}
          /\ c.entry = "from_transport" => c.options # None /\ c.options.reconnect # None

------------------------------------------------------------------------------
(* prepare. *)

\* An optional field of options that may be absent themselves.
Given(options, field) == IF options = None THEN None ELSE options[field]

\* Each setting has a fall-back of its own for absent options.
Timeout(options) ==
    IF Given(options, "timeout") = None THEN DefaultTimeout ELSE options.timeout

KeepaliveOf(options) == IF options = None THEN Default.keepalive ELSE options.keepalive

Reconnect(options) == IF options = None THEN DefaultReconnect ELSE options.reconnect

\* Mutant: the redial offers every version again.
RediallerOffersAll(address, protocol, options) ==
    IF Reconnect(options) = None THEN None
    ELSE IF Given(options, "reconnector") # None THEN options.reconnector
    ELSE [address |-> address, protocols |-> AllCompiledIn,
          username |-> Given(options, "username"), password |-> Given(options, "password"),
          tls_config |-> Given(options, "tls_config")]

\* Mutant: the reconnector is built without the TLS configuration.
RediallerForgetsTls(address, protocol, options) ==
    IF Reconnect(options) = None THEN None
    ELSE IF Given(options, "reconnector") # None THEN options.reconnector
    ELSE [address |-> address, protocols |-> <<protocol>>,
          username |-> Given(options, "username"), password |-> Given(options, "password"),
          tls_config |-> None]

\* Disabled wins over a custom reconnector, a custom reconnector over the
\* WebSocketReconnector.
Redialler(address, protocol, options) ==
    IF Reconnect(options) = None THEN None
    ELSE IF Given(options, "reconnector") # None THEN options.reconnector
    ELSE [address |-> address, protocols |-> <<protocol>>,
          username |-> Given(options, "username"), password |-> Given(options, "password"),
          tls_config |-> Given(options, "tls_config")]

\* ClientConfig::new: nothing enabled.
NewConfig(timeout) ==
    [timeout |-> timeout, reconnector |-> None,
     reconnect_policy |-> DefaultPolicy, keepalive |-> None]

Prepare(address, protocol, options) ==
    [NewConfig(Timeout(options)) EXCEPT
        !.keepalive = KeepaliveOf(options),
        !.reconnector = Redialler(address, protocol, options),
        !.reconnect_policy = IF Reconnect(options) = None THEN @ ELSE Reconnect(options)]

------------------------------------------------------------------------------
(* setup_socket: one dial. *)

\* The Authorization header: a user name alone decides whether there is one, and a
\* missing password is an empty one.
Authorization(options) ==
    IF options.username = None THEN None
    ELSE <<options.username, IF options.password = None THEN <<>> ELSE <<options.password>> >>

\* The request, and how its stream is secured: without options, no header and the
\* TLS library's own trust.
Request(address, protocols, options) ==
    [address |-> address, protocols |-> protocols,
     auth |-> IF options = None THEN None ELSE Authorization(options),
     tls |-> IF options = None THEN None ELSE options.tls_config]

Init ==
    /\ call \in Calls
    /\ cpc = "start" /\ hello = None /\ first = None /\ config = None /\ client = None
    /\ conn = None /\ redialled = FALSE /\ error = None
    /\ policy = DefaultPolicy /\ attempt = 0 /\ bpc = "idle"
    /\ step = 0 /\ delay = 0 /\ wait = 0 /\ last = 0

\* connect and connect_X: the first dial begins.  connect_X prepares its
\* configuration before it, connect after the negotiation.
Call ==
    /\ cpc = "start" /\ call.entry # "from_transport"
    /\ hello' = Request(call.address, Offered(call), call.options)
    /\ first' = hello'
    /\ config' = IF call.entry = "connect" THEN None
                 ELSE Prepare(call.address, Head(call.versions), call.options)
    /\ cpc' = "resolve"
    /\ UNCHANGED <<call, client, conn, redialled, error, backoffVars>>

\* from_transport, from_transport_with_reconnect: the caller brings a connected
\* transport, and possibly a reconnector.
FromTransport ==
    /\ cpc = "start" /\ call.entry = "from_transport"
    /\ config' = [NewConfig(DefaultTimeout) EXCEPT
                    !.reconnector = call.options.reconnector,
                    !.reconnect_policy = call.options.reconnect]
    /\ policy' = call.options.reconnect
    /\ client' = Head(call.versions) /\ conn' = client'
    /\ cpc' = "up"
    /\ UNCHANGED <<call, hello, first, redialled, error,
                   attempt, bpc, step, delay, wait, last>>

\* Url::parse, then the look-up of its addresses.
Resolve ==
    /\ cpc = "resolve" /\ hello.address \notin Unparsable /\ cpc' = "tcp"
    /\ UNCHANGED <<call, hello, first, config, client, conn, redialled, error, backoffVars>>

\* TcpStream::connect.
TcpConnect ==
    /\ cpc = "tcp" /\ cpc' = "shake"
    /\ UNCHANGED <<call, hello, first, config, client, conn, redialled, error, backoffVars>>

\* The peer's answer; the WebSocket library refuses one that selects a protocol
\* the request did not offer, and one that selects none.
Accepted(response) == response \in Listed(hello.protocols)

\* The handshake of the first dial: connect takes its configuration from the
\* version the server picked, connect_X ignores what was picked.
Negotiate(response) ==
    /\ cpc = "shake" /\ client = None /\ Accepted(response)
    /\ client' = IF call.entry = "connect" THEN response ELSE Head(call.versions)
    /\ config' = IF call.entry = "connect"
                   THEN Prepare(call.address, response, call.options) ELSE config
    /\ policy' = config'.reconnect_policy
    /\ conn' = response /\ cpc' = "up"
    /\ UNCHANGED <<call, hello, first, redialled, error,
                   attempt, bpc, step, delay, wait, last>>

\* Mutant: a redial that works restarts the backoff.
ReplaceResets(response) ==
    /\ cpc = "shake" /\ client # None /\ Accepted(response)
    /\ conn' = response /\ cpc' = "up" /\ attempt' = 0
    /\ UNCHANGED <<call, hello, first, config, client, redialled, error,
                   policy, bpc, step, delay, wait, last>>

\* The handshake of a redial: its halves replace the client's.
Replace(response) ==
    /\ cpc = "shake" /\ client # None /\ Accepted(response)
    /\ conn' = response /\ cpc' = "up"
    /\ UNCHANGED <<call, hello, first, config, client, redialled, error, backoffVars>>

\* Any step of a dial fails: the first dial ends the call with an error, a
\* redial sends the read loop back to its wait.
DialFails ==
    /\ cpc \in {"resolve", "tcp", "shake"}
    /\ IF client = None
         THEN cpc' = "failed" /\ UNCHANGED backoffVars
         ELSE cpc' = "wait" /\ StartWait
    /\ UNCHANGED <<call, hello, first, config, client, conn, redialled, error>>

------------------------------------------------------------------------------
(* The connection, its loss and its replacement. *)

\* WebSocketSource::recv: a text, a ping and a pong become events, and any event
\* resets the read loop's attempt counter; other messages are skipped.
Receive(message) ==
    /\ cpc = "up"
    /\ message \in {"text", "ping", "pong"} /\ Heard
    /\ UNCHANGED connectVars

\* The stream ends, fails, or carries a close message.
Lost ==
    /\ cpc = "up" /\ conn' = None /\ error' = None
    /\ IF config.reconnector = None
         THEN cpc' = "quiet" /\ UNCHANGED backoffVars
         ELSE cpc' = "wait" /\ StartWait
    /\ UNCHANGED <<call, hello, first, config, client, redialled>>

Waiting ==
    /\ cpc = "wait" /\ (Grow \/ Grown \/ Jitter)
    /\ UNCHANGED connectVars

\* The wait over, WebSocketReconnector dials what it was built with.
Redial ==
    /\ cpc = "wait" /\ config.reconnector # Custom /\ WaitOver
    /\ hello' = Request(config.reconnector.address, config.reconnector.protocols,
                        config.reconnector)
    /\ redialled' = TRUE /\ cpc' = "resolve"
    /\ UNCHANGED <<call, first, config, client, conn, error>>

\* A caller's reconnector dials where it likes, through websocket_transport with
\* one version, and credentials of its own or none.
RedialCustom(address, version) ==
    /\ cpc = "wait" /\ config.reconnector = Custom /\ WaitOver
    /\ hello' = Request(address, <<version>>, None)
    /\ redialled' = TRUE /\ cpc' = "resolve"
    /\ UNCHANGED <<call, first, config, client, conn, error>>

\* The client refuses a CALL of the peer's, which reads the code by the version
\* it speaks.
Refuse(fault) ==
    /\ cpc = "up"
    /\ LET code == ErrorCode(client, fault)
       IN error' = [meant |-> code, understood |-> FromWire(conn, code)]
    /\ UNCHANGED <<call, cpc, hello, first, config, client, conn, redialled, backoffVars>>

\* A handler answers a CALL with an error of its own, of any code its version has.
HandlerRefuses(code) ==
    /\ cpc = "up" /\ code \in Spelled(client)
    /\ error' = [meant |-> code, understood |-> FromWire(conn, code)]
    /\ UNCHANGED <<call, cpc, hello, first, config, client, conn, redialled, backoffVars>>

\* The peer refuses a CALL of the client's.
Refused(code) ==
    /\ cpc = "up" /\ code \in Spelled(conn)
    /\ error' = [meant |-> code, understood |-> FromWire(client, code)]
    /\ UNCHANGED <<call, cpc, hello, first, config, client, conn, redialled, backoffVars>>

Next ==
    \/ Call \/ FromTransport
    \/ Resolve \/ TcpConnect
    \/ \E v \in Versions : Negotiate(v) \/ Replace(v)
    \/ DialFails
    \/ \E m \in {"text", "ping", "pong", "binary"} : Receive(m)
    \/ Lost \/ Waiting \/ Redial
    \/ \E a \in Addresses, v \in Versions : RedialCustom(a, v)
    \/ \E f \in Faults : Refuse(f)
    \/ \E c \in UNION {Spelled(v) : v \in Versions} : HandlerRefuses(c) \/ Refused(c)

\* The read loop is polled, and its timer fires.
Fairness ==
    /\ WF_vars(Waiting)
    /\ WF_vars(Redial \/ \E a \in Addresses, v \in Versions : RedialCustom(a, v))

Spec == Init /\ [][Next]_vars /\ Fairness

------------------------------------------------------------------------------
(* Properties. *)

\* The custom reconnector is bound to the negotiated version by its contract only
\* (connect.rs:122-124).
Contract == client # None /\ config.reconnector # Custom

\* After any number of losses and redials the peer still speaks the version the
\* client's handlers are bound to: the redial offers the negotiated version and
\* no other, whatever was offered at first (connect.rs:202-263, 399-438).
SpeaksNegotiated == Contract /\ cpc = "up" => conn = client

\* "Redials the same address, protocol, credentials and TLS config the
\* connection started with" (connect.rs:42-44).
SameCredentials ==
    Contract /\ redialled =>
        /\ hello.address = first.address /\ hello.auth = first.auth
        /\ hello.tls = first.tls /\ Listed(hello.protocols) \subseteq Listed(first.protocols)

\* "ReconnectBehavior::Disabled still wins ... supplying a reconnector does not
\* quietly turn reconnect back on" (connect.rs:57-58).
DisabledStaysDown ==
    redialled /\ call.options # None => call.options.reconnect # None

\* "Passing None behaves the same as passing Some(Default::default())"
\* (connect.rs:323-325), although prepare and setup_socket replace an absent value
\* field by field: the same first dial, timeout, keepalive, policy and reconnector.
AbsentMeansDefault ==
    client # None /\ call.options = None =>
        /\ first = Request(call.address, Offered(call), Default)
        /\ config = Prepare(call.address, client, Default)

\* An error code survives the wire in both directions: neither side takes a code
\* for a GenericError it was not, which the versions' different spellings would
\* make it (ocpp_1_6/error.rs:82-87).
ErrorsSurvive == Contract /\ error # None => error.understood = error.meant

\* A wait for a redial ends, although delay_for loops as often as dials failed.
RedialComes == cpc = "wait" ~> cpc = "resolve"

==============================================================================
