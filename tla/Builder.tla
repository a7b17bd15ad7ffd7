------------------------------ MODULE Builder -------------------------------
(***************************************************************************)
(* ClientBuilder::connect_with and upgrade_tls of                          *)
(* src/src/client_builder.rs: which of TLS, STARTTLS and plaintext a       *)
(* connection ends up with, and where in the server's octets the returned  *)
(* Client starts reading.                                                  *)
(*                                                                         *)
(* A line is two pieces, for BufStream may read ahead into the middle of   *)
(* the next line, and into_inner drops what it has read ahead.             *)
(***************************************************************************)
EXTENDS Naturals, Sequences

CONSTANT MaxChatter     \* bound on the untagged responses the server sends

ASSUME BuilderAssumption == MaxChatter \in Nat

VARIABLES
    mode,       \* ClientBuilder.mode
    port993,    \* ClientBuilder.port is 993
    step,       \* what connect_with is at, see Steps
    layer,      \* what the client speaks: "plain" or "tls"
    found,      \* of the untagged responses to CAPABILITY read so far: one that
                \* lists STARTTLS, one that Capabilities::parse cannot place
    buf,        \* the read half of BufStream
    server,     \* what the server speaks: "plain", "hello" (it waits for a TLS
                \* handshake) or "tls"
    offers,     \* the server lists STARTTLS
    greeted,    \* the server has sent its greeting
    asked,      \* the command the server is to answer, or "none"
    sock,       \* pieces on their way to the client
    up,         \* the server has not closed the connection
    chatter     \* untagged responses sent

config == <<mode, port993, offers>>
vars   == <<config, step, layer, found, buf, server, greeted, asked, sock, up, chatter>>

Modes == {"AutoTls", "Auto", "Plaintext", "Tls", "StartTls"}

Steps == {"handshake", "greeting", "capability", "starttls",
          "ready",      \* connect returned a Client
          "refused",    \* ... or an error: the server or TLS said no
          "lost"}       \* ... or an error of the transport

LineKinds == {"greeting", "caps", "starttls",
              "data",       \* an untagged response the client queues
              "warn",       \* an untagged NO or BAD
              "ok", "no"}   \* tagged responses

Piece == [line : LineKinds, last : BOOLEAN]

TypeOK ==
    /\ mode \in Modes
    /\ {port993, offers, greeted, up} \subseteq BOOLEAN
    /\ found \subseteq {"starttls", "warn"}
    /\ step \in Steps
    /\ layer \in {"plain", "tls"}
    /\ buf \in Seq(Piece)
    /\ server \in {"plain", "hello", "tls"}
    /\ asked \in {"none", "CAPABILITY", "STARTTLS"}
    /\ sock \in Seq(Piece)
    /\ chatter \in 0..MaxChatter

(* The arms of connect_with's match that call handshake at once. *)
TlsFirst(m, is993) == m = "Tls" \/ (m \in {"AutoTls", "Auto"} /\ is993)

(* ... and those that call upgrade_tls. *)
Upgrades == mode # "Plaintext" /\ ~TlsFirst(mode, port993)

Init ==
    /\ mode \in Modes /\ port993 \in BOOLEAN /\ offers \in BOOLEAN
    /\ step = IF TlsFirst(mode, port993) THEN "handshake" ELSE "greeting"
    /\ layer = "plain" /\ found = {} /\ buf = <<>>
    /\ server \in {"plain", "hello"}
    /\ greeted = FALSE /\ asked = "none" /\ sock = <<>> /\ up = TRUE /\ chatter = 0

-----------------------------------------------------------------------------
(* The client.                                                             *)

Input == buf \o sock

(* readline returns a line of kind k; BufStream may hold more afterwards. *)
ReadLineAfresh(k) ==
    /\ Len(Input) >= 2 /\ Input[1].line = k
    /\ \E n \in 2..Len(Input) : n >= Len(buf) /\ sock' = SubSeq(Input, n + 1, Len(Input))
    /\ buf' = <<>>
ReadLine(k) ==
    /\ Len(Input) >= 2 /\ Input[1].line = k
    /\ \E n \in 2..Len(Input) :
          /\ n >= Len(buf)
          /\ buf' = SubSeq(Input, 3, n)
          /\ sock' = SubSeq(Input, n + 1, Len(Input))

(* into_inner: what was read ahead goes with the old Client. *)
ReadAndUnwrap(k) ==
    /\ Len(Input) >= 2 /\ Input[1].line = k
    /\ \E n \in 2..Len(Input) :
          /\ n >= Len(buf)
          /\ sock' = SubSeq(Input, n + 1, Len(Input))
    /\ buf' = <<>>

(* read_greeting *)
AfterGreeting ==
    IF Upgrades
    THEN step' = "capability" /\ asked' = "CAPABILITY"
    ELSE step' = "ready" /\ UNCHANGED asked

ReadGreeting ==
    /\ step = "greeting"
    /\ \E k \in LineKinds : ReadLine(k)
    /\ AfterGreeting
    /\ UNCHANGED <<config, layer, found, server, greeted, up, chatter>>

(* The untagged responses to CAPABILITY and STARTTLS. *)
NotesAll(k) == {k}
Notes(k) == {k} \cap {"starttls", "warn"}

ReadUntagged ==
    /\ step \in {"capability", "starttls"}
    /\ \E k \in {"caps", "starttls", "data", "warn"} :
          /\ ReadLine(k)
          /\ found' = found \cup IF step = "capability" THEN Notes(k) ELSE {}
    /\ UNCHANGED <<config, step, layer, server, greeted, asked, up, chatter>>

(* capabilities() returns: the upgrade starts, or is given up, which only  *)
(* Auto takes for an answer.                                               *)
AnyMode == TRUE
AcceptsPlaintext == mode = "Auto"

ReadCapabilityDone ==
    /\ step = "capability"
    /\ "warn" \notin found
    /\ \/ /\ "starttls" \in found /\ ReadLine("ok")
          /\ step' = "starttls" /\ asked' = "STARTTLS"
       \/ /\ "starttls" \notin found /\ ReadAndUnwrap("ok")
          /\ step' = IF AcceptsPlaintext THEN "ready" ELSE "refused"
          /\ UNCHANGED asked
    /\ UNCHANGED <<config, layer, found, server, greeted, up, chatter>>

ReadStartTlsDone ==
    /\ step = "starttls"
    /\ ReadAndUnwrap("ok")
    /\ step' = "handshake"
    /\ UNCHANGED <<config, layer, found, server, greeted, asked, up, chatter>>

(* The `?' after capabilities() and run_command_and_check_ok("STARTTLS"). *)
ReadNo ==
    /\ \/ step \in {"capability", "starttls"} /\ ReadLine("no")
       \/ step = "capability" /\ "warn" \in found /\ ReadLine("ok")
    /\ step' = "refused"
    /\ UNCHANGED <<config, layer, found, server, greeted, asked, up, chatter>>

(* handshake(domain, tcp) and Client::new; the greeting is yet to come     *)
(* unless upgrade_tls has read it.                                         *)
ReadyAtOnce == step' = "ready"
GreetingAgain == step' = "greeting"
AfterHandshake == step' = IF Upgrades THEN "ready" ELSE "greeting"

Handshake ==
    /\ step = "handshake" /\ server = "hello" /\ sock = <<>> /\ up
    /\ layer' = "tls" /\ server' = "tls"
    /\ AfterHandshake
    /\ UNCHANGED <<config, found, buf, greeted, asked, sock, up, chatter>>

(* The certificate is not accepted, or the server does not speak TLS. *)
HandshakeFails ==
    /\ step = "handshake"
    /\ server = "hello" \/ sock # <<>>
    /\ step' = "refused"
    /\ UNCHANGED <<config, layer, found, buf, server, greeted, asked, sock, up, chatter>>

Connecting == step \notin {"ready", "refused", "lost"}

(* A read or write error, or the end of the input. *)
TransportFails ==
    /\ Connecting
    /\ ~up /\ Input = <<>>
    /\ step' = "lost"
    /\ UNCHANGED <<config, layer, found, buf, server, greeted, asked, sock, up, chatter>>

-----------------------------------------------------------------------------
(* The server (external).                                                  *)

Pieces(k) == <<[line |-> k, last |-> FALSE], [line |-> k, last |-> TRUE]>>

ServerState == <<config, step, layer, found, buf, up>>

Greet ==
    /\ up /\ ~greeted /\ server # "hello"
    /\ greeted' = TRUE
    /\ sock' = sock \o Pieces("greeting")
    /\ UNCHANGED <<ServerState, server, asked, chatter>>

AnswerCapability ==
    /\ up /\ asked = "CAPABILITY"
    /\ asked' = "none"
    /\ \/ sock' = sock \o Pieces(IF offers THEN "starttls" ELSE "caps") \o Pieces("ok")
       \/ sock' = sock \o Pieces("no")
    /\ UNCHANGED <<ServerState, server, greeted, chatter>>

AnswerStartTls ==
    /\ up /\ asked = "STARTTLS"
    /\ asked' = "none"
    /\ \/ sock' = sock \o Pieces("ok") /\ server' = "hello"
       \/ sock' = sock \o Pieces("no") /\ UNCHANGED server
    /\ UNCHANGED <<ServerState, greeted, chatter>>

Push ==
    /\ up /\ greeted /\ server # "hello" /\ chatter < MaxChatter
    /\ chatter' = chatter + 1
    /\ \E k \in {"data", "warn"} : sock' = sock \o Pieces(k)
    /\ UNCHANGED <<ServerState, server, greeted, asked>>

HangUp ==
    /\ up /\ up' = FALSE
    /\ UNCHANGED <<config, step, layer, found, buf, server, greeted, asked, sock, chatter>>

-----------------------------------------------------------------------------
Client ==
    \/ ReadGreeting \/ ReadUntagged \/ ReadCapabilityDone \/ ReadStartTlsDone \/ ReadNo
    \/ Handshake \/ HandshakeFails \/ TransportFails

Answers == Greet \/ AnswerCapability \/ AnswerStartTls

Next == Client \/ Answers \/ Push \/ HangUp

Spec == Init /\ [][Next]_vars

(* Reads return what has come, and the server greets and answers. *)
FairSpec == Spec /\ WF_vars(Client) /\ WF_vars(Answers)

-----------------------------------------------------------------------------
(* Properties.                                                             *)

(* Whatever the server lists, refuses or pushes, a Client comes back       *)
(* without TLS only in Plaintext mode, or in Auto mode off port 993 from a *)
(* server that does not list STARTTLS (the two tests of `upgraded').       *)
NeverDowngraded ==
    step = "ready" /\ layer = "plain"
        => mode = "Plaintext" \/ (mode = "Auto" /\ ~port993 /\ ~offers)

(* A returned Client speaks what the server speaks; the greeting has been  *)
(* read, and once, and no reply of the negotiation is left to be taken for *)
(* that of the first command (greeting_read, into_inner).                  *)
InStepWhenReady ==
    step = "ready" =>
        /\ layer = server
        /\ greeted /\ asked = "none"
        /\ \A i \in DOMAIN Input : Input[i].line \in {"data", "warn"}

(* It starts reading at the beginning of a line, save that the plaintext   *)
(* fallback of Auto drops what was read ahead, the first octets of an      *)
(* unsolicited response perhaps.                                           *)
StartsOnALine ==
    step = "ready" /\ Input # <<>> /\ ~(mode = "Auto" /\ layer = "plain") => ~Input[1].last

(* connect returns when the server greets, answers or closes, unless the   *)
(* client waits for the greeting of a server that waits for its handshake. *)
BothWait == step = "greeting" /\ layer = "plain" /\ server = "hello"
ConnectReturns == Connecting ~> ~Connecting \/ BothWait
=============================================================================
