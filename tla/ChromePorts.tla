----------------------------- MODULE ChromePorts -----------------------------
(***************************************************************************)
(* The connections of the Chrome extension runtime, as the code in         *)
(* packages/transport-chrome uses them: chrome.runtime.connect() in a page *)
(* gives it one end of a Port, and the extension's worker receives the     *)
(* other end in onConnect.  Each direction is first-in first-out, and the  *)
(* disconnect of one end reaches the other end behind what was posted      *)
(* before it.  The end that calls disconnect() hears nothing more.         *)
(*                                                                         *)
(* A session connection is a number, in the order of the connect() calls;  *)
(* a client that reconnects gets a new one under its old name.  A response *)
(* stream has a connection of its own, the sub-channel, under a name made  *)
(* for its request; PortStream.tla models what travels on it.              *)
(***************************************************************************)
EXTENDS Naturals, Sequences, FiniteSets

CONSTANTS
  Clients,    \* session clients, that is, session names
  Requests,   \* requests of all clients
  Page,       \* the client each request belongs to
  MaxConns,   \* bound: connect() calls of all clients together
  NoClient    \* the dialer of a connection not yet made

ASSUME PageAssumption == Page \in [Requests -> Clients]
ASSUME ConnsAssumption == MaxConns \in Nat
ASSUME NoClientAssumption == NoClient \notin Clients

Conns == 1 .. MaxConns

VARIABLES
  dialer,   \* the client that made each connection
  cEnd,     \* the client's end of each connection
  sEnd,     \* the service's end; "none" until onConnect has fired
  up,       \* messages to the service
  down,     \* messages to the client
  subC,     \* the client's end of the sub-channel of each request
  subS      \* the service's end; "final" once END or ABORT is posted

portVars == <<dialer, cEnd, sEnd, up, down, subC, subS>>

Disc == [type |-> "disconnect"]

PortsInit ==
  /\ dialer = [k \in Conns |-> NoClient]
  /\ cEnd = [k \in Conns |-> "none"]
  /\ sEnd = [k \in Conns |-> "none"]
  /\ up = [k \in Conns |-> <<>>]
  /\ down = [k \in Conns |-> <<>>]
  /\ subC = [r \in Requests |-> "none"]
  /\ subS = [r \in Requests |-> "none"]

\* Connection k is the next one.
IsNext(k) == /\ dialer[k] = NoClient
            /\ \A j \in 1 .. (k - 1) : dialer[j] # NoClient

UpMessage   == [type : {"request", "abort"}, id : Requests] \cup {Disc}
DownMessage == [type : {"message", "channel", "error"}, id : Requests]
                 \cup {Disc}

PortsTypeOK ==
  /\ dialer \in [Conns -> Clients \cup {NoClient}]
  /\ cEnd \in [Conns -> {"none", "open", "closed"}]
  /\ sEnd \in [Conns -> {"none", "open", "closed", "ignored"}]
  /\ up \in [Conns -> Seq(UpMessage)]
  /\ down \in [Conns -> Seq(DownMessage)]
  /\ subC \in [Requests -> {"none", "open", "closed"}]
  /\ subS \in [Requests -> {"none", "open", "final", "closed", "ignored"}]
=============================================================================
