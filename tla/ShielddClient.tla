---------------------------- MODULE ShielddClient ----------------------------
(***************************************************************************)
(* The client of packages/client: an object that is attached once to a     *)
(* provider, holds at most one connection to it, and caches one client per *)
(* service, made from the transport of its connection.                     *)
(*                                                                         *)
(* The calls of a page interleave with the provider's state events, with   *)
(* the answers to requests for a port, and with the `false` by which a     *)
(* provider closes a port.  The provider is external: it may be in any     *)
(* state at any time, says so by an event dispatched at once, and grants a *)
(* port only while it is connected.  All Origins have a record on the page.*)
(* Continuations of a settled promise run before the next event, so        *)
(* confirming the manifest is one step; those of attach() and connect() are*)
(* steps of their own here, which allows more orders than the browser does.*)
(* disconnect() only forwards to the provider.                             *)
(***************************************************************************)
EXTENDS Naturals

CONSTANTS
  Origins,    \* providers of the page
  Callers,    \* calls of attach() and connect()
  Services,   \* service types
  Conns,      \* connections the client may create
  MaxEpochs,  \* bound: times the provider has become disconnected
  None        \* undefined
ASSUME NoneAssumption == None \notin Conns /\ None \notin Origins
ASSUME EpochsAssumption == MaxEpochs \in Nat

States == {"Pending", "Connected", "Disconnected"}

VARIABLES
  origin,      \* attached?.origin
  manifest,    \* attached.confirmManifest
  listening,   \* providerEventListener is on the provider
  connection,  \* this.connection
  service,     \* this.serviceClients: the connection each was made from
  phase,       \* the requestPort of each connection
  port,        \* what became of the port it resolved to
  call,        \* how far each call has come
  waits,       \* the connection whose port a connect() awaits
  told,        \* the state the page's listeners were told last
  state,       \* provider.state()
  epoch,       \* history: times the provider has become disconnected
  grantedIn    \* history: the epoch in which each port was granted

callVars == <<call, waits>>
portVars == <<phase, port, grantedIn>>
vars == <<origin, manifest, listening, connection, service, portVars,
          callVars, told, state, epoch>>

Init ==
  /\ origin = None
  /\ manifest = "none"
  /\ listening = FALSE
  /\ connection = None
  /\ service = [s \in Services |-> None]
  /\ phase = [c \in Conns |-> "unmade"]
  /\ port = [c \in Conns |-> "none"]
  /\ call = [k \in Callers |-> "idle"]
  /\ waits = [k \in Callers |-> None]
  /\ told = None
  /\ state \in States
  /\ epoch = 0
  /\ grantedIn = [c \in Conns |-> 0]
-----------------------------------------------------------------------------
\* The connection goes, the clients of its transport stay.
BugDestroyConnection == connection' = None /\ UNCHANGED service

DestroyConnection ==
  /\ connection' = None
  /\ service' = [s \in Services |-> None]

\* The listener on the provider: Disconnected destroys the connection, and the
\* page's listeners are told.
ProviderEvent(st) ==
  /\ told' = st
  /\ IF st = "Disconnected" THEN DestroyConnection
     ELSE UNCHANGED <<connection, service>>

\* attach() and connect(origin): the first call attaches, a later one must name
\* the same provider.  `next` is what the call does once it is attached.
Attach(k, o, next) ==
  /\ call[k] = "idle"
  /\ \/ /\ origin = None
        /\ origin' = o
        /\ manifest' = "fetching"
        /\ call' = [call EXCEPT ![k] = next]
     \/ /\ origin # None
        /\ call' = [call EXCEPT ![k] = IF o = origin THEN next ELSE "rejected"]
        /\ UNCHANGED <<origin, manifest>>
  /\ UNCHANGED <<listening, connection, service, portVars, waits, told, state,
                 epoch>>

\* The listener is added, and nobody is told what it has missed.
BugManifestConfirmed ==
  /\ manifest = "fetching"
  /\ manifest' = "confirmed"
  /\ listening' = TRUE
  /\ phase' = [c \in Conns |->
                 IF phase[c] = "waiting" THEN "requested" ELSE phase[c]]
  /\ UNCHANGED <<origin, connection, service, port, grantedIn, callVars, told,
                 state, epoch>>

\* The manifest is confirmed: the first attach() emits the synthetic event and
\* adds its listener, and only then do the connections that wait for the
\* manifest request their ports.
ManifestConfirmed ==
  /\ manifest = "fetching"
  /\ manifest' = "confirmed"
  /\ ProviderEvent(state)
  /\ listening' = TRUE
  /\ phase' = [c \in Conns |->
                 IF phase[c] = "waiting" THEN "requested" ELSE phase[c]]
  /\ UNCHANGED <<origin, port, grantedIn, callVars, state, epoch>>

\* It cannot be fetched or parsed: whatever waits for it fails.  The client
\* remains attached.
ManifestRefused ==
  /\ manifest = "fetching"
  /\ manifest' = "refused"
  /\ phase' = [c \in Conns |->
                 IF phase[c] = "waiting" THEN "failed" ELSE phase[c]]
  /\ UNCHANGED <<origin, listening, connection, service, port, grantedIn,
                 callVars, told, state, epoch>>

\* A port is requested at once, whatever is known of the manifest.
BugRequested == "requested"

\* createConnection: the port is requested when the manifest is confirmed.
Requested == CASE manifest = "fetching"  -> "waiting"
               [] manifest = "confirmed" -> "requested"
               [] manifest = "refused"   -> "failed"

\* A connection that is not recorded as made.
BugEnsureConnection ==
  \/ connection # None /\ UNCHANGED <<connection, phase>>
  \/ connection = None /\ connection' \in Conns /\ UNCHANGED phase

\* this.connection ??= this.createConnection()
EnsureConnection ==
  \/ connection # None /\ UNCHANGED <<connection, phase>>
  \/ /\ connection = None
     /\ \E c \in Conns :
          /\ phase[c] = "unmade"
          /\ phase' = [phase EXCEPT ![c] = Requested]
          /\ connection' = c

\* connect() without an origin goes on at once; assertAttached() throws if the
\* client is not attached.
Connect(k) ==
  /\ call[k] = "idle"
  /\ \/ /\ origin = None
        /\ call' = [call EXCEPT ![k] = "rejected"]
        /\ UNCHANGED <<connection, phase, waits>>
     \/ /\ origin # None
        /\ EnsureConnection
        /\ waits' = [waits EXCEPT ![k] = connection']
        /\ call' = [call EXCEPT ![k] = "port"]
  /\ UNCHANGED <<origin, manifest, listening, service, port, grantedIn, told,
                 state, epoch>>

\* attach() returns, or connect() goes on to await the port.
Attached(k) ==
  /\ call[k] \in {"attach", "connect"}
  /\ manifest # "fetching"
  /\ \/ /\ manifest = "refused" \/ call[k] = "attach"
        /\ call' = [call EXCEPT ![k] =
             IF manifest = "refused" THEN "rejected" ELSE "resolved"]
        /\ UNCHANGED <<connection, phase, waits>>
     \/ /\ manifest = "confirmed" /\ call[k] = "connect"
        /\ EnsureConnection
        /\ waits' = [waits EXCEPT ![k] = connection']
        /\ call' = [call EXCEPT ![k] = "port"]
  /\ UNCHANGED <<origin, manifest, listening, service, port, grantedIn, told,
                 state, epoch>>

\* `await this.connection.port`: the port is shared, the state of the provider
\* is looked at each time.
PortAwaited(k) ==
  /\ call[k] = "port"
  /\ phase[waits[k]] \in {"port", "failed"}
  /\ call' = [call EXCEPT ![k] =
       IF phase[waits[k]] = "port" /\ state = "Connected"
       THEN "resolved" ELSE "rejected"]
  /\ UNCHANGED <<origin, manifest, listening, connection, service, portVars,
                 waits, told, state, epoch>>

\* service(s) of a connected provider, the first time.
Service(s) ==
  /\ origin # None /\ state = "Connected"
  /\ service[s] = None
  /\ EnsureConnection
  /\ service' = [service EXCEPT ![s] = connection']
  /\ UNCHANGED <<origin, manifest, listening, port, grantedIn, callVars, told,
                 state, epoch>>

\* requestPort resolves: its port is listened to.
PortArrives(c) ==
  /\ phase[c] = "granted"
  /\ phase' = [phase EXCEPT ![c] = "port"]
  /\ UNCHANGED <<origin, manifest, listening, connection, service, port,
                 grantedIn, callVars, told, state, epoch>>

\* `false` arrives on a port: the connection the client has is destroyed.
PortClosed(c) ==
  /\ phase[c] = "port"
  /\ port[c] = "closing"
  /\ port' = [port EXCEPT ![c] = "closed"]
  /\ DestroyConnection
  /\ UNCHANGED <<origin, manifest, listening, phase, grantedIn, callVars, told,
                 state, epoch>>
-----------------------------------------------------------------------------
\* The provider approves a request for a port, or does not.
Grant(c) ==
  /\ phase[c] = "requested" /\ state = "Connected"
  /\ phase' = [phase EXCEPT ![c] = "granted"]
  /\ port' = [port EXCEPT ![c] = "open"]
  /\ grantedIn' = [grantedIn EXCEPT ![c] = epoch]
  /\ UNCHANGED <<origin, manifest, listening, connection, service, callVars,
                 told, state, epoch>>

Deny(c) ==
  /\ phase[c] = "requested"
  /\ phase' = [phase EXCEPT ![c] = "failed"]
  /\ UNCHANGED <<origin, manifest, listening, connection, service, port,
                 grantedIn, callVars, told, state, epoch>>

ClosePort(c) ==
  /\ port[c] = "open"
  /\ port' = [port EXCEPT ![c] = "closing"]
  /\ UNCHANGED <<origin, manifest, listening, connection, service, phase,
                 grantedIn, callVars, told, state, epoch>>

\* Its state changes, and it dispatches the event.
StateChanges(st) ==
  /\ st # state
  /\ state' = st
  /\ st = "Disconnected" => epoch < MaxEpochs
  /\ epoch' = IF st = "Disconnected" THEN epoch + 1 ELSE epoch
  /\ IF listening THEN ProviderEvent(st)
     ELSE UNCHANGED <<told, connection, service>>
  /\ UNCHANGED <<origin, manifest, listening, portVars, callVars>>

Next ==
  \/ \E k \in Callers, o \in Origins, next \in {"attach", "connect"} :
       Attach(k, o, next)
  \/ ManifestConfirmed
  \/ ManifestRefused
  \/ \E k \in Callers : Connect(k) \/ Attached(k) \/ PortAwaited(k)
  \/ \E s \in Services : Service(s)
  \/ \E c \in Conns : \/ PortArrives(c) \/ PortClosed(c)
                      \/ Grant(c) \/ Deny(c) \/ ClosePort(c)
  \/ \E st \in States : StateChanges(st)

Spec == Init /\ [][Next]_vars
-----------------------------------------------------------------------------
\* The types; a connection that is held was made.
TypeOK ==
  /\ origin \in Origins \cup {None}
  /\ manifest \in {"none", "fetching", "confirmed", "refused"}
  /\ listening \in BOOLEAN
  /\ connection \in {c \in Conns : phase[c] # "unmade"} \cup {None}
  /\ service \in [Services -> Conns \cup {None}]
  /\ phase \in [Conns -> {"unmade", "waiting", "requested", "granted", "port",
                          "failed"}]
  /\ port \in [Conns -> {"none", "open", "closing", "closed"}]
  /\ call \in [Callers -> {"idle", "attach", "connect", "port", "resolved",
                           "rejected"}]
  /\ waits \in [Callers -> Conns \cup {None}]
  /\ told \in States \cup {None}
  /\ state \in States
  /\ epoch \in Nat
  /\ grantedIn \in [Conns -> Nat]

\* A client of a service that service() hands out speaks over the connection
\* the client has now, never over one that has been destroyed.
ServicesCurrent ==
  \A s \in Services : service[s] # None => service[s] = connection

\* The port of the connection that is held was granted since the provider last
\* became disconnected, and has not been closed: neither a state event before
\* the listener was added nor one while the port was on its way is missed.
HeldPortIsCurrent ==
  connection # None =>
    /\ port[connection] # "closed"
    /\ phase[connection] \in {"granted", "port"} =>
         grantedIn[connection] = epoch

\* From the confirmation of the manifest on, the page knows the provider's
\* state: of the events it was not yet listening to, the synthetic one tells it
\* the last.
ToldIsState == listening => told = state

\* Until the listener is there nothing has been requested.
RequestsWait ==
  /\ listening <=> manifest = "confirmed"
  /\ origin = None <=> manifest = "none"
  /\ origin = None => connection = None
  /\ \A c \in Conns :
       /\ phase[c] \in {"requested", "granted", "port"} => listening
       /\ phase[c] = "waiting" => manifest = "fetching"
       /\ port[c] # "none" => phase[c] \in {"granted", "port"}
       /\ grantedIn[c] <= epoch

IInv == /\ TypeOK /\ RequestsWait /\ ServicesCurrent /\ HeldPortIsCurrent
        /\ ToldIsState
=============================================================================
