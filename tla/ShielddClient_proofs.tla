------------------------ MODULE ShielddClient_proofs ------------------------
(***************************************************************************)
(* What the runs check of ShielddClient, for any providers, calls,         *)
(* services and connections: IInv is inductive.                            *)
(***************************************************************************)
EXTENDS ShielddClient, TLAPS

\* A step keeps the types.
LEMMA TypeStep ==
  ASSUME IInv, [Next]_vars PROVE TypeOK'
<1> USE NoneAssumption
    DEF IInv, TypeOK, RequestsWait, States,
        callVars, portVars
<1>1. ASSUME NEW k \in Callers, NEW o \in Origins,
                      NEW next \in {"attach", "connect"}, Attach(k, o, next)
      PROVE  TypeOK'
  BY <1>1 DEF Attach
<1>2. CASE ManifestConfirmed
  BY <1>2 DEF ManifestConfirmed, ProviderEvent, DestroyConnection
<1>3. CASE ManifestRefused
  BY <1>3 DEF ManifestRefused
<1>4. ASSUME NEW k \in Callers, Connect(k)
      PROVE  TypeOK'
  BY <1>4 DEF Connect, EnsureConnection, Requested
<1>5. ASSUME NEW k \in Callers, Attached(k)
      PROVE  TypeOK'
  BY <1>5 DEF Attached, EnsureConnection, Requested
<1>6. ASSUME NEW k \in Callers, PortAwaited(k)
      PROVE  TypeOK'
  BY <1>6 DEF PortAwaited
<1>7. ASSUME NEW s \in Services, Service(s)
      PROVE  TypeOK'
  BY <1>7 DEF Service, EnsureConnection, Requested
<1>8. ASSUME NEW c \in Conns, PortArrives(c)
      PROVE  TypeOK'
  BY <1>8 DEF PortArrives
<1>9. ASSUME NEW c \in Conns, PortClosed(c)
      PROVE  TypeOK'
  BY <1>9 DEF PortClosed, DestroyConnection
<1>10. ASSUME NEW c \in Conns, Grant(c)
      PROVE  TypeOK'
  BY <1>10 DEF Grant
<1>11. ASSUME NEW c \in Conns, Deny(c)
      PROVE  TypeOK'
  BY <1>11 DEF Deny
<1>12. ASSUME NEW c \in Conns, ClosePort(c)
      PROVE  TypeOK'
  BY <1>12 DEF ClosePort
<1>13. ASSUME NEW st \in States, StateChanges(st)
      PROVE  TypeOK'
  BY <1>13 DEF StateChanges, ProviderEvent,
       DestroyConnection
<1>14. CASE UNCHANGED vars
  BY <1>14 DEF vars
<1> QED
  BY <1>1, <1>2, <1>3, <1>4, <1>5, <1>6, <1>7,
     <1>8, <1>9, <1>10, <1>11, <1>12, <1>13, <1>14 DEF Next

\* No step requests a port before the listener is there.
LEMMA WaitStep ==
  ASSUME IInv, [Next]_vars PROVE RequestsWait'
<1> USE NoneAssumption
    DEF IInv, TypeOK, RequestsWait, States,
        callVars, portVars
<1>1. ASSUME NEW k \in Callers, NEW o \in Origins,
                      NEW next \in {"attach", "connect"}, Attach(k, o, next)
      PROVE  RequestsWait'
  BY <1>1 DEF Attach
<1>2. CASE ManifestConfirmed
  BY <1>2 DEF ManifestConfirmed, ProviderEvent, DestroyConnection
<1>3. CASE ManifestRefused
  BY <1>3 DEF ManifestRefused
<1>4. ASSUME NEW k \in Callers, Connect(k)
      PROVE  RequestsWait'
  BY <1>4 DEF Connect, EnsureConnection, Requested
<1>5. ASSUME NEW k \in Callers, Attached(k)
      PROVE  RequestsWait'
  BY <1>5 DEF Attached, EnsureConnection, Requested
<1>6. ASSUME NEW k \in Callers, PortAwaited(k)
      PROVE  RequestsWait'
  BY <1>6 DEF PortAwaited
<1>7. ASSUME NEW s \in Services, Service(s)
      PROVE  RequestsWait'
  BY <1>7 DEF Service, EnsureConnection, Requested
<1>8. ASSUME NEW c \in Conns, PortArrives(c)
      PROVE  RequestsWait'
  BY <1>8 DEF PortArrives
<1>9. ASSUME NEW c \in Conns, PortClosed(c)
      PROVE  RequestsWait'
  BY <1>9 DEF PortClosed, DestroyConnection
<1>10. ASSUME NEW c \in Conns, Grant(c)
      PROVE  RequestsWait'
  BY <1>10 DEF Grant
<1>11. ASSUME NEW c \in Conns, Deny(c)
      PROVE  RequestsWait'
  BY <1>11 DEF Deny
<1>12. ASSUME NEW c \in Conns, ClosePort(c)
      PROVE  RequestsWait'
  BY <1>12 DEF ClosePort
<1>13. ASSUME NEW st \in States, StateChanges(st)
      PROVE  RequestsWait'
  BY <1>13 DEF StateChanges, ProviderEvent,
       DestroyConnection
<1>14. CASE UNCHANGED vars
  BY <1>14 DEF vars
<1> QED
  BY <1>1, <1>2, <1>3, <1>4, <1>5, <1>6, <1>7,
     <1>8, <1>9, <1>10, <1>11, <1>12, <1>13, <1>14 DEF Next

\* No step leaves a service client behind whose connection has gone.
LEMMA ServicesStep ==
  ASSUME IInv, [Next]_vars PROVE ServicesCurrent'
<1> USE NoneAssumption
    DEF IInv, TypeOK, RequestsWait, ServicesCurrent, States,
        callVars, portVars
<1>1. ASSUME NEW k \in Callers, NEW o \in Origins,
                      NEW next \in {"attach", "connect"}, Attach(k, o, next)
      PROVE  ServicesCurrent'
  BY <1>1 DEF Attach
<1>2. CASE ManifestConfirmed
  BY <1>2 DEF ManifestConfirmed, ProviderEvent, DestroyConnection
<1>3. CASE ManifestRefused
  BY <1>3 DEF ManifestRefused
<1>4. ASSUME NEW k \in Callers, Connect(k)
      PROVE  ServicesCurrent'
  BY <1>4 DEF Connect, EnsureConnection, Requested
<1>5. ASSUME NEW k \in Callers, Attached(k)
      PROVE  ServicesCurrent'
  BY <1>5 DEF Attached, EnsureConnection, Requested
<1>6. ASSUME NEW k \in Callers, PortAwaited(k)
      PROVE  ServicesCurrent'
  BY <1>6 DEF PortAwaited
<1>7. ASSUME NEW s \in Services, Service(s)
      PROVE  ServicesCurrent'
  BY <1>7 DEF Service, EnsureConnection, Requested
<1>8. ASSUME NEW c \in Conns, PortArrives(c)
      PROVE  ServicesCurrent'
  BY <1>8 DEF PortArrives
<1>9. ASSUME NEW c \in Conns, PortClosed(c)
      PROVE  ServicesCurrent'
  BY <1>9 DEF PortClosed, DestroyConnection
<1>10. ASSUME NEW c \in Conns, Grant(c)
      PROVE  ServicesCurrent'
  BY <1>10 DEF Grant
<1>11. ASSUME NEW c \in Conns, Deny(c)
      PROVE  ServicesCurrent'
  BY <1>11 DEF Deny
<1>12. ASSUME NEW c \in Conns, ClosePort(c)
      PROVE  ServicesCurrent'
  BY <1>12 DEF ClosePort
<1>13. ASSUME NEW st \in States, StateChanges(st)
      PROVE  ServicesCurrent'
  BY <1>13 DEF StateChanges, ProviderEvent,
       DestroyConnection
<1>14. CASE UNCHANGED vars
  BY <1>14 DEF vars
<1> QED
  BY <1>1, <1>2, <1>3, <1>4, <1>5, <1>6, <1>7,
     <1>8, <1>9, <1>10, <1>11, <1>12, <1>13, <1>14 DEF Next

\* No step keeps a port that was granted before a disconnection or was
\* closed.
LEMMA PortStep ==
  ASSUME IInv, [Next]_vars PROVE HeldPortIsCurrent'
<1> USE NoneAssumption
    DEF IInv, TypeOK, RequestsWait, HeldPortIsCurrent, States,
        callVars, portVars
<1>1. ASSUME NEW k \in Callers, NEW o \in Origins,
                      NEW next \in {"attach", "connect"}, Attach(k, o, next)
      PROVE  HeldPortIsCurrent'
  BY <1>1 DEF Attach
<1>2. CASE ManifestConfirmed
  BY <1>2 DEF ManifestConfirmed, ProviderEvent, DestroyConnection
<1>3. CASE ManifestRefused
  BY <1>3 DEF ManifestRefused
<1>4. ASSUME NEW k \in Callers, Connect(k)
      PROVE  HeldPortIsCurrent'
  BY <1>4 DEF Connect, EnsureConnection, Requested
<1>5. ASSUME NEW k \in Callers, Attached(k)
      PROVE  HeldPortIsCurrent'
  BY <1>5 DEF Attached, EnsureConnection, Requested
<1>6. ASSUME NEW k \in Callers, PortAwaited(k)
      PROVE  HeldPortIsCurrent'
  BY <1>6 DEF PortAwaited
<1>7. ASSUME NEW s \in Services, Service(s)
      PROVE  HeldPortIsCurrent'
  BY <1>7 DEF Service, EnsureConnection, Requested
<1>8. ASSUME NEW c \in Conns, PortArrives(c)
      PROVE  HeldPortIsCurrent'
  BY <1>8 DEF PortArrives
<1>9. ASSUME NEW c \in Conns, PortClosed(c)
      PROVE  HeldPortIsCurrent'
  BY <1>9 DEF PortClosed, DestroyConnection
<1>10. ASSUME NEW c \in Conns, Grant(c)
      PROVE  HeldPortIsCurrent'
  BY <1>10 DEF Grant
<1>11. ASSUME NEW c \in Conns, Deny(c)
      PROVE  HeldPortIsCurrent'
  BY <1>11 DEF Deny
<1>12. ASSUME NEW c \in Conns, ClosePort(c)
      PROVE  HeldPortIsCurrent'
  BY <1>12 DEF ClosePort
<1>13. ASSUME NEW st \in States, StateChanges(st)
      PROVE  HeldPortIsCurrent'
  BY <1>13 DEF StateChanges, ProviderEvent,
       DestroyConnection
<1>14. CASE UNCHANGED vars
  BY <1>14 DEF vars
<1> QED
  BY <1>1, <1>2, <1>3, <1>4, <1>5, <1>6, <1>7,
     <1>8, <1>9, <1>10, <1>11, <1>12, <1>13, <1>14 DEF Next

\* No event is missed by the page once the listener is there.
LEMMA ToldStep ==
  ASSUME IInv, [Next]_vars PROVE ToldIsState'
<1> USE NoneAssumption
    DEF IInv, TypeOK, ToldIsState, States,
        callVars, portVars
<1>1. ASSUME NEW k \in Callers, NEW o \in Origins,
                      NEW next \in {"attach", "connect"}, Attach(k, o, next)
      PROVE  ToldIsState'
  BY <1>1 DEF Attach
<1>2. CASE ManifestConfirmed
  BY <1>2 DEF ManifestConfirmed, ProviderEvent, DestroyConnection
<1>3. CASE ManifestRefused
  BY <1>3 DEF ManifestRefused
<1>4. ASSUME NEW k \in Callers, Connect(k)
      PROVE  ToldIsState'
  BY <1>4 DEF Connect, EnsureConnection, Requested
<1>5. ASSUME NEW k \in Callers, Attached(k)
      PROVE  ToldIsState'
  BY <1>5 DEF Attached, EnsureConnection, Requested
<1>6. ASSUME NEW k \in Callers, PortAwaited(k)
      PROVE  ToldIsState'
  BY <1>6 DEF PortAwaited
<1>7. ASSUME NEW s \in Services, Service(s)
      PROVE  ToldIsState'
  BY <1>7 DEF Service, EnsureConnection, Requested
<1>8. ASSUME NEW c \in Conns, PortArrives(c)
      PROVE  ToldIsState'
  BY <1>8 DEF PortArrives
<1>9. ASSUME NEW c \in Conns, PortClosed(c)
      PROVE  ToldIsState'
  BY <1>9 DEF PortClosed, DestroyConnection
<1>10. ASSUME NEW c \in Conns, Grant(c)
      PROVE  ToldIsState'
  BY <1>10 DEF Grant
<1>11. ASSUME NEW c \in Conns, Deny(c)
      PROVE  ToldIsState'
  BY <1>11 DEF Deny
<1>12. ASSUME NEW c \in Conns, ClosePort(c)
      PROVE  ToldIsState'
  BY <1>12 DEF ClosePort
<1>13. ASSUME NEW st \in States, StateChanges(st)
      PROVE  ToldIsState'
  BY <1>13 DEF StateChanges, ProviderEvent,
       DestroyConnection
<1>14. CASE UNCHANGED vars
  BY <1>14 DEF vars
<1> QED
  BY <1>1, <1>2, <1>3, <1>4, <1>5, <1>6, <1>7,
     <1>8, <1>9, <1>10, <1>11, <1>12, <1>13, <1>14 DEF Next

\* The client starts detached, with nothing requested.
LEMMA InitIInv == Init => IInv
<1> SUFFICES ASSUME Init PROVE IInv
  OBVIOUS
<1> USE NoneAssumption DEF Init
<1>1. TypeOK
  BY DEF TypeOK, States
<1>2. RequestsWait
  BY DEF RequestsWait
<1>3. ServicesCurrent /\ HeldPortIsCurrent /\ ToldIsState
  BY DEF ServicesCurrent, HeldPortIsCurrent, ToldIsState
<1> QED
  BY <1>1, <1>2, <1>3 DEF IInv

\* The inductive invariant: what the runs check, and that nothing is requested
\* before the client listens to its provider.
THEOREM InvariantHolds == Spec => []IInv
<1>1. ASSUME IInv, [Next]_vars PROVE IInv'
  BY <1>1, TypeStep, WaitStep, ServicesStep, PortStep, ToldStep DEF IInv
<1> QED
  BY InitIInv, <1>1, PTL DEF Spec

\* The client keeps its types.
THEOREM TypeCorrect == Spec => []TypeOK
<1>1. IInv => TypeOK
  BY DEF IInv
<1> QED
  BY InvariantHolds, <1>1, PTL

\* A cached client of a service is one of the connection that is held: state
\* events and closed ports clear the cache with the connection.
THEOREM ServiceClientsAreCurrent == Spec => []ServicesCurrent
<1>1. IInv => ServicesCurrent
  BY DEF IInv
<1> QED
  BY InvariantHolds, <1>1, PTL

\* The connection that is held has no port from before a disconnection of the
\* provider, and none that was closed, whatever the order in which manifests,
\* ports and events arrive.
THEOREM PortsAreCurrent == Spec => []HeldPortIsCurrent
<1>1. IInv => HeldPortIsCurrent
  BY DEF IInv
<1> QED
  BY InvariantHolds, <1>1, PTL

\* From the confirmation of the manifest on the page knows the state of its
\* provider.
THEOREM PageKnowsState == Spec => []ToldIsState
<1>1. IInv => ToldIsState
  BY DEF IInv
<1> QED
  BY InvariantHolds, <1>1, PTL
=============================================================================
