# Verification of penumbra-web

TLA+ models of the parts of this repository that keep state while other things
happen: the transport that carries requests from a page to the extension's worker and
answers back, the client that connects them, the queries, stores and forms that use
the answers in a page, and the view server and planner that make them. TLC checks each model on small instances;
TLAPS proves the main invariants for every value of the constants.

`PROJECT.json` lists components, runs, mutants, findings, hazards and theorems, and
maps every definition to the lines it translates.

    tlc -config MC_ChannelTransport.cfg MC_ChannelTransport.tla
    tlapm ChannelTransport_proofs.tla

## 1. The system

A web page uses a wallet that lives in a browser extension. Four parts stand between
the code that asks, in queries, stores and forms, and the code that answers, a
service over the view server and the planner:

    page                    content script          extension worker
    ------------------      ------------------      ------------------------------
    queries, stores, forms  CRSessionClient         CRSessionManager
        | fetch                 ^        |               | one per session name
    ShielddClient               |        | Port          v
        | getPort()             |        +---------> CRSession -> handler (adapter)
    channel transport <---------+                        |
        ^    MessagePort                                 v
        |                                          PortStreamSink
        +-- ReadableStream -- PortStreamSource <---------+
                               (content script)   sub-channel, a Port of its own

The handler uses `packages/wasm`: a view server, fed by a block processor, and a
planner, over one storage. The processor, the storage and the handler's own code are
not in this repository.

| component | state | operations | what is hard |
|---|---|---|---|
| channel transport (`transport-dom/src/create.ts`) | the port, `pending` callbacks, the failure of the transport, listeners on abort signals | `unary`, `stream` of three kinds, `transportListener` | two awaits before a request is posted; answer, failure, abort and deadline race |
| session client (`transport-chrome/src/session-client.ts`) | the page's port, the service port or none, `active` | page message, service message, disconnects, close | the worker is stopped at any moment; reconnection is lazy |
| session manager and session (`session-manager.ts`, `session.ts`) | maps of sessions and of ports by name; per session, `pending` abort controllers | `onConnect`, `trackPort`, `killOrigin`, `offerSubChannel`; message, handler, response, abort | validation of a port is asynchronous, messages wait for it; three parties may end a session |
| response stream (`transport-chrome/src/stream/`) | a sink, a source, a queue, a port | write, close, abort, receive, read, cancel, disconnect | the only acknowledgement is a disconnect |
| ShielddClient (`client/src/client.ts`) | attachment, connection, cached service clients | attach, connect, disconnect, service, provider events | concurrent calls; state events before anyone listens; a port that is closed late |
| zquery (`zquery/src/`) | per query: data, loading, error, abort controller, reference count | mount, unmount, revalidate, item, end, failure | overlapping streams write to one store |
| minifront status (`apps/minifront/src/state/status.ts`) | a zquery, a timer | stream end schedules a refetch | a timer that outlives the page's interest |
| status store (`apps/minifront-v2/src/shared/stores/status-store.ts`) | status, flags, a timer, loops that cannot be stopped | initialize, refresh, restartStream, dispose, load, loop, timer | a loop that was disowned goes on beside its successor |
| forms and balances (`transfer-`, `withdraw-`, `deposit-`, `balances-store.ts`, `services/transaction.ts`) | fields, `isLoading`, error, balances | edit, submit, the course of a transaction, load | late results, denials, amounts in two halves |
| view server (`wasm/crate/src/view_server.rs`) | tree, notes and height in memory; storage behind it | new, genesis chunks, scan, flush, reset | storage and memory are written one after the other; any access may fail |
| planner (`planner.rs`, `compliance.rs`, `build.rs`) | none of its own: it reads storage while others write it | plan, select notes, enrich, witness | what it read first is used last |

What makes them correct:

- **transport**: no callback is leaked or forgotten; a failure reaches every call; an
  abort follows its request and reaches the service while the port is open; every timed
  call returns.
- **sessions**: the manager's maps say what the ports are; a client that reconnects
  does not collide with its old session; an ended session cancels what it was doing;
  a page gets one answer; a canceled request ends; a forwarded request is taken up or
  its connection is given up.
- **response streams**: nothing is lost, repeated or swapped, the end is told only
  after the last chunk, success means delivery, neither end waits for ever.
- **queries**: loading never sticks; the newest fetch is the one that can be aborted;
  a stream that nothing overlapped leaves what it sent.
- **client**: what it hands out belongs to the connection it has now, whose port was
  granted since the provider was last disconnected; the page knows the provider's state.
- **status store**: loops do not pile up of themselves; the stream comes back.
- **forms**: a transaction does not overlap another of its form, asks for no more than
  the balance (a withdrawal: as far as doubles tell), and lets go of its form however it ends.
- **view server and planner**: storage and memory are those of a prefix of the chain,
  whatever failed; a finished plan can be witnessed; no note too many is spent.

The hazards of this code, each at its line, are in `PROJECT.json`; those no property
covers yet have a note that says why.

## 2. The modules

| module | models | actions and the code they stand for |
|---|---|---|
| `ChannelTransport` | `create.ts`, `messages.ts` | `Call`/`Connected`/`ConnectRejected`: `unary` and `stream` up to the next await; `Collected`: the input of a server stream is read; `Abort`, `Deadline`, `ChunkDeadline`, `StreamEnd`: signals; `TransportListener`; the service reduced to `ServiceTakes`, `ServiceAnswers`, `ServiceFails`, `ServiceCloses` |
| `ChromePorts` | external: `chrome.runtime.Port` | two FIFO directions per connection, a disconnect behind what was posted; no actions of its own |
| `SessionClient` | `session-client.ts` | `Construct`, `ForwardEvent`, `ContextLost`, `PageClosed`, `End`, `ServiceListener`, `OnClientDisconnect`, `SourceClosed`, `SourceCanceled`, `Destroyed` |
| `SessionManager` | `session-manager.ts`, `session.ts` | `OnConnect`, `OnMessage`, `Validated`, `ValidationFailed`, `OnDisconnect`, `KillOrigin`, the lifecycle of a request (`HandlerReturns`, `HandlerStreams`, `HandlerThrows`, `OnSubConnect`, `SubValidated`, `SubInvalid`, `ResponseEnds`, `OnSubDisconnect`, `PipeBroken`, `SinkTimeout`), `WorkerKilled` |
| `Sessions` | the composition | pages that post requests and aborts, and the two modules above over shared ports |
| `PageContract` | what a page may rely on, whatever carries its requests | abstract: `Ask`, `Answer`, `Fault`, `Leave` |
| `StreamContract` | what a response stream promises | abstract: `Send`, `Finish`, `Deliver`, `End`, `Fail` |
| `PortStream` | `sink.ts`, `source.ts`, `message.ts`, `should-disconnect.ts` | one action per method, listener and timer of the two ends |
| `ZQuery` | `get-slice.ts`, `get-use-hook.ts`, reducers of minifront's transaction list | `Revalidate`, `Mount`, `Unmount`, `Item`, `Ends`, `Fails`, `Leaves`, `ServerChanges` |
| `ShielddClient` | `client.ts`; the provider is external | `Attach`, `Attached`, `Connect`, `PortAwaited`: calls up to their next await; `ManifestConfirmed`, `ManifestRefused`; `Service`; `PortArrives`, `PortClosed`; the provider's `Grant`, `Deny`, `ClosePort`, `StateChanges` |
| `ViewServer` | `view_server.rs`, `view-server.ts`; the block processor is external | `Load`, `ScanGenesisChunk`, `ScanBegins`, `PersistPlanningState`, `ScanEnds`, `CallFails`, `FlushUpdates`; the processor's `Save`, `SaveFails`; `Crash` |
| `TxPlanner` | `planner.rs`, `compliance.rs`, `get_notes`, `witness` | `Plan`, `ReadWindow`, `SelectNotes` (one action's), `ReadParameters`, `EnrichTransfers`, `EnrichWithdrawals`, `PlanFails`; `NoteSpent` |
| `Wallet` | the composition | view server and planner over one storage |
| `StatusStore` | `status-store.ts` | `Initialize`, `OnConnected`, `Refresh`, `RestartStream`, `Dispose`, `LoadSettles`, `Receive`, `LoopFails`, `LoopEnds`, `TimerFires` |
| `Amounts` | `lo-hi.ts` | operators only |
| `TransactionForms` | transfer, withdraw, deposit and balances stores, `transaction.ts` | `Edit`, `Submit`, `SubmitDeposit`, `DepositStarts`; `Proceeds`, `Confirmed`, `Denied`, `Fails`; `AskForBalances`, `BalancesLoaded`, `Dispose`, `ConnectionChanges` |

`Wallet` composes in the same way: the view server and its processor write `stored` and
`window`, the planner reads them between two awaits; `spent`, which the processor writes
too, is the planner's as nothing else reads it. `TransactionForms` uses the arithmetic of
`Amounts`.

`Sessions` composes `ChromePorts`, `SessionClient` and `SessionManager` through shared
variables: the two components own different variables and meet only in those of the
ports. A response stream is one step of `Sessions` (the sink pipes, then is final) and
is refined in `PortStream`, which has a port to itself.

`ChannelTransport` and `Sessions` are two sides of a page's message port, and each has
its own reduced form of the other. What the page may rely on is `PageContract`:
`Sessions` implements it (`KeepsContract`, theorem `ContractIsKept`), and the service of
`ChannelTransport` allows it: an answer only to a request it has taken, one error after a
stream, nothing after a fault. The contract knows no aborts; of them the service takes
over what `Handle` does, so that a request it was told to abort gets an error or nothing.
Nor does it say what becomes of work whose page is gone: what is under way is canceled
with the port, but a message still held for validation may be taken up afterwards
(`ServiceTakes` of a closed port), and then its abort has nowhere to go. That is what
`sessions_late_request` shows of the sessions, and `CancelReachesService` speaks only of
what the service works on while the port is open.
That the service has these behaviours is read off the two, not proved. What `Sessions` assumes of its
pages, in `PagePosts`, is proved of the transport (theorem `PostsInTurn`): a request is
posted once, its abort once and after it.

**Granularity.** JavaScript runs to completion, so an action is the code between two
awaits, or one event listener with everything it calls, or a batch of continuations
that no other event can separate (`Validated` handles all held messages). Where several
listeners react to one abort signal (`AbortSessions`, `KillOrigin`), the action is all of
them. An object is named by what makes it unique in a run: a connection by its number,
a request by its id, a fetch by its order.

**Abstractions.** Messages are records of a type and a request id; payloads are left
out, and a chunk is its position. One "fault" stands for everything that fails a page's
transport: `false`, an error without a request id, an unknown item, a `messageerror`.
Ids and sub-channel names are unique as `crypto.randomUUID` makes them; so 'Port already
tracked' (session-manager.ts:169-171) is unreachable and has no action. Nor has 'Request
collision' (session.ts:99-101): with unique ids it takes a request that arrives twice,
and theorem `TakenOnce` says that none does, whichever connections it goes through.

In `ShielddClient` a provider grants a port only while it is connected, and dispatches
the event of a change at once. In `ViewServer` a note is one member of a set, the chain
says in which block it is, and a position is a block; the storage is one record that is
saved in one transaction, as the processor's database does. In `TxPlanner` an action is
its kind, asset and amount, and a nonce is the number of the action it was made for. In
`StatusStore` a status is whether there is one; in `TransactionForms` a form is the
amount it holds. Base units are exact there, as `bigint` and BigNumber are; a number the
forms compare is the rank of a double (`Double`), of which the module assumes that
rounding keeps the order, and that amounts below 10^15 (`Precision`) stay apart. So
`Covered` is exact for a send, which compares base units, and says of a withdrawal, which
compares doubles, that it exceeds the low half of the balance only by what rounding hides,
and only from 10^15 base units up. That happens in the code (with 10^18 units of an asset
of 18 decimals the form lets "1.000000000000000001" pass and the planner is asked for one
unit more than there is) and in the run, which has such an amount.

**History variables** record what happened for the properties and constrain nothing:
`sentOn`, `abortOn` (transport), `late`, `posted` (sessions), `quiet` (zquery), `epoch`,
`grantedIn` (client), `offered` (planner), `wanted`, `resets` (status store; the second
is also a bound).
The operators named `Bug...` are plausible faults of the definition that follows each;
nothing uses them except the mutants.

## 3. The runs

| run | instance | states | shows |
|---|---|---|---|
| `transport` | one unary and one server-streaming call, both timed, one port | 22,460 | `PendingExact`, `FailureIsTotal`, `AbortFollowsRequest`, `AbortIsEmitted`, `CancelReachesService`, `EveryCallReturns` |
| `sessions` | one client, a unary and a streaming request, two connections, one death of the worker | 867,578 | `SessionsExact`, `NoCollision`, `OpenIsTracked`, `AbortCancelsPending`, `KeepsContract`: `Sessions` implements `PageContract` |
| `sessions_live` | the same with the streaming request only | about 10,000 | `CanceledEnds`, `RequestIsTaken` |
| `port_stream` | up to three chunks | 1,304 | `SuccessIsDelivered`, `SinkSettles`, `ReaderLearns`, and that `PortStream` implements `StreamContract` |
| `zquery` | two components, two items, three fetches | 1.6 million (symmetry) | `LoadingIsLive`, `NewestIsCurrent`, `QuietIsExact` |
| `client` | two calls, two providers, two services, three connections, two disconnections of the provider | 514,364 (symmetry) | `ServicesCurrent`, `HeldPortIsCurrent`, `ToldIsState` |
| `wallet` | three notes in three blocks, the genesis block in two parts, five requests of up to two actions | 1,950,382 | `StoredIsPrefix`, `MemoryIsPrefix`, `WindowNotBehind`, `PlanIsWitnessed`, `SelectionMinimal`, `NonceShared` |
| `status_store` | three loads at a time, two resets | 3,229 | `LoopsAreCounted`, `NoStall`, `StreamRevives` |
| `transaction_forms` | two calls, two amounts, halves of three values, numbers that tell three amounts apart | 455,922 | `OneInFlight`, `Covered`, `SubmitSettles` |

Why the bounds are enough. Two calls are all a race on the one `port` variable and the
one `pending` map takes, and a duplex call registers like the unary one and is answered
like the streaming one. Two connections are a session and its successor under one name;
one death of the worker falls anywhere in both. Sessions of different clients share
only the maps, keyed by name, and `killOrigin`, which treats them alike. Three chunks
let one be read, one queued and one on the wire. Three fetches are one that is current,
one overtaken and one aborted; two items are one kept and one lost.
`sessions_live` has one request, so that a request only travels on a first connection;
that a second one finds a session is `NoCollision` in `sessions`, which has two.
Two calls of the client share whatever one of them has made; three connections are one
that is destroyed while its port is on its way, one that is closed late and one that is
current. Three blocks are the genesis block, one that is recent and one that carries a
new window and makes a note too old; three notes of amounts 1, 2, 2 make one, two and
three of them necessary, and the limit of two spends bites. Two actions are all that two
fetches of compliance data can set apart. Two resets of the status store leave two
disowned loops beside a current one; three loads are two that overlap and one that comes
after. With halves of 0 to 2 the amounts 1 and 3 are without and with a high half, and
balances of 2 and 3 units show as the same number; the theorem has halves of any size and
any rounding that keeps the order.

The bounded counters are fetches, connections, chunks, deaths (`MaxFetches`, `MaxConns`,
`MaxChunks`, `MaxDeaths`), disconnections of the provider (`MaxEpochs`), blocks
(`MaxHeight`), loads (`MaxLoads`) and resets (`MaxResets`). Deadlock is not checked: each system may be at rest, when every page has
gone, every call has returned or the bound is used up.

Symmetry is used in `zquery`, among components and among items, and in `client`, among
what its sets hold, for invariants only.

### Where the code and what is said of it differ

| run | said | done |
|---|---|---|
| `transport_stream_abort` | a stream canceled before it starts emits an abort (a test) | not if it is canceled while its input is being read: the request goes out and no abort does |
| `sessions_late_request` | an aborted session cancels all pending requests (a comment) | a request held back for validation starts afterwards, in a session that is over |
| `zquery_lost_items` | `onEnd` discards what is from a previous stream (an example) | the end of a previous stream discards what is from the newer one |

`AbortFollowsRequest` holds where `getPort()` always gives the same port, as the one of
`ShielddClient` does (run `transport`, and the theorem `AbortsFollow` for any number of
calls). Where it does not, two first calls open two ports and an abort may go to the
wrong one. Other things the code does, about which nothing is promised, are in the notes
of the hazards: a sub-channel still being validated when its session ends stays open, a
fetch started while its query is not shown cannot be aborted later, two actions of a plan
may select one note, a denial empties the form as a success does.

### Fairness

A step is weakly fair when the browser takes it of itself: an event loop delivers a
message or a disconnect that has arrived, a timer expires, a promise the code makes
settles (the connection of a transport is raced with a timeout, validation of a port
ends, the input of a stream yields, a handler told to stop throws, a reader reads on).
Nothing obliges a page to call or abort, a handler to answer, a response to end, the
worker to live or a document to stay. `EveryCallReturns` is for calls with a timeout:
the others wait for the service, which owes them nothing. `ZQuery` assumes no fairness;
that loading ends is stated as the existence of a fetch whose `finally` is to come.

`StatusStore`: a load settles, as `getStatus` is a unary call and the transport gives
each a deadline (60 seconds unless the page says otherwise, create.ts:88), and a timer
fires; the stream owes nothing, and `StreamRevives` asks only that it be started again.
`TransactionForms`: plan, authorisation and build are calls, and a broadcast is a stream
with a deadline for each chunk, so each ends in an answer, a denial or an error; the
wallet that signs a deposit has no deadline, and `SubmitSettles` leaves deposits out.
`ShielddClient` and `Wallet` state no fairness.

## 4. The proofs

| module | proved | argument |
|---|---|---|
| `ChannelTransport_proofs` | `TypeOK`, `PendingExact`, `FailureIsTotal`, `AbortIsEmitted`, `AbortFollowsRequest`; steps: `PostsInTurn`, `DecidedOnce` | `IInv` adds `ListenersExact`: a call listens for its abort exactly when its request was posted, a port is then known, the call waits or has returned, and an abort was posted only for a listener that fired. Without it nothing relates `abortOn` to `sentOn`, and a second abort could not be ruled out. `DecidedOnce` needs that a call without a port is undecided, and that what is settled is pending, so undecided. |
| `Sessions_proofs` | `TypeOK`, `SessionsExact`, `NoCollision`, `OpenIsTracked`, `AbortCancelsPending`, `KeepsContract`; steps: `TakenOnce`, `NoneIsDropped` | `IInv` adds what joins the two sides: only the service's own end cuts a connection (`CutByService`), and a client dials only when its last connection is over (`OneDialed`), so that it has no session then; a connection has a session that is not aborted exactly while its end is open (`Accepted`); and a request under way has a session, and is on its map or canceled (`TakenUp`). One lemma, `CutKeeps`, is the end of sessions, whoever ends them. On top of it `Answered` is inductive: a request is in one place (`Travels`: with its client, on one connection, held back, or taken up), and what is on the wire or at the page was told by the session that took the request up, no more than a stream before the lifecycle is over, and an error only behind a stream (`Told`). The refinement then looks only at steps that post, that let a page hear, or that close it. `NoneIsDropped` is the safety side of `RequestIsTaken`: a posted request stays where it is until the next place has it, its client is closed, or the connection that has it is over. |
| `PortStream_proofs` | `TypeOK`, `SuccessIsDelivered`, the safety part of `Implements` | `IInv` numbers the chunks through reader, queue and wire (`InOrder`, `WireInOrder`) and says how the states of the two ends follow each other (`EndsAgree`). The refinement has a lemma per action: a step of the contract or a stutter. |
| `ZQuery_proofs` | `TypeOK`, `LoadingIsLive`, `NewestIsCurrent`, `QuietIsExact` | `IInv` adds that fetches are numbered in order of start, that a fetch not started has received nothing, and that a quiet fetch is alone while it is the newest, with what it received in the store. `referenceCount` needs the cardinality of a set with one member more or less. |
| `ShielddClient_proofs` | `TypeOK`, `ServicesCurrent`, `HeldPortIsCurrent`, `ToldIsState` | `IInv` adds `RequestsWait`: no port is requested or granted before the listener is on the provider. Without it a port could be granted in an epoch whose end nobody hears. |
| `Wallet_proofs` | `TypeOK`, `StoredIsPrefix`, `MemoryIsPrefix`, `WindowNotBehind`, `PlanIsWitnessed`, `NonceShared`, `SelectionMinimal`; steps: `StorageOnlyGrows`, `RejectsOnlyWhenShort` | `IInv` says what connects storage, flush and memory: sizes and trees are those of prefixes of the chain, what is flushed begins at or before the end of what is stored (`FlushedExact`), and the window is ahead of all three, also while a scan is under way (`WindowAhead`). Plans follow, as stored notes stay stored (`ChosenStored`). The selection of notes rests on lemmas about sums of amounts: a sum may be taken in any order (`TotalAny`), and no set of at most as many notes is worth more than the largest ones (`LargestSuffice`). They are proved by a least counterexample among the finite subsets, ordered by inclusion, as the library's induction theorems cannot be instantiated. |
| `StatusStore_proofs` | `TypeOK`, `FlagsAreLive`, `LoopsAreCounted`, `NoStall` | `IInv` adds `ErrorIsPending`: an error that is shown has its reconnect scheduled. Without it the end of a loop that finds another's error would schedule nothing. |
| `TransactionForms_proofs` | `TypeOK`, `OneInFlight`, `Covered` | `IInv` adds that stage, form and request of a run agree. `Covered` rests on two lemmas: an amount is its halves joined, and a shift no half reaches keeps the order of pairs, so that the send form's odd comparison is right. For withdrawals `RoundingHides` says what a comparison of rounded numbers lets through. |

They hold for any set of calls, kinds, timeouts and ports; any clients, requests and
origins, and any number of connections and of deaths; responses of any length; any
finite set of components, any items, any number of fetches; any set of calls, services
and connections of the client; a chain of any length, with any notes and requests; any
bounds of the stores, any amounts, halves of any size, any rounding that keeps the order
of amounts. Assumptions are those the
modules name (`KindAssumption`, `TimedAssumption`, `PortAssumption`, `ConnsAssumption`,
`NoClientAssumption`, `PageAssumption`, `StreamingAssumption`, `DeathsAssumption`,
`ChunksAssumption`, `NotesAssumption`, `AmountAssumption`, `RequestsAssumption`,
`FetchesAssumption`, `ComponentsAssumption`, `NoneAssumption`, `EpochsAssumption`,
`HeightAssumption`, `ChunkAssumption`, `WindowAssumption`, `UpdatesAssumption`,
`BoundsAssumption`, `BaseAssumption`, `ValuesAssumption`, `ShiftAssumption`,
`LoadsAssumption`, `DoubleAssumption`), and for `AbortsFollow` and `PostsInTurn` that all ports
`getPort()` may give are equal, stated in the theorems.

Only model-checked: every liveness property and the fairness part of `Implements`, which
are out of the prover's reach, as is ENABLED. No module uses a RECURSIVE
operator, with which the prover has no SMT backend.

## 5. Not modelled

- `offerStreamRequest` and `acceptSubChannel`: requests that stream from the page; both
  are reachable in `__DEV__` builds only.
- The back-pressure of a response stream that its caller holds, and the conversion
  between iterables and streams (`transport-dom/src/stream.ts`).
- The body of a handler and of the adapter that calls it: a handler may answer, fail,
  stream or wait.
- How a port's sender is checked: validation succeeds, fails or waits.
- A zquery whose fetch is one promise, selectors, and the timer of minifront's status.
- Fee estimates, the receive address, and the stores that load once; the wallet of the
  other chain, its chains, and the choice of an asset while a form is filled in.
- `new_snapshot()` and `initialize_from_snapshot()` of the view server, which start it from
  a frontier instead of the stored tree; nothing under `src/` calls the latter. Nor an
  insertion into the tree that fails halfway through a block (view_server.rs:202, 311),
  which takes a full tree.
- Memo, fees, anchors of the compliance tree, keys, and every proof of a transaction.
- Rendering, generated code, encodings, cryptography, bundled data, mocks. They are most
  of the repository's lines: component libraries and their stories, pages, and pure
  projections of messages, which keep no state that the rest depends on.

## 6. What could follow

1. `ChannelTransport` over `PortStream`: a response stream whose call has been settled.
2. Fee estimates of the transfer form, which overlap and are not told apart.
3. A plan of several actions over notes that an earlier action has chosen, once the
   planner says what it promises of it.
