# TLA+ models of the chainkit discovery layer and commands

This directory holds TLA+ models of the discovery code and of the `join`,
`start` and `create` commands in `src/`, the TLC configurations that
model-check them, and TLAPS proofs about the lifecycle, `start` and `create`
models. Every action is translated from the Go source. `PROJECT.json` maps each
definition to the lines it models. It also lists every run, mutant, finding,
hazard and theorem.

## The system

`src/unnamed/part_001` is the discovery `Server`. It sits on top of an IPFS
node: a repository under `root`, a libp2p host, a Kademlia DHT and a content
store.

- **Lifecycle.** `New` makes the `Server` and its one readiness channel
  `connectedCh`. `Start` runs these steps in order, and any of them can
  return an error:
  1. probes the repo lock (`LockedByOtherProcess`);
  2. loads plugins (go-ipfs registers their datastore types process-wide,
     so a second `LoadPlugins` in one process fails);
  3. initialises the repo on first use (`ipfsInit`);
  4. opens it (`fsrepo.Open`, which takes the lock);
  5. sets the swarm addresses;
  6. builds the node (`core.NewNode`);
  7. builds a DHT, then starts `dhtConnect` in a goroutine.

  `Stop` closes the node, and with it the repo and the lock.
- **Bootstrap.** `dhtConnect` tries each bootstrap peer in turn and ignores
  failures. Its deferred `close(connectedCh)` is the one-shot readiness
  signal.
- **Announce.** It waits for readiness and decodes the chain ID. Then it
  registers the `/chainkit/0.1.0` stream handler, which writes this node's
  PeerInfo. Last, it calls `Provide` on the DHT with a 10 s timeout.
- **Peers.** It waits for readiness and decodes the ID. Then it starts a
  goroutine that ranges over `FindProvidersAsync(tctx, id, 10)`, where `tctx`
  has a 10 s deadline. For each candidate that is not this node and has
  addresses, the goroutine:
  1. opens a stream (on `ctx`);
  2. decodes a PeerInfo;
  3. appends its IPv4 addresses;
  4. sends it on an unbuffered channel.
- **Publish and Join.**
  - `Publish` hard-links the manifest, genesis and image into a temporary
    directory and adds it to the content store. The directory's CID is the
    chain ID.
  - `Join` reads `chainkit.yml`, `genesis.json` and `image.tgz` back under
    `/ipfs/<chainID>`.
- **`join` command.** `src/unnamed/part_000` is the `join` command. It:
  1. allocates ports, starts the `Server` (Stop is deferred), joins, writes
     the manifest and loads the project;
  2. runs the node's `Start` in a goroutine that reports on `errCh`;
  3. installs a SIGINT/SIGTERM handler and selects between the two.

  `ui.Fatal` calls `os.Exit(1)`, so no deferred call runs.
- **`start` command.** `src/cmd/start.go` loads the project and the
  `--join` flag, initializes, starts a discovery Server (Stop deferred), then
  announces a new network or joins one: it writes the genesis and takes one
  value from the peer channel. It then defers `cancel()`, starts the explorer
  container in a goroutine (`startExplorer`, which calls `ui.Fatal` if its
  `docker run` fails) and runs the application with `dockerRun` under the
  same context.
- **`create` command.** `src/cmd/create.go` computes `rootDir`, refuses it
  unless it starts with `GOPATH/src` (a string prefix test) and does not
  exist, sets the Go package path `GoPkg` by trimming `GOPATH/src/`, extracts
  the template tree in Walk order (directories made with `MkdirAll`, `.tmpl`
  files rendered and written without the suffix), prints it with `ui.Tree`
  and builds the app. Any error is `ui.Fatal`; nothing written is removed.
- **Status line.** `src/pkg/ui/ui.go` `Live` prints a status line cut or
  padded to the console width.

## Modules

| Module | Models | State | Actions |
|---|---|---|---|
| `Lifecycle` | `New`, `Start`, `ipfsInit`, `dhtConnect`, `Stop` for a set `Proc` of processes on one root | `pc` (step of Start), `lastErr`, `lock`, `nodeOpen`, `initialized`, `boot[p][k]` (progress of the k-th Start's `dhtConnect`), `chClosed`, `starts`, `plugins` (loaded in p's process) | `StartCall`, `CheckLock`, `LoadPlugins`, `InitRepo`/`IpfsInit`, `OpenRepo`, `SetConfig`, `NewNode`, `NewDHT`, `BootConnect`, `BootClose`, `Stop` |
| `PeerExchange` | `Announce`, `Peers`, its goroutine and caller, the DHT query | `ann`, `handler`, `providers` (DHT records), and per searcher `sp`, `found`, `buf` (the buffered query channel), `qOpen`, `expired`, `cancelled`, `prod`, `cand`, `reading`, `delivered` | `AnnounceCall`, `AnnounceRegister`, `AnnounceProvide`, `PeersCall`, `PeersStart`, `Range`, `OpenStream`, `Decode`, `Receive`; environment: `Bootstrapped`, `DhtEmit`, `DhtClose`, `Timeout`, `Cancel`, `Leave` |
| `Content` | `Publish`, `Join` | `disk`, `store` (set of directories), `pub`, `sandboxes`, `published`, `join`, `info` | `PublishCall`, `PublishTempDir`, `PublishStat`, `PublishLink`, `PublishSerial`, `PublishAdd`, `JoinCall`, `JoinFetch` |
| `ConsoleLine` | `ui.Live` (and `ConsoleWidth`) | `text`, `width`, `msg` (bytes, by UTF-8 class), `phase` | `Cut` (one pass of the first loop), `Pad` (one pass of the second, then print) |
| `JoinCommand` | `joinCmd.Run`, `ui.Fatal`, for a set `Cmd` of `join` processes of one chain ID | `pc`, `how`, `lock`, `app`, `notified`, `pending`, `sent` | `Call(c, i)` for the five fallible calls, `Launch`, `Notify`, `AppReturn`, `Signal`, `SelectErr`, `SelectSignal` |
| `LiveSpec` | what `ui.Live` promises, as one step | `line`, `width`, `printed`, `out` | `Show`: the line fitted to the width (`Fitted`) |
| `StartCommand` | `startCmd.Run`, `start`, `startExplorer`, `ui.Fatal` | `join`, `pc`, `step` (index into `Calls(join)`), `srv`, `peers` (the peer channel), `explorer`, `expChild`, `app`, `cancelled`, `status` | `Call` (each fallible call, or `Fatal`), `Receive`, `Launch`, `RunReturn`, `Cancel`, `Stop`, `ExplorerReturn`; environment: `PeerFound`, `SearchEnd`, `AppExit`, `ExplorerExit`, `Kill` (exec's watcher on cancel), `Interrupt` (Ctrl-C) |
| `Scaffold` | `createCmd.Run`, `create`, `scaffold`, `extractFiles`, `extractFile`, `ui.Tree` | `pc`, `rootDir`, `goPkg`, `next` (Walk position), `disk` (what each destination holds), `mine` (what this command wrote), `attempts` | `Run`, `CheckGoPath`, `Stat`, `Extract`, `Extracted`, `Tree`, `Build`, each with a `Fail` disjunct |
| `LifecycleProofs`, `PeerExchangeProofs`, `ContentProofs`, `StartCommandProofs`, `ScaffoldProofs` | theorems about `Lifecycle`, `PeerExchange`, `Content`, `StartCommand`, `Scaffold` | | |

Each action models the whole step:
- its guard comes from the code's conditions;
- each library call that can fail has a failure disjunct that returns as the
  code returns;
- the failure keeps whatever the earlier steps acquired.

Data is abstracted:
- a PeerInfo is the node it describes;
- a content ID is the directory it names;
- a file's content is a model value;
- a byte of the status line is its UTF-8 class: a lead byte of a w-byte
  rune is w, a continuation byte is 0;
- a path in `Scaffold` is a sequence of one-character strings, so that
  `strings.HasPrefix` and `strings.TrimPrefix` are the code's own tests; a
  directory's content is the set of template entries written into it (an
  entry records whether its `.tmpl` suffix was trimmed), with 0 standing for
  content the user had there;
- template rendering is data: only its failure is kept, as a `Fail` of
  `Extract`.

The IPFS engine is outside the code under model. It appears as environment
actions: the provider store, the query emitting into its buffer and
closing, and the content store. Those are marked `spec_modelled` in the map.
`StartCommand` treats likewise what lies outside `src/`: `docker` and
`dockerRun` run a `docker run` child under `ctx`, killed once `ctx` is
cancelled, as `exec.CommandContext` does; the peer channel is fed by the
Server's search, which ends, and closes it, within its timeout. `start.go`
uses a `Join` that returns a peer channel, an API other than the `Server` of
`part_001`, so the channel is an environment of its own rather than a
composition with `PeerExchange`.

### Refinement

`LiveSpec` says what `Live` does for an ASCII message in one step: print the
message fitted to the console, padded when it fits, else cut to a prefix,
`…` and spaces. `ConsoleLine` instantiates it with the refinement mapping
`line <- spinner, space, the encoded text`, `printed <- phase = "printed"`,
`out <- msg once printed`, and the `console` run checks
`ImplementsLiveSpec == Live!Spec`: every `Cut` is a stutter of `LiveSpec`,
the last `Pad` is its `Show`.

Each module has a `Finished` disjunct. It lets a behaviour stutter once
every call has returned, or waits for ever where the code does. So deadlock
checking stays on and reports only real stops.

## Runs

All runs use `tlc -workers 2 -config <cfg> <MC module>`.

| Run | Expect | Checks | Shows |
|---|---|---|---|
| `lifecycle` | pass | `OneNodePerRoot`, `ReadinessFires` | two processes never both have an open node on one root; every successful Start's bootstrap closes `connectedCh` |
| `lifecycle_contract` | violation | `NoLeakOnFailedStart` | Start failing in `SetConfigKey` or `dht.New` returns still holding the repo lock |
| `peers` | pass | `NoSelfRecord`, `FindableNodesAnswer`, `SearchEndsWhileRead` | no self record; every findable provider has its handler; a read search ends |
| `peers_stop` | violation | `SearchEnds` | a caller that stops reading leaves the goroutine blocked on `ch <- peer` for ever |
| `content` | pass | `JoinNeverPartial`, `RoundTrip` | Join is all-or-nothing, and publish-then-join returns the files |
| `content_unreachable` | violation | `JoinReturns` | Join on an ID nobody serves blocks for ever (no deadline) |
| `console` | pass | `ImplementsLiveSpec` | ASCII messages, widths ≥ 3: the byte-level `Live` implements `LiveSpec` (whose fairness makes the loops end) |
| `join` | pass | `SignalEndsCommand` | two `join` processes: a Ctrl-C always ends the process |
| `start` | pass | `ExitZeroMeansClean` | with or without `--join`, and an empty peer search: status 0 only after the application ended cleanly and the Server was stopped |
| `start_clean` | violation | `CleanEnd` | after a clean application end the deferred `cancel()` kills the explorer's `docker run`: the command exits 0 with the explorer child still running, or the explorer's `ui.Fatal` makes it exit 1 |
| `scaffold` | pass | `NeverClobbers`, `CreatedTreeComplete` | repeated `create`s never write into a directory that was there before, even one left half-written by a failed `create`; a successful one leaves the whole tree without `.tmpl` |
| `scaffold_gopkg` | violation | `GoPkgIsImportPath` | `GOPATH/srcX/app` passes the prefix check, and `GoPkg` is then the absolute path |

Each property of a passing run has a mutant (see `PROJECT.json`): an
operator that changes a mapped definition the way a plausible bug would.
TLC finds the property violated when the mutant replaces the definition.
Examples:
- the lock is not taken on open;
- the bootstrap returns without closing the channel;
- the self filter is dropped;
- Provide runs before the handler is registered;
- the image error is ignored;
- names are swapped;
- the padding runs one space too far;
- the room left in the signal channel is miscounted;
- `dockerRun`'s error is ignored;
- `os.IsExist` is tested instead of `!os.IsNotExist`;
- the `.tmpl` suffix is kept.

### Bounds

- **`lifecycle`:** 2 processes, 2 bootstrap peers and 2 Starts per
  `Server`. Two processes are the least that race on the lock. Two Starts
  reach Start-after-Stop (which fails in `LoadPlugins`) and
  Start-after-failure. Two peers make `dhtConnect` loop more than once. The
  run has 3,410 states.
- **`peers`:** 3 nodes, 1 searcher and `Limit = 2`.
  - The searcher itself announces and can be returned by the DHT.
  - The two other announcers make the limit bind: the query stops at 2
    providers, and with 2 candidates `Range` interleaves with emission.
  - The run has about 232,000 states.
  - The code's limit is 10. With 3 announcers, a limit of 2 exercises
    "limit reached" and "exhausted before the limit".
- **`content`:** 2 contents, 2 Publish sandboxes, and foreign directories
  without the genesis, without the image, and complete. With two contents a
  swap of two artifacts shows. The run has 9,301 states.
- **`console`:** ASCII messages of up to 8 runes and widths 3..6. Messages
  longer than the width by 1 to 5 runes exercise several cuts and the
  padding after a cut. The run has 182 states.
- **`start`:** `--join` empty and one chain ID; every call may fail, the
  search may find a peer or end empty, each container may end on its own or
  be killed, and Ctrl-C may come at any point. The run has 150 states.
- **`scaffold`:** GOPATH/src `/s`; destinations `/s/a` (fresh), `/s/b`
  (existing), `/s` (GOPATH/src itself), `/sa/a` (shares only the string
  prefix), `/t` (outside); a tree of a root, a `.tmpl` file, a directory and
  a file in it, so a file's parent must exist; 3 commands, so a retry after
  a half-written failure happens. The run has 1,157 states. The
  `scaffold_gopkg` run needs one command.
- **`join`:** 2 processes, 2 signals each, and a signal buffer of 1 (as in
  the code). A second signal lands in a full channel and is dropped. The
  run has 481 states.

### Fairness

Weak fairness is assumed only for goroutines and timers the code keeps
running:
- the bootstrap goroutine (`BootConnect`, `BootClose`);
- Announce's steps after readiness;
- the search goroutine's loop;
- the DHT query closing its channel;
- the 10 s timers;
- Live's loops;
- `join`'s own sequential steps and its `select`, except `d.Join`;
- `start`'s main goroutine (`Call` except `s.Join`, `Receive`, `Launch`,
  `RunReturn`, `Cancel`, `Stop`), the explorer goroutine's return, exec's
  kill of a child once `ctx` is cancelled, and the Server's search ending
  (it has a deadline).

No fairness is assumed for:
- **Callers:** the model does not assume a caller calls anything.
- **The user:** the model does not assume anyone presses Ctrl-C.
- **The node's Start:** it may run for ever.
- **`Join` in the commands:** `join` calls it under
  `context.Background()` and `start` under a cancel-only context, so for a
  chain ID nobody serves it never returns (`content_unreachable`).
- **Delivery on an unbuffered channel:** `Receive` needs a reading caller.
  Fairness on it would hide the leak that `peers_stop` shows.
- **Containers:** the application and the explorer may run for ever.

`Scaffold` has no fairness and no liveness property: `create` is one
sequential process whose steps all may fail.

## Proofs (TLAPS)

`LifecycleProofs.tla` proves, for every set of processes, every number of
bootstrap peers and every bound on Starts:

- **`TypeCorrect`: `Spec => []TypeOK`.** It rests on the lemmas `TypeInit`
  and `TypeStep`, with one step per action. `ExceptType` covers the nested
  `EXCEPT` of `NewDHT`.
- **`OneNodePerRootHolds`: `Spec => []OneNodePerRoot`.** This is the
  property the `lifecycle` run checks. `OneNodePerRoot` is not inductive by
  itself. The inductive invariant is `IInv == TypeOK /\ LockInv`, where
  `LockInv` says, for every process `p`:
  - `p` holds the lock while it has an open node or is between `fsrepo.Open`
    and `NewNode`;
  - a `Server` at `NewDHT` or Online has its node open;
  - a `Server` before `NewNode` has none.

  `LockInvInductive` proves `IInv /\ [Next]_vars => LockInv'` with one step
  per action.
  - The delicate steps are `CheckLock` and `OpenRepo`. A free lock means no
    other `Server` has a node.
  - `NewNode`'s failure releases the lock that `p` holds.

  `LockInv` implies `OneNodePerRoot`, because the lock has one holder.
- **`IInvHolds`: `Spec => []IInv`,** the inductive invariant itself.

The only assumption is `ConstAssumption`: `NoProc \notin Proc`,
`NBootstrap \in Nat`, `MaxStarts \in Nat \ {0}`.

`PeerExchangeProofs.tla` proves, for every set of nodes and every bound:

- **`TypeCorrect`.** `TypeOK` alone is not inductive. `Receive` puts the
  contacted candidate `cand[s]` into `delivered`, and only `FlowInv` says
  that this candidate is a node. The lemma `TypeStep` therefore assumes
  `FlowInv`. The type is split into `TypeAnn`, `TypeSearch` and `TypeBuf`
  (lemma `TypeSplit`) for the SMT backend.
- **`NoSelfRecordHolds`** and **`FindableNodesAnswerHolds`**, the two
  invariants of the `peers` run. The inductive invariant is
  `IInv == TypeOK /\ ProvInv /\ FlowInv`:
  - `ProvInv`: every provider has its stream handler, and a node that is
    `"providing"` has one too, because `AnnounceRegister` precedes
    `AnnounceProvide`;
  - `FlowInv`: for each searcher, every buffered record, the candidate
    being opened, decoded or sent, and everything delivered is a provider
    other than the searcher. `DhtEmit` only emits such providers, and
    `Range` moves the buffer head to `cand`.

`ContentProofs.tla` proves, for every failure pattern, and with or without
an unreachable ID:

- **`JoinNeverPartialHolds`** and **`RoundTripHolds`**, the invariants of
  the `content` run. The inductive invariant is
  `IInv == RecInv /\ JoinInv /\ PubInv`:
  - `RecInv` fixes the fields of the `pub` and `join` records;
  - `JoinInv` says Join has fetched exactly `Fetched(join.step)`, each
    artifact under the id resolved for its name, and that a done Join's
    info is what it fetched;
  - `PubInv` says that before link `pub.i` the first `pub.i - 1`
    artifacts are linked (`Linked`) in the sandbox, and that every
    directory added to the store links all three.

  `SameNames` shows that Publish links and Join resolves the same name for
  each artifact. `LinkOrderCovers` shows that the three links cover
  `Art`.

`StartCommandProofs.tla` proves, for every set `Joins` of `--join` values
containing `""`:

- **`TypeCorrect`: `Spec => []TypeOK`.** The type invariant is split into
  `TypeMain` and `TypeRest` (lemma `TypeSplit`), each small enough for the
  SMT backend; `CallsLen` bounds `step`.
- **`ExitZeroMeansCleanHolds`: `Spec => []ExitZeroMeansClean`,** the
  invariant the `start` run checks. Its strengthening `CleanInv` says that
  from the moment `dockerRun` returned nil (`pc` at cancel, stop or end) the
  application is `"ok"`, and status 0 is only set by `Stop`, which stops
  the Server. The fact it needs: nothing changes `app` once it has ended.

`ScaffoldProofs.tla` proves, for every GOPATH, set of destinations, template
tree (parents before children) and number of commands:

- **`NeverClobbersHolds`** and **`CreatedTreeCompleteHolds`**, the two
  invariants of the `scaffold` run. The inductive invariant `PInv` tracks
  what the current command wrote: `mine` is empty before the existence check
  passes, it is `Written(next - 1)` (the first `next - 1` entries, under
  their final names) while extracting and the whole tree after, and from the
  existence check on the destination holds exactly `mine`. `WrittenNext`
  shows one Walk step adds the next entry.

Only TLC checks the following:
- **Liveness.** `ReadinessFires`, `SearchEndsWhileRead`, `SearchEnds`,
  `JoinReturns` and `SignalEndsCommand` rest on fairness and ENABLED, which
  are outside TLAPS's reach.
- **`ConsoleLine`.** Its `RuneCount` rests on the RECURSIVE `RunesFrom`
  operators, which the provers cannot use.
- **The refinement `ImplementsLiveSpec`.** It rests on `ConsoleLine`'s
  RECURSIVE `RuneCount`.

## Not modelled

- **`src/config/config.go` (path helpers).** Pure `path.Join` over the
  project directory, with no state and no failure; the commands take the
  paths as given.
- **`printGettingStarted` and the rest of `ui`** (Info, Success, Error,
  Verbose, Small, Emphasize): they only format output.
- **`Live` on non-ASCII messages and widths 1 and 2.** The byte-wise cut
  `msg[0:len(msg)-4]` panics on a console one or two columns wide and can
  split a multi-byte rune; terminal formatting is outside the system spec,
  and these cases are listed as hazards without a run.
- **The orphan-node window of `join`** (a signal between `go n.Start` and
  `signal.Notify`) is an action of `JoinCommand` but no run states a
  property about it; it is listed as a hazard.
- **The IPFS engine, docker and the builder.** They appear only at their
  interface.
- **The 10 s deadline for dialling.** `OpenStream` follows the code:
  `NewStream` takes `ctx`, not `tctx`, so candidates buffered before the
  deadline are still dialled after it, while spec 4.5 says the search stops
  once its timeout elapses. No run states this as a property; it is listed
  as a hazard.
- **Concurrent first initialisation.** `fsrepo.Init`'s re-check runs under
  a lock that only one process sees, so two processes can both write the
  config. `InitRepo` is one step because the model does not track which
  identity is on disk.
- **Left out as data.** The IPv4 address accumulation in `Peers`, the JSON
  wire format, template rendering, and streams never being closed (listed
  as a hazard).

## Plan for later sittings

1. State and prove action properties of `PeerExchange` (a delivered record
   is never retracted) and of `Content` (a published directory stays in the
   store).
2. Write an abstract discovery spec: start/stop, a readiness event, and a
   finite unordered sequence of peers, and show that `Lifecycle` and
   `PeerExchange`, composed, refine it.
3. Add an open-stream counter to `PeerExchange` for the stream leak at
   `part_001:309`.
4. Compose `JoinCommand` with `Content`'s Join, so that the unreachable-ID
   hang is seen at the command level.
