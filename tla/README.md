# TLA+ models of the XCCL bootstrap and the Level Zero device API

This directory holds TLA+ models of two parts of torchcomms' XPU backend:

- the XCCL bootstrap rendezvous, `src/comms/torchcomms/xccl/TorchCommXCCLBootstrap.cpp`;
- the Level Zero implementation of the device API it calls, `src/comms/torchcomms/device/XpuApi.cpp`.

The interface itself (`XpuApi.hpp`, and the `XPU_CHECK` macro that turns a failing call into an exception) is `src/unnamed/part_000`.

Alongside the models are:

- the TLC configurations that check them;
- TLAPS proofs, for every number of ranks, bound on attempts and set of failures, that the bootstrap keeps its types, that ranks never take an id of another attempt, that the bootstraps implement an abstract rendezvous, and that a rank returns from `createXcclComm` only after its peers dropped their stores (when the barrier allreduce does not fail);
- TLAPS proofs, for every platform, that the Level Zero globals keep their types and, when the device queries do not fail, that every resource lives in the current context on a current device;
- TLAPS proofs, for every set of hints and every iteration order, that the hint translation throws exactly on a rejected integer and otherwise applies every hint.

## The system

**Bootstrap.** One `TorchCommXCCLBootstrap` per process ("rank") creates a communicator over all ranks.

1. **Constructor** (lines 21-76):
   - resolves the rank;
   - reads the exchange method from the environment and lower-cases it;
   - picks device `rank % device_count`, then calls `setDevice`;
   - allocates a one-float barrier buffer with `malloc`.

   Each device call is wrapped in `XPU_CHECK`, which throws.
2. **`createXcclComm`** (lines 272-300) runs these steps in order:
   - *Choose a store.* `exchangeUniqueId` (lines 145-160) uses the supplied store if there is one. Otherwise the method must be `auto` or `tcpstore`, and `MASTER_ADDR` and `MASTER_PORT` must both be set. In that case `StoreManager::getStore` returns a store the bootstrap now owns (`created_internal_store_`).
   - *Exchange the id.* `exchangeUniqueIdStore` (lines 102-130) first takes the key `"xccl_storekey_" + counter_`, and `counter_` is a per-process static (lines 88-92). Rank 0 then generates the unique id and `set`s it. Every other rank `get`s it, which blocks up to the store timeout.
   - *Configure.* The config is built and the hints are applied (lines 283-287).
   - *Init.* `commInitRankConfig` is collective (lines 289-295).
   - *Tear down.* `cleanupTCPStore` (lines 162-189) runs if the store is internal. It drops the store, then issues an `allReduce` on the barrier buffer as a barrier, then `streamSynchronize`s. A failing allreduce is only logged.
3. **Destructor** (lines 78-86): frees the buffer.

**Level Zero API.** `initLevelZero` (XpuApi.cpp lines 20-99) sets up the process-wide globals `g_driver`, `g_devices`, `g_device_count` and `g_context` once. A static `initialized` flag records that it has done so, and the flag is only set when `zeContextCreate` succeeds. The steps:

1. It walks the drivers.
2. It keeps the first driver whose device list it could read.
3. It filters out iGPUs with `is_igpu`, which is called twice: once by `all_of`, once by `remove_if`.
4. It copies the result into a `new[]` array.
5. It creates the context.

Every allocating call first runs `initLevelZero`:

- `setDevice` (103-114) only validates the index;
- `malloc` (312-324), queue creation (181-206) and `eventCreate` (364-387) all use `g_devices[0]`;
- `eventCreate` creates a one-event pool per event, which `eventDestroy` (446-449) never frees;
- `streamWaitEvent`, `memcpyAsync` and `eventRecord` (213-243, 331-362, 451-477) do not run `initLevelZero`: each builds a command list in `g_context` on `g_devices[0]`, appends one command, closes it, executes it on the stream and destroys it, on every error path too.

**Two threads.** Nothing in either file takes a lock. `counter_` (TorchCommXCCLBootstrap.cpp line 15) and `initLevelZero`'s flag and globals are plain statics, so two threads that bootstrap communicators at once interleave their reads and writes. Spec §5 asks that the counter be updated atomically in that case and calls it the only state the bootstraps of a process share.

## Modules

| Module | Models | State | Actions |
|---|---|---|---|
| `XcclBootstrap` | the bootstrap of every rank, the store, and the backend's collective init and barrier | per rank: `pc`, attempt number `att`, `counter` (`counter_`), `storeRef` (`store_`), `internal` (`created_internal_store_`), `key`, `uid`, `reduced` (barriers issued), `buffer`; shared: `kv` (the store); environment: `extStore`, `xchgMethod`, `tcpEnabled` | `Construct`/`ConstructFail` (ctor), `ExchangeUniqueId`/`ExchangeUniqueIdFail` (145-160 with 132-139 and 102-119), `GetUniqueId`/`GetTimeout` (120-127), `PopulateConfig` (283-287), `CommInitRankConfig`/`CommInitFail` (289-295), `CleanupTCPStore` (162-182), `StreamSynchronize`/`StreamSynchronizeFail` (184-187), `Destroy` (dtor) |
| `MCXcclBootstrap` | fault sets and method values for TLC | | |
| `Rendezvous` | what the bootstrap promises (spec §3, §4.2), without keys, counters or stores | per rank: `phase` (idle or in an attempt), `attempt`, `holds` (the id it holds); `published` (the ids rank 0 made available) | `Begin` (a constructor), `Generate` (rank 0 generates and publishes the id of its attempt), `Learn` (a rank takes the id published for its own attempt), `End` (the destructor) |
| `XcclBootstrapProofs` | inductive invariants and TLAPS proofs of `TypeOK` and `SameRendezvousId` | | |
| `XcclRefinementProofs` | TLAPS proof that `XcclBootstrap` implements `Rendezvous` | | |
| `BarrierProofs` | inductive invariant and TLAPS proof of `StoreReleasedOnReturn` | | |
| `ConcurrentBootstraps` | several threads of one process each constructing a bootstrap and taking a store key, over the shared statics | shared: `counter`, `initialized`, `g_devices`, `g_context`; per thread: `call`, `step`, `buf` (context of its barrier buffer), `tmp` (the value `counter_++` loaded), `key` | `InitCheck` (line 22), `Discover` (24-90), `CreateContext` (95), `SetFlag` (97), `SetDeviceBody`, `MallocBody` (312-324), `KeyRead` (line 89), `IncLoad` and `IncStore` (line 90) |
| `MCConcurrentBootstraps` | two threads for TLC | | |
| `LevelZeroApi` | the Level Zero globals of one process and the resources created in them | `initialized`, `g_driver`, `g_devices`, `g_context`, `arrays` (devices arrays allocated), `contexts`, `selected` (the caller's device), `mem`, `queues`, `pools`, `events`, `calls` | `SetDevice`, `QueryDevice` (getDeviceProperties, memGetInfo, getDeviceCount), `StreamCreate`, `StreamDestroy`, `Malloc`, `Free`, `EventCreate`, `EventCreateWithFlags`, `EventDestroy`, `StreamWaitEvent`, `MemcpyAsync`, `EventRecord`; each of the allocating ones runs `InitLevelZero` in the same step, and `recorded` holds the events whose signal was submitted |
| `MCLevelZeroApi` | driver/device platforms for TLC | | |
| `LevelZeroProofs` | inductive invariant and TLAPS proofs of `TypeOK`, `InitializedUsable`, and `ResourcesInContext` | | |
| `HintTranslation` | the config `createXcclComm` builds and `populateXcclConfigFromHints` | `hints` (`options.hints`), `order` (the map's iteration order), `pos` (the loop), `config` (`onecclConfig_t`), `dups` (strings `strdup` returned), `status` | `Init` (283-284), `ApplyHint` (one loop iteration, 201-269: int field, `std::stoi` throw, string field, unknown key), `Finish` (286-289) |
| `MCHintTranslation` | hint keys and values for TLC | | |
| `HintProofs` | loop invariant and TLAPS proofs of `TypeOK` and `HintsApplied` | | |

Modelling choices:

**Both modules**

- **Failures come from a `Faults` constant.** A run picks which external calls may fail by choosing its `Faults` set. Each `...Fail` action, and each failure disjunct inside an action, is guarded by membership in `Faults`, with one exception: `CommInitFail`, the backend's error or timeout out of `commInitRankConfig` (lines 289-295). It is always enabled for a rank waiting in the collective init. oneCCL is outside `src/`, so whether its init is bounded is an assumption of the model; `FairSpec` relies on it (see Fairness).

**`XcclBootstrap`**

- **Whole call chains are single steps.** Only the points where a rank blocks on another rank or fails are separate steps. For example, `ExchangeUniqueId` is one step covering:
  - the store choice;
  - `getStore`;
  - `getXCCLStoreKey`;
  - rank 0's `getUniqueId` and `set`.
- **Unique ids and keys are numbers.** A unique id is the number of the attempt in which rank 0 generated it. A store key is the counter value it was built from.
- **Retries are modelled.** The application creates another bootstrap after a failure, up to `MaxAttempts` attempts per rank, and `counter_` persists across attempts because it is a static.
- **The store is reduced to what the protocol needs.** `storeRef` records either:
  - the external store;
  - the attempt whose internal store the rank still references.

  A store's `get` either returns the value or times out.
- **Collective operations are single actions.** `CommInitRankConfig(u)` completes when every rank has called it with the same id. `StreamSynchronize` completes only once every rank has issued the barrier on that communicator.
- **Hint translation is abstracted to a success or a throw** (the `"hints"` fault). `HintTranslation` models it in full.

**`LevelZeroApi`**

- **A platform constant describes the hardware.** `Platform[i]` lists the kinds of the devices driver `i` reports.
- **A handle names a device.** It is the pair `<<driver, index>>`, or `Null`.
- **`zeDeviceGet` outcomes are chosen per driver.** The driver loop is modelled by one choice of outcome per driver, for its two `zeDeviceGet` calls:
  - `skip`: the driver reports no devices or the first call fails;
  - `fail2`: the second call fails;
  - `ok`: the device list is read.
- **Property-query failures are chosen per `is_igpu` call.** For each of the two `is_igpu` calls, a set of devices whose property query fails is chosen separately.
- **Command-list calls are whole handlers.** The list they build is destroyed on every path before they return, so what stays is only what was submitted to the queue; the `"cmdList"` fault stands for any of the four driver calls failing. Their streams are the queues `streamCreate` made; a stream PyTorch hands in is outside the API.

**`ConcurrentBootstraps`**

- **Each unguarded read or write is a step.** `initLevelZero` is split where another thread can come between: the flag test, device discovery (which stores a fresh `new[]` array in `g_devices`), `zeContextCreate` (which stores a fresh context in `g_context`) and setting the flag. `counter_++` is a load and a store: the statement is a data race, and the build may compile it as one read-modify-write or as two accesses; the split allows both outcomes. The driver calls succeed here; their failures are `LevelZeroApi`'s business.
- **Contexts and arrays are numbered** in the order they are created; a barrier buffer records the context it was allocated in.

**`HintTranslation`**

- **Values are sequences of characters** and `Stoi` does what `std::stoi` does: skip white space, take an optional sign and the longest run of digits (a FoldLeft over them; `HintProofs` never unfolds it), ignore the rest, throw `invalid_argument` when there is no digit and `out_of_range` outside an `IntBits`-wide int. The runs use `IntBits = 8`, so that `"999"` overflows: the comparison is the same as at 32 bits.
- **The alias table is data.** `IntAliases` and `StrAliases` list exactly the spellings the `if` chain compares with; `FieldOf` gives the field a key sets.
- **The map's order is any order.** `CommOptions` is not in `src/`, so `Init` lets the loop visit the keys in every order. The map is a finite set of keys (`IsFiniteSet(K)` in `Init`), as every `std::unordered_map` is.
- **A `strdup`ed string is an id**, fresh for each call; `dups` holds every id returned, starting with the name at line 284. Logging is left out.

## Runs

Every pass run finishes in seconds.

| Run | Config | Expect | Checks | What it shows |
|---|---|---|---|---|
| IdConvergence | `IdConvergence.cfg` | pass | `TypeOK`, `SameRendezvousId`, `RendezvousRefined` | 3 ranks, 2 attempts each, every failure after the key is taken (getUniqueId, hints, allReduce, streamSync) and every environment: a rank only ever holds the id rank 0 generated in the same attempt, and every step is a step of `Rendezvous` under the mapping `R` (274,857 states). |
| BarrierSafety | `BarrierSafety.cfg` | pass | `StoreReleasedOnReturn`, `AttemptReturns` | Under `FairSpec`, without allreduce failures but with throwing constructors and StoreManager (so the ranks' counters fall out of step), a rank returns from `createXcclComm` only when every peer of that communicator has dropped its internal store, and every attempt returns: a `get` on a key rank 0 never sets times out, and `streamSynchronize` is never forced to fail (145,863 states, exchange method `auto`). |
| StaleId | `StaleId.cfg` | violation | `NoStaleId` | Rank 0 publishes id 1 under key 0, fails at the hints and starts attempt 2, which will use key 1. Rank 1's constructor throws in its attempt 1, so it takes no key. In attempt 2 rank 1 takes key 0 and reads id 1, the id of a rendezvous rank 0 has abandoned. The two counters then stay one apart. |
| BarrierHang | `BarrierHang.cfg` | violation | `AttemptReturns` | When one rank's barrier allreduce fails, it logs the failure and returns; its peers wait in `streamSynchronize` (no timeout) forever, even under weak fairness of every rank. |
| LevelZero | `LevelZero.cfg` | pass | `TypeOK`, `InitializedUsable`, `ResourcesInContext` | With every driver call failing except the second `zeDeviceGet` and the property query, a successful init leaves a context and a non-empty array of real handles of `g_driver`, and every allocation, queue and pool lives in the current context on a current device: the `initialized` flag prevents any re-initialisation once resources exist. (70,578 states). |
| NullDevice | `NullDevice.cfg` | violation | `InitializedUsable` | A failing second `zeDeviceGet` on the only driver with devices leaves null handles that pass the iGPU filter; init succeeds with them. |
| TransientProps | `TransientProps.cfg` | violation | `InitializedUsable` | A property query failing only in `all_of` lets an iGPU-only list through, and `remove_if` then empties it. Init succeeds with `g_device_count = 0`, and the constructor's `rank % device_count` divides by zero. |
| CounterRace | `CounterRace.cfg` | violation | `DistinctKeys` | Two threads both read `counter_ = 0` at line 89 before either increments it, and both bootstraps use `xccl_storekey_0`, against spec §5. |
| InitRace | `InitRace.cfg` | violation | `BufferInCurrentContext` | Both threads find `initialized` unset; the first finishes init and allocates its barrier buffer, then the second creates another context over `g_context`, so the first buffer is later freed through the wrong context (line 328). |
| HintTranslation | `HintTranslation.cfg` | pass | `TypeOK`, `HintsApplied` | For up to three hints over five keys and six values, in every order, the call throws exactly when some integer hint is rejected, and otherwise each int field holds the parsed value of one of its spellings (or its default) and each string hint a fresh copy (57,696 states). |
| HintMalformed | `HintMalformedRejected.cfg` | violation | `MalformedRejected` | `min_ctas = "9a"` sets `minCTAs = 9` and the call succeeds, where spec 4.4 says it fails. |
| HintStringLeak | `HintNoLeakedStrings.cfg` | violation | `NoLeakedStrings` | A `std::stoi` throw drops the config holding the name `strdup`ed at line 284; a `commName` hint overwrites it. |

**Seen while modelling, without a run of their own.** Each of these is plain in the code and needs no interleaving to show:

- A failing barrier allreduce (TorchCommXCCLBootstrap.cpp line 179) is only logged. The rank's `streamSynchronize` then has nothing to wait for, and it returns from `createXcclComm` while a peer still holds the internal store, against the comment at lines 164-167. With the `"allReduce"` fault allowed, TLC reports this as a violation of `StoreReleasedOnReturn` in a few steps. BarrierSafety leaves the fault out, and BarrierHang shows what it does to the peers.
- `malloc`, queue and event-pool creation always use `g_devices[0]` (XpuApi.cpp line 323): after `setDevice(1)` the barrier buffer is on device 0.
- A failing `zeContextCreate` (XpuApi.cpp line 95) is retried by the next call, which allocates a second `g_devices` array without freeing the first.
- Every `eventCreate` creates an event pool, and `eventDestroy` never destroys it (line 448).
- `shrinkShare`, `netName` and `commName` are matched only in camelCase (TorchCommXCCLBootstrap.cpp lines 218, 232, 242), though spec 4.4 accepts both spellings.
- With both spellings of one field given, the one the map visits last wins. Spec 4.4 calls the pass order-independent without saying which spelling wins. `HintsApplied` checks that the field holds one of the two.

**Bounds.**

- *Bootstrap: three ranks and two attempts.* Three ranks are enough for a rank to be waiting on two others. Two attempts are the fewest that show stale state carried from one attempt to the next.
- *`MCMethods`: one legal method and one illegal.* These two values cover both branches of the method check.
- *Level Zero: six API calls.* That is enough for all of these to happen in one behaviour: a failed init, a retried init, an allocation, and a release.
- *Threads: two.* The fewest that can race; each runs the constructor's two API calls and one `getXCCLStoreKey`, so every interleaving of the statics' reads and writes is explored (a few hundred states).
- *Hints: three of five keys, six values.* The keys are both spellings of one field, a camelCase-only field's snake_case form, `commName`, and an unknown key; the values cover a whole number, a sign, leading white space, a trailing letter, no digit, and an overflow. Three hints allow two spellings of one field together with a throw or a string.
- *Platforms.* `MCPlatform` has a first driver reporting only an iGPU, and a second with two dGPUs around an iGPU. The other platforms isolate one hazard each.

**Deadlock.** `CHECK_DEADLOCK FALSE` appears only in `IdConvergence` and `BarrierHang`. There a failing allreduce really does leave peers blocked forever. Every other run checks deadlock; `Terminated` and `Exhausted` are the intended final stutters.

**Fairness.** `FairSpec` (used by BarrierSafety and BarrierHang) is weakly fair to these steps:

- *Each rank's steps outside `sync`*, since every process keeps running. This includes:
  - `GetTimeout`, because the store's `get` is bounded by its timeout;
  - `CommInitFail`, because the model takes the backend's init to return an error when a peer never joins.
- *`StreamSynchronize`*, which returns once the barrier completes.
- *The collective init*, which completes once every rank has joined.

`StreamSynchronizeFail` is left unfair. The wait at XpuApi.cpp line 253 has no timeout, so a failing `streamSynchronize` is an error the device may report, never a step that must happen. A rank whose barrier never completes therefore stays in `sync`, which is what BarrierHang shows. The mutant that retries the `get` instead of throwing violates `AttemptReturns` in BarrierSafety.

## Refinement

`Rendezvous` states what the bootstrap promises, in the terms of spec §3 and §4.2: in its a-th attempt rank 0 generates the id of rendezvous a and publishes it, another rank can only learn the id published for its own attempt number, and an attempt ends with the id forgotten. `XcclBootstrap` defines the mapping `R`:

- a rank is `active` from its constructor to its destructor (`pc # "idle"`);
- `attempt` is `att`, `holds` is `uid`;
- `published` is the set of values in the store.

`RendezvousRefined == R!Spec` is checked by IdConvergence and proved (below). `Construct` maps to `Begin`, rank 0's `ExchangeUniqueId` to `Generate`, `GetUniqueId` to `Learn`, `Destroy` to `End`; every other step is a stutter. The mutant that never increments `counter_` breaks it: rank 0 then overwrites the id of an earlier rendezvous.

## Proofs (`XcclBootstrapProofs`, `XcclRefinementProofs`, `BarrierProofs`, `LevelZeroProofs`, `HintProofs`)

- **`TypeCorrect`**: `Spec => []TypeOK`, for every N, MaxAttempts and Faults.
  - *Why `TypeOK` needs strengthening.* `TypeOK` alone is not inductive: a key `counter_` must stay in `Keys`.
  - *The inductive invariant `TypeInv`* adds three conjuncts:
    - `CounterBound`: `counter[r] <= att[r]`, and strictly below it in `ready`, because an attempt takes at most one key;
    - `KeyHeld`: a rank waiting in `get` holds a key;
    - `IdHeld`: a rank past the exchange holds an id.
  - *Proof structure.* `RankStepTypeInv` handles one action per step, and one conjunct per sub-step.
- **`IdConvergenceTheorem`**: assuming `FailuresAfterKey` (no constructor or `getStore` failure), `Spec => []SameRendezvousId`.
  - *The inductive invariant `IdInv`* is `TypeInv` plus these conjuncts:
    - `CounterInStep`: a rank that can exchange has taken exactly one key per attempt, so `counter = att` (one less while `ready`); a rank that cannot exchange never leaves `idle`/`ready`/`failed`;
    - `ReadyStore`;
    - `KeyOfAttempt`: a waiting rank's key is `att - 1`;
    - `StoreHoldsAttempt`: key `k` only ever holds attempt `k + 1`'s id;
    - `IdleClear`.

    With these, rank 0's `set` and every other rank's `get` in the same attempt use the same key.
  - *Why the assumption is needed.* Without `FailuresAfterKey`, a rank's attempts no longer match its keys. A failed constructor counts an attempt but takes no key. The rank may then harmlessly join rank 0's live attempt with an id older than its own attempt, which `SameRendezvousId` rejects. It may also read an abandoned attempt's id, which StaleId shows with `NoStaleId`.

  TLC checked `IdInv` as an invariant of the IdConvergence configuration before it was proved.
- **`RendezvousRefinement`** (`XcclRefinementProofs`): assuming `FailuresAfterKey`, `Spec => RendezvousRefined`.
  - *The invariant `RefInv`* is `IdInv` plus `HoldsClear` (a rank in `ready` or `get` holds no id) and `OnlyOthersGet` (rank 0 never waits in `get`). Both were checked by TLC on the IdConvergence configuration first.
  - *Proof structure.* `Init => R!Init`; `StepRefines` shows each action is the abstract step listed under Refinement, or a stutter (`StutterRefines`: attempts, ids, store and idleness unchanged). The one step with content is `Generate`: `StoreHoldsAttempt` says key `att[0] - 1` held nothing or already `att[0]`, so the set `{kv[k]} \ {NoValue}` grows by exactly `att[0]`. `Learn` uses `KeyOfAttempt` and `StoreHoldsAttempt` to show the value read is `att[r]`.
- **`BarrierSafetyTheorem`** (`BarrierProofs`): assuming `BarrierReliable` (`"allReduce" \notin Faults`; every other failure, including the constructor and StoreManager failures that put the counters out of step, is allowed), `Spec => []StoreReleasedOnReturn`.
  - *Why the assumption is needed.* A failing allreduce is only logged (line 179), and the rank then returns early, as the "seen while modelling" note says, and BarrierHang shows its peers then hang.
  - *The argument.* A communicator's id is rank 0's attempt number when the collective init completes (`RankZeroId`), and rank 0's attempts only grow. So every barrier ever issued is on an id before rank 0's current rendezvous (`Before0`, `ReducedBefore`, `CommBefore`), and a rank entering cleanup has not yet issued the barrier on its id (`CleanupFresh`). A rank waiting on the barrier has issued it (`SyncReduced`), and its peers have dropped their stores before it (`SyncReleased`). Hence a returned rank has no peer of its communicator left in cleanup (`DoneAhead`). Whether a rank creates its own store depends only on whether a store was supplied, which is the same for all ranks (`UniformInternal`, `ReadyExternal`), so the peers past cleanup dropped theirs too.
  - *The inductive invariant `BarrierInv`* is `TypeInv`, `ReadyStore`, `OnlyOthersGet` and the conjuncts above. TLC checked it on the BarrierSafety configuration (145,863 states) before it was proved.
  - *Proof structure.* `RankStepBarrierRest` has one step per action, and one sub-step per conjunct. `NextBarrierInv` adds the collective init: its id is `att[0]`, which no barrier has used yet.

- **`LZTypeCorrect`** (`LevelZeroProofs`): `Spec => []TypeOK` for `LevelZeroApi`, for every platform, fault set and `MaxCalls`. The assumptions are `PlatformAssumption`, `FaultsAssumption`, `MaxCallsAssumption` and `NullAssumption` (in `LevelZeroApi`: `nullptr` is no handle, and `NoContext` is no context number).
  - *The inductive invariant `LZTypeInv`* adds `CallCounts` (`arrays` and `contexts` never exceed `calls`, which keeps them within their types' bounds) and `UninitEmpty` (before a successful init no device is selected and no resource exists).
  - *The filter.* The `remove_if`/`erase`/copy of lines 79-90 is `RemoveIf`: it yields the sequences `all[f[1]], ..., all[f[m]]` for an increasing enumeration `f` of the kept indices. This is the same value as `SelectSeq`, but stated without recursion, so the proof needs no induction over sequences. `RemoveIfFacts` gives the two things the proofs use: every element is a kept device, and the result is non-empty when some device is kept.
  - *`g_driver`.* It is the driver CHOOSEn by the maximum of the touched drivers. `MaxOfNatSubset` obtains that maximum from well-foundedness (`WFMin` on `NatLessThanWellFounded`), because an induction theorem would need an operator parameter.
- **`DeviceSafety`** (`LevelZeroProofs`): assuming `ReliableDeviceQueries` (neither the second `zeDeviceGet` nor `zeDeviceGetProperties` fails), `Spec => [](InitializedUsable /\ ResourcesInContext)`.
  - *Why the assumption is needed.* The runs NullDevice and TransientProps show that each of these failures leaves `initialized` set with a null or empty device array.
  - *The argument.* `InitLevelZeroEffect` lists the three things a call of `initLevelZero` can do:
    - nothing, which is what happens once the flag is set;
    - replace `g_driver` only, when all_of finds only iGPUs;
    - a full init, which succeeds only from the uninitialised state.

    In the last case a fresh context `contexts + 1` is created, and `UninitEmpty` says no resource existed before it. So a resource made by a call (`NewResource`: `Device0` in `g_context'`) is in the current context, and no later step changes the globals (`CallResources`). The destroying and command-list actions only shrink the resource sets.
  - *The inductive invariant `LZInv`* is `LZTypeInv /\ InitializedUsable /\ ResourcesInContext`. TLC checked it on the LevelZero configuration (70,578 states) before it was proved.
  - *Proof structure.* `NextLZTypeInv` and `NextLZSafe` each have one case per action.
  - `ResourcesInContextTheorem` restates the second half of `DeviceSafety` on its own: `Spec => []ResourcesInContext` under the same assumption.
- **`HintTypeCorrect`** and **`HintsAppliedTheorem`** (`HintProofs`): `Spec => []TypeOK` and `Spec => []HintsApplied` for `HintTranslation`, for every set of keys and values, every `MaxHints` and `IntBits`, and every iteration order. No assumption on the constants is used.
  - *`Stoi` stays opaque.* The proofs use one fact about it, `StoiRange`: a value returned without a throw lies in `IntMin .. IntMax`. That fact is the range check itself, which the model writes as `val \notin IntMin .. IntMax`, the same test as `val < IntMin \/ val > IntMax` on the integers `strtol` returns. The digits' `FoldLeft` is never unfolded.
  - *The loop invariant `HInv`* speaks of `Visited`, the keys `order[1 .. pos - 1]`:
    - no visited integer hint was rejected;
    - each integer field holds the value of one of its visited spellings, or `Unset` when there is none (`VisitedValues`);
    - each visited string key's field holds a `strdup` other than the name's;
    - `dups` is `1 .. n`, so the next `strdup` is fresh;
    - `order` covers the map;
    - `threw` means the current hint was rejected, and `done` means `pos` is past the end.

    `AliasesDisjoint` and `FieldOfType` say that an integer key sets an integer field and a string key a string field, so a step of one kind leaves the other kind's fields alone. `DoneVisitedAll` turns the invariant into `HintsApplied` once the loop is done.
  - TLC checked `HInv` as an invariant of the HintTranslation configuration (57,696 states) before it was proved.

**What only TLC checks.**

- *Liveness (`AttemptReturns`).* It needs fairness and ENABLED, which TLAPS does not handle.
- *What `Stoi` computes.* The value of a run of digits is a `FoldLeft`, and its properties need induction over the sequence. The HintTranslation run checks `Stoi` on the values of `MCValues`, and the mutant `StoiNoRangeCheck` shows that the run reaches the range check.

## Not modelled

- **Hint translation inside the bootstrap** is only its success or throw; `HintTranslation` models it on its own, since it touches neither the store nor the device (spec 4.4).
- **What the backend does with the config**: whether it frees the strings when `commInitRankConfig` fails is outside `src/`.
- **Threads inside the rendezvous.** `XcclBootstrap` has one bootstrap at a time per process, as spec §5 assumes; `ConcurrentBootstraps` takes the concurrent case up to the store key, where the two races are already visible.
- **PyTorch streams.** `getCurrentXPUStream` hands the command-list calls a stream that exists without `initLevelZero`; such a call before any initialising call would read `g_devices[0]` from a null array. It is outside the API and not modelled.
- **Stateless calls.** `eventQuery`, `getCurrentXPUStream`, the capture and graph stubs, and `getErrorString` change no state.
- **External components.** `StoreManager`, the TCP store and the XCCL backend are not in `src/`. Only the contracts the bootstrap relies on are modelled:
  - a `get` returns or times out;
  - collective operations complete when every rank joins.
