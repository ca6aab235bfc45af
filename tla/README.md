# A verification project for SAIS-CG100

SAIS-CG100 is the firmware of a STM32H750 gateway board and the Windows
installer that provisions and updates such boards. This directory models its
core logic in TLA+, checks the models with TLC and proves the most important
results with TLAPS.

Source paths are relative to the repository; `app/` stands for
`SetAPIs_Calling/firmware/app/` and `platform/` for `firmware/memory-platform/`.

## The system

| Component | Source | State | Operations | Interacts with |
| --- | --- | --- | --- | --- |
| Boot metadata store | `platform/boot_state.c` | two NOR sectors, each a record with a commit magic, sequence number and CRC | read the latest, write to the other sector | used by Stage 0, update service, confirmation |
| Stage 0 and boot policy | `firmware/bootloader/main.c`, `platform/boot_policy.c`, `platform/boot_request.h` | reset cause, one-use marker in an RTC backup register | take the marker, select trial / confirmed / recovery, charge a trial, copy to SDRAM, jump | reads and writes metadata, reads images |
| Update service | `app/ota_update.c` | the upload in RAM (state 0..5, header, slot, bytes received, metadata sequence), NOR slots A and B | begin, chunk, finish, activate, abort, confirm, recovery; timers of `g100_ota_process` | runs in the application and in recovery; called from the HTTP server, writes metadata, sets the marker |
| Self-test and watchdog | `app/architecture.c`, `platform/board_memory.c` | health, confirmed flag | self-test every 100 ms, feed the watchdog, trial deadline | resets the board |
| Request authentication | `app/ota_auth.c` | nonce of this boot, next sequence number | challenge, check a request, sign a response | in front of the update service |
| Configuration store | `platform/config_store.c` | two NOR banks of several sectors | load, save | the same scheme as the metadata, longer records |
| Settings, network transaction | `app/rj_api.c`, `app/network_config.c` | settings and their revision, candidate, pending network change with a rollback deadline, protocol instances | candidate, validate, apply, confirm, roll back, PUT instances; DHCP and fallback | saves to the configuration store |
| HTTP connections | `app/http_api.c` | a pool of connections, partial requests, responses being pumped | accept, receive, sent, poll, error | lwIP callbacks, calls the services |
| Discovery | `app/discovery.c` | reply slots, rate window | receive, process | lwIP callbacks |
| Update client | `installer/ethernet.py` | nonce and sequence of a session | connect, call with retries, install, verify | HTTP to the board |
| Fleet agent, controller | `installer/fleet_agent.py`, `installer/controller.py` | saved assignments and holds, locks, batches | cycle, hold, install, batch | client, credentials, releases |
| Provisioning | `installer/hardware.py` | the NOR image and Stage 0 it writes over SWD | erase, program, verify | leaves the initial state of a board |
| Credentials, releases | `installer/credentials.py`, `installer/release.py`, `installer/state_lock.py` | files under a lock | ensure and remember keys, fetch and cache releases | controller, agent |

Not part of the models: discovery, the JSON reader, TLS staging, identity and
access lists, LED, clock, MPU and SDRAM setup, the launcher and the web interface, release tooling, and the
vendored LwIP, HAL, CMSIS and mbedTLS; see Not modelled.

### What is hard about it

* Power can go, and a NOR operation can fail, at every step; a write can take
  effect and still be reported as failed, because `program_page` and
  `erase_sector` also fail when only the remapping after the operation does.
* Three programs (Stage 0, recovery, application) share the metadata, across
  resets of four kinds, with a marker that may outlive the reset it is for.
* Hosts send requests in any order, repeat them and go away; more than one may.
* A handler makes up to three metadata writes and one erase, and stops at the
  first that fails.
* The network loses, delays and repeats requests; a client that got no answer
  does not know whether its request was carried out, and retries it.
* LwIP's callbacks come in any order, also for connections already closed.
* The network configuration changes under the request that changes it, and goes
  back if nobody confirms it over the new address.
* The fleet agent and an operator work on the same boards from two processes,
  either of which may stop anywhere; cables are moved between SWD sessions.
* Ticks wrap after 49 days, sequence numbers end.
* Updates must survive all this: an image in use must not be overwritten, a
  bad image must not be started for ever, and an old one must not come back.

### What makes each component correct

* Store: readers get the old record or the new one, never anything else.
* Boot and update: metadata only names whole images of the generation it says;
  an activated image is started at most twice unless confirmed; only confirmed
  images are run other than as trials; generations only grow; the marker is
  used up by one reset; left alone, a board ends up in its confirmed image.
* Authentication: a request takes effect at most once and in order; a response
  is accepted only for the request it answers; a refusal has a cause.
* Client: success is reported only for a confirmed, running candidate; a
  candidate it gave up on is not confirmed.
* Configuration store: as the metadata store, for records of several sectors.
* Settings: the network in use is the one configured; only confirmed settings
  come into force; nobody overwrites what he has not read; a change ends,
  also if leases lapse.
* HTTP: no slot is lost or shared, no answer is cut off, silent clients lose
  their slot.
* Fleet: one board is tried first; a release that failed is not tried again
  unreviewed; a board is worked on by one process; the registry is right.
* Provisioning: nothing incomplete can start; the board that was confirmed is
  the one that is changed; its key is the one the host has.

## Modules

| Module | Models | Kind |
| --- | --- | --- |
| `MetaRegister` | what the metadata store promises | abstract specification |
| `MetaStore` | `boot_state.c`: two sectors, one action per NOR operation | detailed specification |
| `MetaStoreProofs` | invariant of the store and its refinement of the register | proofs |
| `UpdatePromise` | what updates promise an operator | abstract specification |
| `BootUpdate` | Stage 0, boot policy, update service, confirmation, watchdog, hosts, faults | detailed specification |
| `ConfigRegister` | what the configuration store promises (on `MetaRegister`) | abstract specification |
| `ConfigStore` | `config_store.c`: two banks of several sectors | detailed specification |
| `ConfigStoreProofs` | its invariant and its refinement of the register | proofs |
| `OtaAuth` | `ota_auth.c` and `Client.call`, over an unreliable network | detailed specification |
| `OtaAuthProofs` | at most once, in order, genuine answers | proofs |
| `Install` | `install()` of several hosts, composed with `BootUpdate` | composition |
| `UpdateProofs` | invariants of `BootUpdate`, its refinement of `UpdatePromise`, and `install()` on top | proofs |
| `NetworkConfig` | `network_config.c`: static address, lease, fallback | component |
| `Settings` | `rj_api.c`, composed with `NetworkConfig` and the saved record | composition |
| `SettingsProofs` | requests act on what was read, only what was confirmed stays | proofs |
| `HttpPool` | `http_api.c`: slots and LwIP callbacks | component |
| `HttpPoolProofs` | no slot lost or shared, whole answers | proofs |
| `Fleet` | `fleet_agent.py` next to an operator | composition |
| `FleetProofs` | canary, holds, locks and registry | proofs |
| `Provisioning` | `hardware.py`, runs of `controller.py`, `ensure_key` | component |
| `ProvisioningProofs` | complete layouts, confirmed boards, shared keys | proofs |
| `MC...` | instances for TLC | model checking |

`BootUpdate` composes Stage 0, the running image, hosts and the store. It uses
the store through its promise: a metadata write is one step that succeeds, or
fails with or without having taken effect (`MetaWrite`). `MetaStore` is what
justifies this: it is checked and proved to implement `MetaRegister`, whose
writes have just these outcomes.

### MetaStore and the code

`nor` holds the two sectors: whether the magic is programmed, and the record
whose CRC verifies, or `Empty`. `Latest` is `meta_latest`, with the 32-bit
signed difference of sequence numbers taken on words of `2 * HalfRange`
values. `g100_meta_write` is `Start`, `Erase`, `ProgramBody`, `ProgramMagic`,
`Succeed`; each NOR operation has a failing variant that leaves old contents,
nothing readable, or the finished effect, and leads to `Fail`. `PowerCut` ends
the writer at any step; a cut in the middle of an operation is that operation's
failure followed by a cut. `result` is what the last write returned, so that
the register can demand that a reported success has taken effect. A torn sector that happens to pass its CRC is left
out, like every CRC collision. The board starts as the installer leaves it
(equal records numbered 1 and 2) or erased.

### BootUpdate and the code

`meta` is the register, `flash` the header and payload of slots A and B,
`factory_ok` whether the recovery image validates, `marker` the backup
register. `phase` says whether Stage 0 is due, an image runs, or Stage 0 blinks
(`recovery()` in `bootloader/main.c`). `run` is `G100BootInfo`; `upload` and
`checked` are the update service's static data.

* `Stage0` is all of `main` in Stage 0 from reset to jump, with
  `g100_select_application` as `BootTrial`, `BootPastTrial`, `BootConfirmed`.
* `Begin`, `Append`, `Finish`, `Activate`, `Confirm`, `Abort`,
  `RequestRecovery` are the handlers of `g100_ota_handle`, each as one step: the
  firmware is a single loop and interrupts do not touch this state. Requests
  come in any order with any header, block and digest of the instance.
  Refusals and answers to repeated requests change nothing.
* `BecomeReady`, `SelfConfirm`, `Fail`, `WatchdogReset`, `TrialDeadline`, `ActivationReset`,
  `RecoveryReset`, `UploadTimeout`, `AutoLaunch`, `AutoLaunchNothing` are what
  `g100_architecture_process`, `g100_ota_process` and the hardware watchdog do.
  Deadlines (120 s, 60 s, 20 s, 800 ms, about 32 s) are choices: they may be
  acted on at any time, so every order of timers and requests is covered.
* `PowerCut`, `ImageDecay`, `FactoryDecay`, `MetadataLost`, `HostsLeave` are
  the surroundings.

Handlers stop after their first failed NOR operation and otherwise change RAM
only, so a power cut inside a handler is a failure followed by `PowerCut`, and
no finer steps are needed. Abstractions: the header, CRC and SHA-256 of an
image are one token (`Images`), a payload is `Chunks` blocks of it, and
`BadVectors` are payloads whose entry point Stage 0 refuses; a copy to SDRAM
that fails its CRC and hardware that does not come up both halt. The history
variables `accepted`, `last_activated`, `trial_boots` and `decayed` only serve
the properties; `host_active` says when hosts fall silent. `Faults` names the
faults an instance allows; with `BoundFaults` at most `MaxFaults` of them
happen (halts of Stage 0 and crashes of applications are not counted).
`MetadataLost` is the loss of both sectors; if only the latest decays, the
previous record is read again, which is outside what the store promises.

### UpdatePromise

An operator sees: a good generation, at most one candidate with so many starts
left, everything up to `burned` used up, and what the board runs. `BootUpdate`
maps its metadata and running image onto these (`Promise`): failed writes that
took effect, repairs by recovery and abandoned trials all have to be steps of
the promise or invisible.

### ConfigStore and the code

As `MetaStore`, with `Banks` of one header and `Length[d]` payload sectors for a
content `d`: `g100_config_save` is `Same` (the content is stored already: success
without a write), `Refuse` (numbers used up), `Start`, then for each sector
`Erase` and `ProgramPart`, then `ProgramHead`, `ProgramMagic` and the final read
(`Succeed` or `Fail`). Contents of different lengths are saved over each other,
so that what a longer record left behind is there to be mistaken for payload.

### OtaAuth and the code

`client` is a `Client` of `ethernet.py`: its nonce, the number it will send, and
how far `call` is; `sent` holds every request ever made, which the board may
see at any later time and any number of times (`Accept`, `Refuse`); `reply` is
what came back on the connection a client waits on. A reset draws a new nonce.
A genuine code fits one request and one reply: forging is not modelled.

### Install and the code

`Install` extends `BootUpdate`: each `...Call` action is one exchange, in which
the handler of `BootUpdate` runs (or refuses) and its answer arrives or is lost.
What a host has read (generation, offset, nonce) stays with it while the board
and other hosts go on, and a lost answer is followed by the retry of `call` or
by its exception.

### NetworkConfig, Settings and the code

`NetworkConfig` has the link, the configured address or DHCP, the address in
use, and LwIP's DHCP client, which is external. `Settings` adds the variables of
`rj_api.c` and the saved record, as the register that `ConfigStore` implements:
a save that fails may have taken effect. A request carries what its client has
read; it is processed at once, or late and repeatedly (`late`). Requests reach
the board at the address it has, which is what `confirm` compares. `settings`
stands for the network settings; other fields are not told apart.

### HttpPool and the code

`pcb` are LwIP's connections with the slot registered as their argument, `slot`
is `connections[]`. `Accept`, `Receive`, `ReceiveEnd`, `ResponseSent`, `Poll` and
`PcbFails` are the callbacks, each whole with the pumping, closing or aborting
it does. Sizes are in segments; `tcp_write` may fail at any time.

### Fleet, Provisioning and the code

`Fleet`: `agent` is the cycle with what it read (registry, holds), `work` is
`update_one` for each board, `ui` the operator's run on each board, `lock` the board
locks, `hold` and `registry` the files. The registry is replaced by a rename;
`holds.json` is written in place and may be torn. Releases are published in
order; a withdrawn release is not modelled (see Findings). An installation passes, or
fails with or without effect (`Install` has its detail). The operator's runs are
those of `_run_board_locked` in all four modes: a network update, an erasure
(`UiErase`, which passes without a record), an installation over SWD (`UiProgram`,
`UiTest`, recorded only if the board has a key and passes its test) and one that
goes on over Ethernet. A batch has one mode and one release; the model
chooses a board's mode where the modes part and its release where the board gets
it, and the agent may still connect to a board that was erased: it allows what the
code does and more.

`Provisioning`: a run goes through inspection, its key, backup, erase, blank check,
programming region by region, readback and network test. Each OpenOCD session
checks the UID and may break off anywhere; `Move` exchanges the cables of probes
except in the middle of a session. `Leavings` are what a mass erase may leave.
`Begin` takes the board's lock and gets the key in one step, as nobody else
stores a key of that board under its lock. `EnsureKey` makes or reads a key if the
package has a recovery service (`controller.py:270`); a run of an older package has
none, whatever the host stores, and `Plan` then has no access record.
`Import` stores any access record of the board's UID under its lock, also of an
earlier time, without asking the board (`main.py:113-122`); `replaced` remembers for
which boards that was another key than theirs. A failed run frees its lock; that an
OpenOCD process outlives an installer that died, and goes on writing, is not
modelled.

## Checks

| Run | Question | Bounds |
| --- | --- | --- |
| `metadata_store` | Is the two-sector store an atomic register? | two contents, 7 sequence numbers: the space is used up, so the run stops there |
| `update_faults` | Do the safety properties survive any number of failed writes, power cuts and crashes? | 3 generations, 2 payloads, 2 blocks; unlimited faults |
| `update_decay` | And two faults of any kind, lost metadata, decayed images and a broken backup domain included? | 2 generations, one good and one bad payload, 1 block |
| `update_left_alone` | Does the board end up in the right image when hosts fall silent? | 2 generations, 2 faults (write, power) |
| `reset_cancelled` | Does an announced reset happen? It does not: see Findings | no faults |
| `config_store` | Is the two-bank store an atomic register? | contents of 1 and 2 sectors, 7 sequence numbers |
| `request_authentication` | What may a client conclude, and what is carried out how often? | 2 hosts, 2 attempts a call, 3 requests, 3 numbers, 2 boots |
| `install` | Is a host right that reports success, or gives up? | 2 hosts, 2 images, 2 generations, 2 blocks, 2 attempts, 1 fault |
| `settings` | Do changes happen as their clients meant them, and do they end? | 1 static address or DHCP, 2 revisions, 1 late request, 2 boots; leases lapse, DHCP may fail to start, saves may fail |
| `fleet` | Agent and operator: canary, holds, locks, registry | 3 boards (one the operator's), 2 releases, 2 workers; all modes of a run, any of which may fail, the agent stops anywhere |
| `http_pool` | Slots and answers under all orders of callbacks; do silent clients lose their slot? | 3 connections, 2 slots, requests and responses of 2 segments, buffer of 1 |
| `provisioning` | Two concurrent runs over SWD, with and without keys, and imports between them | 2 boards, 2 probes, 2 keys |

Three generations are enough for a confirmed one, an abandoned trial and its
successor; a fourth would repeat the third. Two payloads tell a torn upload
from a whole one, two blocks give a middle. Metadata sequence numbers are
bounded by 100, which no behaviour of an instance reaches; their exhaustion is
in `metadata_store`. `update_decay`, `update_left_alone`, `reset_cancelled` and `install`
switch deadlock checking off because the program may really stop: Stage 0
blinks for ever with nothing to start, and recovery waits for ever with nothing
bootable; hosts of `install` are done. `config_store`, `metadata_store`,
`request_authentication` and `settings` stop when their numbers, requests and
boots are used up.

Two hosts, probes or clients are enough for a race, a third would repeat the
second; the fleet has three boards because a canary, a board of the fan-out and
one left for later differ. Two attempts give a first and a retry (the code has
three). `http_pool` has a connection more than slots, so that the pool runs out
and slots are handed on; responses larger than the send buffer need the
callbacks to go on. Revisions are cut off by
`MaxRevision` in the guards of `Settings`, late requests by `MaxLate`, keys by
`MaxKeys` in `EnsureKey` (two: another owner's or an earlier one, and the one made now); where a bound disables an action the run still has all behaviours up
to there.

### Fairness

`FairSpec` assumes that Stage 0 runs, that the loop of the running image acts
on its deadlines, and that the watchdog bites a board that does not feed it,
once hosts are silent (`append` feeds it too). Hosts, self-test results and
faults owe nothing. The liveness run leaves out the backup domain's failures:
`checked` is set before the launch is tried, so after one such failure recovery
waits until it is reset.

In `Settings` the main loop does what is due: `ApplyDue`, `RollBack`, `FallBack`.
In `HttpPool` LwIP polls each registered connection every second and time
passes; clients owe nothing. The other runs check safety only: that every board of a fleet
is updated in the end needs an agent, a release server and boards that do not
fail for ever, which the code cannot promise.

### What the properties say

* `ReferencedImagesIntact`, `UploadTargetUnreferenced`: no order of uploads,
  aborts, resets and failed writes erases an image the metadata names.
* `TrialBootBudget`: at most two starts between an activation and a
  confirmation, counted independently of the persisted counter.
* `OnlyAcceptedConfirmed`: nothing is confirmed, or started other than as a
  trial, that no host accepted while it ran.
* `RequestConsumed`: a marker never survives into a running image.
* `FreshActivations`, `NoRollback`: generations only grow, also over abandoned
  trials.
* `KeepsPromise`: refinement of `UpdatePromise`.
* `RecoveryHandsOver`, `TrialFallsBack`: the liveness of recovery and trials.

* `AtomicConfiguration`, `SaveProgress`: the configuration read is the old or the
  new one, whole; where a save stopped is known.
* `AtMostOnce`, `NoOvertaking`, `OnceUnlessRetried`, `GenuineAnswer`,
  `RefusedForCause`: what the nonce and the number of a request are for. The
  retry after a lost answer may be carried out again (chunks and begin are
  idempotent); `activate` and `confirm` are what `Install` looks at.
* `PassedIsInstalled`, `RollbackRemains`, `OneImagePerGeneration`: a host that
  passed is right, one that gave up left nothing confirmed, and hosts that race
  for a generation never get two images confirmed in it.
* `NetworkInUse`, `ConfirmedWhereReachable`, `PendingEnds`: the network runs as
  configured (or as the pending change says), a change is confirmed only by a
  client that reaches the board over it, and it ends.
* `AppliedAsMeant`, `SettledByConfirmation`: revisions protect
  what a client has read, within a boot. Over a reset they start again from the
  saved sequence number (`app/rj_api.c:491`), which saving an unchanged content
  does not count (`platform/config_store.c:38`), so that a revision may come again
  with another content; the properties leave such requests out.
* `SlotsOwned`, `AnsweredWhole`, `SlotsReclaimed`: the pool.
* `CanaryFirst`, `HeldUntilReviewed`, `LockedWhileWorking`, `RegistryIsTrue`: the
  fleet. A release that is held is installed by no cycle until an operator resumes,
  and what he has cleared is not written back by a cycle that read it before. The
  registry is right about an idle board whose last run ended with a record; a run
  that changed the board and then failed or was interrupted, an erasure, and an
  installation over SWD without a passed test under the board's key end without one.
* `StageZeroLast`, `KeyShared`, `OnlyConfirmedBoards`, `PassedAsPlanned`:
  provisioning, over any number of runs that broke off. A board started by a new
  boot loader answers to its host's stored key, unless another was imported since
  its last erase, and to none at all if its package had none.

With two failed metadata writes Stage 0 starts the confirmed image and leaves
the trial pending; further uploads are refused until the next reset. This is
the code's design (`G100_BOOT_META_DEGRADED`), and `TrialFallsBack` therefore
speaks of the image that runs and not of the metadata.

Definitions named `Mut_...` are deliberate errors, one for each property; each
is shown to violate it when it takes the place of the definition after it.

## Findings

* `reset_cancelled`: `recovery` answers `reset_pending`, but `abort` and `begin`
  clear state 5 (`app/ota_update.c:233`), and `recovery` itself replaces an
  activation's pending reset. After activate, recovery, abort the trial is
  pending and no reset comes.

Seen while modelling, where the models allow what the code does and no run
demands otherwise:

* A confirmation whose save failed answers that the rollback remains active
  (`app/rj_api.c:655`). The last operation of the save may fail after it took
  effect (`platform/config_store.c:58`): the change is then rolled back in RAM,
  and in force after the next reset. `SettledByConfirmation` is stated so that
  this is allowed.
* `device_config.h` says that without a DHCP server the fallback is used. The
  timeout runs only before a lease was assigned (`app/network_config.c:112`), so
  a board whose lease lapses while no server answers has no address until its
  link changes. Likewise, if `dhcp_start` itself fails with the link up,
  `app/network_config.c:51` waits for a change of the link.
* `fleet_agent.py:69` saves holds once, after the fan-out. An agent that stops
  before has no hold of what failed, and starts the release again;
  `HeldUntilReviewed` therefore speaks of failures that were saved, and
  `CanaryFirst` of one cycle; neither catches this.
* `holds.json` has one entry for the release (`fleet_agent.py:68`); the failure
  of a newer release overwrites it, so that an older one is no longer held if
  the newer is withdrawn.
* An erasure passes without touching the registry (`controller.py:283`), and an
  installation over SWD records its release only after a passed test with a key
  (`controller.py:317`). The old `last_release` stays, and the agent passes over the
  board on its word (`fleet_agent.py:46`) if it names the latest release.
* An import takes any well-formed access record of the UID (`main.py:113`), one of
  before the last erase included, and an installation of a package without a
  recovery service leaves the host's stored key alone while the board then has
  none. The host and the board then have different keys until the next
  installation with a key.

## Proofs

`tlapm` checks `MetaStoreProofs`, `UpdateProofs`, `ConfigStoreProofs`,
`OtaAuthProofs`, `SettingsProofs`, `HttpPoolProofs`, `FleetProofs` and
`ProvisioningProofs` to the last leaf. The theorems hold for every value of the
constants that satisfies the named assumptions (`RangeAssumption` and
`EmptyAssumption` of `MetaStore`, `ConstantsAssumption` of `BootUpdate`,
`InstallAssumption`, those of `ConfigStore`, `AuthAssumption`,
`NetworkAssumption` and `SettingsAssumption`, `HttpAssumption`,
`FleetAssumption`, `ProvisioningAssumption`); TLC evaluates these on every run.
One theorem, `GivingUpKeepsRollback`, has a hypothesis of its own; see below.
TLC checked the inductive invariants `IndInv` of `Settings` and `InstallInv` on
the instances of `settings` and `install` before they were proved.

| Theorem | Establishes |
| --- | --- |
| `StoreTypeCorrect`, `StoreOrdered`, `WriterKnowsRecord` | `TypeOK`, `ReadableConsecutive`, `WriterState` of `MetaStore` |
| `StoreImplementsRegister` | `AtomicRegister`: `MetaStore` implements `MetaRegister` |
| `Invariance` | the inductive invariant `IndInv` (of `BootUpdate`, and of the other components under the same name) |
| `TypeCorrect`, `ReferencedImagesStayIntact`, `UploadsStayApart`, `TrialsAreBounded`, `ConfirmationIsEarned` | the invariants that follow from `IndInv` |
| `RequestsAreUsedUp` | `RequestConsumed`, if the backup domain does not fail |
| `ActivationsAreFresh`, `NeverRollsBack` | the action properties `FreshActivations` and `NoRollback` |
| `ConfigTypeCorrect`, `ConfigurationsOrdered`, `SavesProgress` | `TypeOK`, `ConfigurationsConsecutive`, `SaveProgress` of `ConfigStore` |
| `ConfigImplementsRegister` | `AtomicConfiguration`: `ConfigStore` implements `ConfigRegister` |
| `AuthTypeCorrect`, `AcceptedAtMostOnce`, `NeverOvertaken`, `NotRetriedOnce`, `AnswersAreGenuine`, `RefusalsHaveCause` | the invariants of `OtaAuth` |
| `PromiseKept` | `KeepsPromise`: `BootUpdate` implements `UpdatePromise` |
| `InstallIsUpdate` | a board under hosts that run `install()` behaves as `BootUpdate` allows |
| `InstallTypeCorrect`, `GenerationsNameOneImage`, `PassedInstalled`, `GivingUpKeepsRollback` | `InstallTypeOK`, `OneImagePerGeneration`, `PassedIsInstalled`, `RollbackRemains` of `Install` |
| `SettingsTypeCorrect`, `NetworkRunsSettings`, `InForceWasConfirmed` | `TypeOK`, `NetworkInUse`, `SettledByConfirmation` of `Settings` |
| `RequestsAppliedAsMeant`, `ConfirmedOverNewAddress` | the action properties `AppliedAsMeant` and `ConfirmedWhereReachable` of `Settings` |
| `HttpTypeCorrect`, `SlotsAreOwned`, `AnswersAreWhole` | `TypeOK`, `SlotsOwned`, `AnsweredWhole` of `HttpPool` |
| `FleetTypeCorrect`, `CanaryGoesFirst`, `LocksAreReturned`, `FailuresAreHeld`, `RegistryStaysTrue` | the invariants of `Fleet` |
| `ProvisioningTypeCorrect`, `LayoutsAreComplete`, `KeysAreShared`, `BoardsAreConfirmed`, `PassesAsPlanned` | the invariants and action properties of `Provisioning` |

**The store.** Two readable records always have consecutive numbers, because a
write goes to the sector of the older one and its number is the newer one's
plus one; the signed difference then orders them whatever the width, and every
NOR operation either leaves `Current` alone or is the step at which the
register changes.

**Updates.** The properties are not inductive by themselves. `IndInv` adds:

* `StoppedIsIdle`: nothing runs and nothing is uploaded across a reset.
* `VerifiedInPlace`: the header that `finish` wrote is still there when
  `activate` makes the metadata name it, or can no longer be read.
* `AttemptsCharged`: the persisted count covers the starts there have been, so
  that the count refusing a third start refuses it in truth.
* `ActivationsRemembered`: the metadata remembers the greatest generation ever
  activated, in one of three fields, and a pending trial is newer than the
  confirmed image.
* `UploadIsNewer`: while the metadata still has the number it had at `begin`,
  the upload is newer than all it remembers. Every effective metadata write
  increases the number, which is why `activate` may rely on the check made at
  `begin`.

The proof has one lemma per action, or one for a group of actions that change
the same things (`RestartKeepsIndInv`, `QuietKeepsIndInv`,
`StillKeepsIndInv`). Handlers that may stop between several metadata writes
are treated by `MetaGood`, which says of any record what the invariants say of
the metadata: each repair keeps a record good, so every record `begin` or
Stage 0 can leave is good, wherever they stopped.

**The promise.** `PromiseKept` rests on `IndInv` and on what each record a
handler writes promises: an empty record promises what an unreadable one does,
nothing; giving up a trial drops the candidate, disowning an image drops the
good generation, and both keep what is burned; a charge takes one try. A handler
that stops part way leaves one of these records, so it is the same step of the
promise, or no step. The order of Stage 0's writes matters here: a trial is
started only after its charge has been written.

**install().** `InstallIsUpdate` makes everything above hold of a board whose
requests come from any number of hosts, calls of which are lost and repeated at
any point. What is added (`InstallInv`):

* `Undamaged`, `RunsConfirmed`: in these runs flash and metadata do not decay,
  so that what says it is confirmed is what the metadata confirms. (With decay a
  board may run a confirmed image that its metadata has lost, and a host would
  be told so: `update_decay` is about that.)
* `ProvenRemembered`: all that was ever confirmed is the confirmed image of now
  or of an older generation. This is what makes `OneImagePerGeneration`
  inductive.
* `PackagedInRange`: a host past `pack` has a generation the metadata has room
  for.

Each step of the board or of a host either leaves the confirmed image alone
(`Steady`), which rests on `Follows` (no write of Stage 0, `begin` or `activate`
confirms another image or goes back in generation), or is a confirmation
(`Promotes`) of a newer generation, asked for by the host whose payload runs.
`MayBecome` collects what a call may make of a host, so that each call is
treated once and its lost answer with it. `RollbackRemains` then follows from
`UnaskedUnproven`: what a host has not asked to have confirmed is not. This
needs that no two hosts install the same payload (the hypothesis of
`GivingUpKeepsRollback`; `MCInstall` gives each host its own): of two hosts
with one payload that pack the same generation, the one may confirm what the
other, having given up, counts as rolled back. The digest in `confirm` cannot
tell them apart, and to the board there is no difference.

**Configurations.** `SaveProgress` is what makes the order of `g100_config_save`
count: at each stage it says which sectors of the target bank hold the new
content, up to the magic, which is programmed over a complete header and
payload only. With `ConfigurationsConsecutive` this is inductive, and each NOR
operation is then a step of the register or leaves `Current` alone.

**Authentication.** The inductive invariant relates the log of accepted requests
to the board's nonce and number (a logged request has an older nonce, or a
smaller number), to each client (attempts are numbered, and those sent have
numbers up to the current one), and to what is on a client's connection.
`NoOvertaking` needs that a later attempt never has an older nonce and number.

**Settings.** What a request says it has read is a revision, and `AppliedAsMeant`
speaks of contents. `Meant` closes the gap for each request that may still come:
if it names the revision of now and is of this boot, it was made from the content
of now. Every content change takes a new revision, so this is kept as the
revisions go up, and a reset makes all pending requests requests of an earlier
boot. `TrialConfirmed` says that there is a candidate while a change is pending,
and that the record in NOR holds settings that were confirmed, or were in a save
whose outcome nobody was told, which is what a reset starts from. `NetworkInUse`
is kept by each of `NetworkConfig`'s operations for whatever configuration it is
given, and `Settings` then only has to give it the right one.

**Connections.** `SlotsAgree` accounts for one response between a connection and
its slot: what was queued is acknowledged or on its way, and what was not is
still to be written. A callback touches its own connection and slot only, and
leaves them together or apart with the slot free (`Leaves`), so one lemma covers
all callbacks.

**Fleet.** `CycleShape` says that of the boards tried before one passed all but
one were unreachable; `Recorded` that what a board runs is known to the registry,
to who is about to record it, or noted as unrecorded (while the operator's run
programs or tests the board, too); `HoldsKept` that a cycle has
read the very holds on file, which nobody changes under it (`clear_holds` takes
the agent's lock), and installs another release than the held one. Each is kept
for itself, given the types.

**Provisioning.** `RunInOrder` is what a run knows of its board at each stage:
which regions it has programmed, with which key if it has one, and that the probe
of a session is on that board. Nobody else changes this, because the board's lock
lets one run at a time work on it and keeps imports out. `BoardInOrder` is what a
run leaves wherever it stops: a board with a new Stage 0 is whole (`Whole`) and
shares its key (`Shares`), and one whose access record is blank has none.

**Only model-checked:** liveness, which this prover does not reach: `PendingEnds`
of `Settings`, `SlotsReclaimed` of `HttpPool`, and `RecoveryHandsOver` and
`TrialFallsBack` of `BootUpdate`. Every safety property the runs check is stated
by a theorem; `RequestConsumed` while the backup domain works, and
`RollbackRemains` for hosts with payloads of their own.

## Not modelled

* The vendored stacks (mbedTLS, LwIP, HAL, CMSIS) are about 200,000 of the
  repository's 211,000 lines and third-party code; the models are of the rest. LwIP appears as the surroundings of `HttpPool` and
  `NetworkConfig`, as its callers see it.
* TLS staging, identity, the access list and the catalogue
  (`app/rj_security.c`, `device_identity.c`, `access_control.c`,
  `rj_catalogue.c`): stateless lookups, and a key and credentials in RAM which
  single requests replace whole.
* Clock, pin, MPU and SDRAM setup, the LED: hardware access.
* The launcher, web pages, scanning for boards and release downloads: a download
  is, in `Fleet`, the choice of a release or a failure.
* Cryptography, CRC and SHA-256: a code or digest fits what it was made of.
* Discovery (`app/discovery.c`): rationed replies and hints over UDP, which
  authorize nothing; its slots and periods are arithmetic local to one file.
* The JSON reader (`app/rj_json.c`): a pure recursive parser. `Settings` takes
  requests as they are read.
* Wording and schemas of replies.
