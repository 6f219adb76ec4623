# Verification of midnight-node

This directory holds TLA+ models of the parts of midnight-node whose correctness
depends on order, concurrency, failure or arithmetic at a boundary, TLC
configurations that check them on small instances, and TLAPS proofs of the
properties that matter most for every value of the constants.

## The system

midnight-node is a Substrate partner chain of Cardano. Its parts, and what they do
to each other:

- **Pallets** (`pallets/`). `midnight` keeps the key of the ledger state and applies
  user transactions; `midnight-system` applies system transactions;
  `cnight-observation` turns Cardano cNIGHT movements into dust generation;
  `federated-authority-observation` copies the governance members from Cardano;
  `federated-authority` holds motions that both governing bodies must approve;
  `system-parameters` stores D-parameter and terms; `throttle` limits signed
  transactions; `version` writes the runtime version into the digest.
- **Ledger bridge** (`ledger/`). Host functions behind which the Midnight ledger
  (an external library, several versions side by side) validates and applies
  transactions on an on-disk Merkle storage, with caches of validation results.
- **Mainchain follower** (`primitives/mainchain-follower`). Reads Cardano from the
  PostgreSQL database of db-sync and builds inherent data.
- **Node** (`node/`). Inherent data providers, transaction pool filter, genesis
  construction, memory monitor, storage migrations, RPC, command line.
- **Runtime** (`runtime/`). Composition of the pallets, call filter, session and
  BEEFY hooks, governance configuration.
- **Tools** (`util/toolkit`, `ledger/helpers`, `util/upgrader`, `relay`). Transaction
  generation and replay against a node, wallet state, the runtime upgrader, the
  BEEFY relayer to Cardano.

`PROJECT.json` lists every part under `components`, modelled or not, and under
`hazards` what is hard to test in this code, at the line where it bites.

## Modules

| Module | Models | State and actions |
|---|---|---|
| `CardanoPosition` | positions on Cardano and their order (`primitives/cnight-observation`) | operators only |
| `CNightTypes` | what follower and pallet share: addresses, keys, UTXO ids, capacities | constants and `ObservedUtxo` |
| `CNightObservation` | `pallets/cnight-observation` | storage items as variables, `process_tokens` as a sequence of steps (`ProcessTokens`, one `Handle...` per UTXO, `Complete...`), hooks, Root setter, blocks that are discarded |
| `CardanoChain` | Cardano as db-sync shows it (external) | operators on a sequence of blocks |
| `CNightFollower` | the cNIGHT data source and its SQL | the four queries, LIMIT, skipping, sort, truncation, next position, as operators |
| `CNightBridge` | the cNIGHT bridge end to end | pallet and follower composed with Cardano growth, per-node db-sync, authoring, checking, loss of blocks |
| `CNightBridgeSpec` | what the bridge promises | chain, position, live registrations, owners |
| `FederatedAuthority` | `pallets/federated-authority` | `motions`; approve (`Propose`, `Join`), revoke, close, next block |
| `Throttle` | `pallets/throttle` | `usage`, the pool; submit, apply, evict, next block |
| `AuthorityObservation` | `pallets/federated-authority-observation`, its data source and the membership handlers of `runtime/common/src/governance.rs` | Cardano outputs, stored locations, members, mainchain members, account references; publish, begin and end of a block, Root setters |
| `Governance` | the runtime's composition of observation, collectives and motions | the two modules above and the collectives' proposals; propose, vote, close, `motion_close` |
| `MidnightLedger` | `pallets/midnight`, `pallets/midnight-system`, the ledger bridge's caches and storage, the pool filter | per node: best block, pool, two caches, disk, block in execution; validation, authoring, import, crash |
| `BlockFetcher` | `util/toolkit/src/fetcher` | the cache and, per run, channels and tasks; one action per task step |
| `CNightObservationProofs`, `FederatedAuthorityProofs`, `ThrottleProofs`, `MidnightLedgerProofs` | | theorems and proofs |
| `MC...` | | instances for TLC |

### cNIGHT observation

The pallet's storage items are the variables of `CNightObservation`; `registered`
is what a reader believes who knows the genesis and follows the deposited events (one
that does not fit what the reader believes leaves the reader confused), and `dust` is
the ledger's table of generations (external). The genesis brings mappings and owners
without events, together with the system transaction that makes the ledger generate
for them; `GenesisAssumption` says that they fit, because the genesis tool makes them
by running the pallet. `process_tokens` is a loop with an effect per UTXO and a
possible failure at the end, so it is a sequence of steps during which no other
action is enabled. It is a Mandatory inherent: if it fails the block is not valid,
and `Discard` goes back to `committed`, the state after the last valid block.

Keys are split into those the ledger can decode (`ValidKeys`) and the rest, because
`construct_cnight_generates_dust_event` fails on the latter. The nonce of a UTXO is
a hash of its id and is taken as injective. Values and timestamps pass through
unchanged and are left out.

`CNightFollower` translates `get_utxos_up_to_capacity`: each query selects rows
between the start position and one past the tip block's last transaction, the LIMIT
cuts them (among rows that the ORDER BY leaves equal it may keep any), rows that do not decode are skipped, the lists are concatenated and
sorted by `ObservedUtxoHeader`'s order, truncated to whole transactions, and the end
position is the tip's or the one after the last kept transaction.

`CNightBridge` composes them. A node that authors or checks a block is a *reader*
that issues the four queries one by one, in any order, while its db-sync keeps
adding blocks. The author's Cardano block is the latest it knows; the importer uses
the block the author named, refuses the block if it does not know it, and compares
the data it computed itself (`Import` is `check_inherent`). `KeepsPromise` says that
this implements `CNightBridgeSpec`, in which a step observes all Cardano
transactions up to some later position at once, in closed form: the live
registrations there, and for every unspent cNIGHT output the key of its holder if
exactly one registration counted when it was created. The refinement mapping reads
the state after the last valid block.

### Motions

`FederatedAuthority` keeps for each call the approvals and the number of blocks left
(`ends_block` minus the current block). FRAME undoes the storage changes of a call
that returns an error, so an error path changes only `outcome`, the result the
caller sees. `standing` counts, from those results, who asked for a motion in its
current round and has not withdrawn.

### Governance

`AuthorityObservation` follows a member list from a Cardano datum into the chain. The
query returns the newest output at a location up to the reference block, by block and
by the index of the transaction in it (a transaction creates one output at a location
at most: `ReplacementAssumption`);
`CreateInherent` and `CheckInherent` are the pallet's, `Apply` is the whole of
`reset_members` with what the handlers do below it: `pallet_membership` (which may
refuse, unnoticed), `pallet_collective`, and the sufficient references of the
accounts. Accounts are numbers in the order of their ids, because the pallet sorts by
id. The accounts and the mainchain members are stored apart and belong together by
position only: `PairsKept` is about that. At genesis the mainchain members are stored
unsorted next to sorted accounts, so the pairing holds from the first `reset_members`
on, and the property says so.

`Governance` puts the collectives between that module and `FederatedAuthority`, both
taken with `INSTANCE`. A closed proposal is dispatched with the origin *n ayes of m
seats*; only two thirds make it the word of the body. The block that changes the
members also takes the votes of those who leave out of the open proposals.

### Ledger

In `MidnightLedger` a ledger is a set of unspent coins, the parameters, the time and
the block's fullness, and its key is the ledger itself (a content hash). A node may
stop at any step (`Crash`): memory, caches and the block in execution are lost; the
chain database and what was flushed to the ledger database remain, and the two are
written at different moments: `OnFinalize` flushes the ledger of a block, and the block
is committed later (`Commit`), refused (`RefuseRoot`) or dropped (`Discard`). The soft cache answers pool revalidation, the strict
cache spares `apply` a second verification. Validation for the pool is two steps
because it runs in parallel with block execution. `apply_transaction` also fails
where `pre_dispatch` does not look: when the cost cannot be computed under the
parameters (`Unpriced`), and when the UTXOs are not those the transaction tells of
(`Accountable`). The pool filter is asked at every submission and forwards what it
cannot decode; the inner pool's own resubmissions come after forks only. Forks, and the switch between ledger
versions, are not modelled.

### Block fetcher

Each run of the toolkit has a pusher, fetch workers, compute workers and a main loop
that wait for each other on channels, three of them bounded. A run can fail or be
killed at any point; the cache outlives it. `Chains` are the chains a node behind the
same URL may be on; they share blocks 0 and 1 because the cache is kept per hash of
block 1.

### Throttle

`Throttle` keeps each account's usage and the pool. Transactions are validated on
submission and again, together with `prepare`, when they are applied. `from` is the
first of `WindowSize` blocks chosen freely in the initial state, and `observed`
counts what was applied in them: a statement about `observed` is a statement about
every such interval.

## Runs

| Run | Result | Shows |
|---|---|---|
| `cnight_pallet` | pass | the pallet's books, events and the ledger agree, one inherent at most takes effect in a block, the position never moves back |
| `cnight_bridge` | pass | refinement of the promise, agreement of author and importers, honest inherents always succeed, everything is observed in the end |
| `cnight_skipped_rows` | violation | the follower's "up-to-date" comment is wrong when rows behind the LIMIT were not read |
| `motions` | pass | consent, frozen end, resolution |
| `motion_close_failing` | violation | a motion whose call fails is not removed, against the comment in `motion_close` |
| `authority` | pass | pairing, account references, agreement of author and importers; the members catch up with Cardano |
| `governance` | pass | members' votes only, two thirds of the present members, Root only for both bodies |
| `ledger` | pass | the ledger of the best block is on disk whenever a node stops; cached verdicts let nothing into a block whose guaranteed part cannot be executed, the validity window apart |
| `ledger_pool` | pass | transactions whose coins are spent leave the pools |
| `ledger_window` | violation | a verdict reached for the pool's later block time is used for an earlier block |
| `fetch` | pass | the verified part of the cache is one chain and stays, every run ends |
| `throttle` | pass | usage within the limit, at most twice the limit in any window, no refusal a rolling window would not make |

Three more places where a text and the code differ were met while modelling; they are
not runs of their own:

- the throttle's window is called rolling (`pallets/throttle/src/lib.rs:16`), but
  `check_throttle.rs:86` starts a new fixed window, so that an account may use up to
  twice the limit in `WindowSize` blocks; `TwiceTheLimitAtMost` is the bound that holds;
- `docs/governance/overview.md:115` speaks of unspent outputs, and the query at
  `db/queries/federated_authority_observation.rs:50` takes the newest output, spent or
  not;
- `util/toolkit/README.md:122` lets several toolkits share a cache, and
  `fetcher.rs:306` sets the highest verified block without comparing it with what is
  stored, so that a run beside another may lower it and return fewer blocks than it
  fetched.

Bounds and why they are enough:

- `cnight_pallet`: one address (every handler touches one address only) with one
  mapping at genesis and up to two (`MappingsBounded`), two keys of which one does not decode, two UTXO ids, one of them of
  cNIGHT that generates from genesis on, so that an id can be created, spent and created again, batches of up to two UTXOs of all kinds in any
  order and some that exceed the capacity, positions at and after the genesis
  position, in the same and in the next Cardano block. Long histories arise from many
  blocks.
- `cnight_bridge`: two addresses and four Cardano transactions in up to two blocks of
  up to two. They include a registration, cNIGHT next to an output that only looks like
  a registration, a transaction that replaces a registration and moves cNIGHT, some of
  it to the other address, and registrations of both addresses, one with a key that
  does not decode. `TxCapacity = 2` makes the follower truncate in the middle of a
  block and of the range; with `UtxoPerTx = 3` the third transaction fills an
  inherent to the last UTXO; two nodes lag behind independently. That an honest
  inherent is never too large holds as long as `TxCapacity` transactions carry no more
  UTXOs than that estimate, which is 64 in the code: with more, the follower would
  hand over what `process_tokens` refuses. The genesis is empty.
- `motions`: three bodies for two places and two calls, one of which may fail; a
  motion lasts two blocks, so each operation can fall before, at and after its end.
- `authority`: three accounts, of which two are in both bodies at first; lists in and
  against the order of the accounts, with exchanged mainchain members, with a
  duplicate, too long, undecodable; two Cardano blocks of up to two transactions, so
  that a list is replaced by another, in the same block too; two addresses and two policy ids, so that each body can be
  pointed at the other's list or at nothing. The lists that cannot be
  used are published at one location only.
- `governance`: a council of three that becomes one of two, with one newcomer, and a
  committee of one; one motion that lasts one block, may fail, and relocates the
  council. Votes are given, withdrawn and counted before and after the change.
- `ledger`: a validator and a relay that filters deployments, a block of up to two
  extrinsics, two transactions that compete for a coin, one of them with a cost that
  cannot be computed, a clock of two seconds; a node flushes at most three ledgers,
  genesis included (`MaxFlushed`), so that a block may be dropped after its flush
  before another is committed. `ledger_pool` adds two system transactions, one of which overwrites the
  parameters, and is limited to one block of one extrinsic because it checks liveness.
  Slots last one second and `update` is valid from second 2 on, so that a block time
  can be before or in the validity window, which `ledger_window` needs.
- `fetch`: two fetch workers, one compute worker and up to six blocks in jobs of one
  or two, so that there are boundaries between jobs and cache hits; two chains. There
  are up to three jobs, and the channels to and from the compute worker hold two: both
  fill, and a fetch worker or the compute worker waits with the third. (The channel of
  the pusher holds four and does not fill; nothing waits for the pusher but workers
  that find it empty.) Runs follow each other; `Sessions` with two members would let
  them overlap.
- `throttle`: windows of three blocks and eight blocks, so that up to three windows
  begin; lengths that fill a window in one, two or three transactions and one that
  makes the sum saturate. The accounts are interchangeable.

Fairness. In `cnight_bridge` every db-sync keeps adding blocks, nodes keep authoring,
a begun block finishes (weak fairness), and a block that could be checked infinitely
often is checked (strong fairness: not every block is lost). Slot-based authoring and
gossip give this as long as some author and some importer are alive. In `motions`
blocks keep coming and somebody keeps closing motions, which any signed account may
do. No fairness is assumed of approvals or revocations. In `authority` blocks
begin and end (weak fairness) and their Cardano reference moves on when Cardano does
(strong fairness, since it can only move at the beginning of a block): it is the
newest stable block at the slot's time. In `ledger_pool` a begun validation ends and a
soft entry reaches the end of its time to live (weak), and the pool revalidates what
it holds whenever it gets the chance (strong: block execution comes in between). In
`fetch` the executor runs some task as long as one can (weak fairness of all the tasks
of a run together).

## Proofs

TLAPS checks every theorem; they hold for all values of the constants that satisfy
the named assumptions of the modules.

- `CNightObservationProofs`. From any genesis that satisfies `GenesisAssumption`.
  `IInv` joins the type invariant, `EventsTellRegistration`, `OwnersMatchLedger`, and
  what they need to be inductive: the same facts for `committed` (a discarded block
  returns there), `CallOK` for a `process_tokens` in progress (the events collected so
  far, applied to the ledger's generations, match the owners written so far, provided
  the ledger accepts them), that the storage between blocks is the committed one, and
  `FlagTellsInherent`: while the flag is down the books are those of the parent block.
  From it follow the five properties of `cnight_pallet`.
- `FederatedAuthorityProofs`. `ApprovalsStand` with the type invariant is inductive.
  Consent and the frozen end are action properties that follow from it. The finite-set
  lemmas bound the approvals by `MaxAuthorityBodies`.
- `ThrottleProofs`. `WindowOf` says, while blocks are observed: if the account's
  window began before them, all that was observed is in its usage; otherwise it is the
  only window that begins among them, and what was observed is at most its usage and
  one limit from the window before. Both bounds follow.
- `MidnightLedgerProofs`. `IInv` joins the type invariant and `NodeOK`: the ledger of
  the best block is on disk, and so is that of a block that is final and not committed
  yet; an import is of a block of the chain; a transaction waits to be applied only
  after `pre_dispatch` met it in the block. `BestStateOnDisk` follows.

Only model-checked: liveness (`EverythingObserved`, `MotionsResolve`, `MembersFollow`,
`SpentLeavesPool`, `RunsEnd`), the refinement and the other properties of
`CNightBridge`, whose follower is built from cardinalities and sorting,
`OnlyTheWindowDivides` (its invariant needs the ledger before every extrinsic of a
block, which the model does not keep), and the properties of `AuthorityObservation`,
`Governance` and `BlockFetcher`.

## Not modelled, and the plan

Next, in this order: the toolkit's wallet state cache and sender; the BEEFY relayer;
the session and BEEFY hooks; genesis construction and verification; the storage of the
ledger versions and the switch between them; the memory monitor; the cached candidates
of the committee; the runtime upgrader; the system parameters. Then proofs: the
invariants of `AuthorityObservation` and `Governance` (votes come from members, two
thirds back every approval), the verified chain of `BlockFetcher`, and the safety part
of `CNightBridge` from a closed-form description of the follower.

Left out for good: cryptography and zero-knowledge proofs, the inside of the Midnight
ledger and of Substrate (modelled only as the code uses them, and marked external in
the map), command-line parsing, RPC plumbing, metrics and logging, weights and
generated metadata.
