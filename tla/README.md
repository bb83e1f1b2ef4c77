# A verification project for the EVM keystore module

TLA+ specifications of the Rust module in `src/rust-lib`, model-checked with TLC
and, where it matters most, proved with TLAPS for every value of the constants.

## The system

The keystore module holds account keys in encrypted files under one directory
`<ks>/` and lets other modules ask for signatures that a human approves. It
keeps no unlocked key: every use of a key decrypts its vault inside one call.

| part | state | operations | interacts with |
|---|---|---|---|
| caller gate (`gate.rs`) | the holders of two roles, in memory | `configure`, the Tier A, B and D decisions | consulted by every method of the surface |
| approval ledger (`approval.rs`) | pending and settled requests, in memory | `request`, `pending`, `acknowledge`, `approve`, `reject`, `status`, `fetch_result`, `ack_result`, `cancel`, each with a sweep | `approve` opens an account vault |
| module surface (`glue.rs`) | the three above, set up by `on_context_ready` | one method per operation, with the gate and the events | callers: wallets, approver and custodian surfaces, the host |
| account vaults (`keystore.rs`, `atomic.rs`) | `<address>.json`, stages `.stage-<address>/`, `.stage-import-<nonce>/` | imports, `change_password`, `delete_account`, `settle`, `remove_unexplained`, export | two processes may share the directory |
| documents and lock (`keystore.rs`, `layout.rs`) | `groups.json`, `accounts.json`, `labels.json`, `group-labels.json`, `.lock` | `update`: lock, read, change, staged write, rename | every bookkeeping write |
| HD groups and provenance (`keystore.rs`, `hd.rs`) | derivation keys under `groups/`, records, rows and names in the documents | `import_mnemonic_ex`, `derive_next_account`, `derive_account_at`, `forget_derivation`, `remove_group`, `set_group_label`, `retire` | vaults and documents, in several steps each |
| layout scan (`layout.rs`) | none: classifies what is in `<ks>/` | `classify`, `scan` and the reports derived from it | the authority for held, staged and unexplained material |
| what an intent means (`approval.rs`, `keystore.rs`) | none | `commitment`, `render`, `check_displayable`, `parse_*`, `sign_*` | the ledger commits to and shows what the vault then signs |
| paths (`hd.rs`) | none | `Bip44Path`, `parse_account_prefix`, `signer_at`, `encode_account_key` | every derivation |
| KDF ceiling (`keystore.rs`) | none | `check_kdf_params` | asked of an imported document, of a staged vault before it is promoted, and of a wallet's key before it is opened; not of an account's own vault |

Calls to one module are dispatched one at a time, so within a process every
method is atomic with respect to every other. What makes the system hard is

- several approver surfaces that each still show a request while the ledger has
  moved on to another;
- deadlines without a timer: they are applied by whichever call comes next;
- lost replies, requesters and approvers that die, and a process whose ledger
  dies with it;
- operations that write several files, each of which can be the last thing a
  killed process did, with repair (`settle`) that decides from what is left;
- two processes on one directory, whose lock covers the bookkeeping only.

What must be right, part by part:

- gate: no one but a named module that holds the role, under any configuration;
- ledger: nothing is signed but what is on screen, one decision per request,
  answers and signatures kept until collected, a bounded queue, an answer in the
  end for a requester that polls, and nothing kept for ever that somebody could
  forget;
- vaults: a key is never lost by an interrupted write, a deleted key never comes
  back, and what a process wrote is what it reports;
- documents: no lost update, no torn document, no update half visible;
- layout: nothing that may be a key is hidden from the reports, and what is
  reported can be removed without losing an account;
- groups: no index handed out twice, no account without the row that explains
  it, no wallet record removed from under an account, no name over an account or a
  key that its giver could not open;
- inputs: an approver is shown what is signed, one commitment is one signature, a
  path is the key it names, and opening a document that passed the check costs no
  more than the ceiling.

## What is here

| module | models | depends on |
|---|---|---|
| `Gate` | `gate.rs` and the gates of `glue.rs` | |
| `Approvals` | `approval.rs` with the Tier A and Tier B methods of `glue.rs` | `Gate` |
| `ApprovalPromise` | what the ledger promises about each request (abstract) | |
| `ApprovalsProofs` | theorems about `Approvals`, with proofs | `Approvals`, `TLAPS` |
| `MCApprovals` | instances for TLC | `Approvals` |
| `MCApprovalsShown` | the same with a history of what was ever claimed | `MCApprovals` |
| `Vaults` | the vault half of `keystore.rs` over `atomic.rs`, with the Tier D methods that use it | |
| `AccountStore` | what account storage promises the callers of one process (abstract) | |
| `VaultsProofs` | any number of processes: types, outcomes, and what calls that are not cut short leave | `Vaults`, `TLAPS` |
| `VaultsAloneProofs` | one process: every safety property of the vaults, and the refinement of `AccountStore` | `VaultsProofs` |
| `MCVaults` | instances for TLC | `Vaults` |
| `Documents` | `Keystore::update` with the lock of `layout.rs` and `write_doc` of `atomic.rs` | |
| `DocumentPromise` | what an update of a document promises (abstract) | |
| `DocumentsProofs` | mutual exclusion, whole and committed documents, the refinement | `Documents`, `TLAPS` |
| `Groups` | wallets, derivation keys, rows and indices: the group methods of `keystore.rs`, `retire` included | |
| `GroupsProofs` | any number of processes: types, where an account came from, which index may come twice | `Groups`, `TLAPS` |
| `GroupsAloneProofs` | one process: every property of the wallets | `GroupsProofs` |
| `MCGroups` | instances for TLC | `Groups` |
| `Intents` | an intent: its commitment, what is shown of it, what is signed for it | |
| `HdPath` | the texts of `hd.rs`, the paths they say, the child indices that are derived | |
| `Kdf` | `check_kdf_params` | |
| `Inputs` | calls that take an intent, a text, a path or a document and keep nothing | `Intents`, `HdPath`, `Kdf` |
| `InputsProofs` | what is shown, what a commitment binds, the paths and the bounds on work, for every input | `Inputs`, `TLAPS` |
| `MCInputs` | the inputs for TLC | `Inputs` |
| `Layout` | `layout.rs`: which path is what, what a scan sees, and how it reports it | |
| `Directory` | `settle`, `remove_unexplained` and `delete_account` on any tree `Layout` can describe | `Layout` |
| `DirectoryProofs` | every property of `Directory` | `Directory`, `TLAPS` |
| `MCDirectory` | an instance for TLC | `Directory` |

### Gate

A role is a set of names. `Configure` is total: both roles are replaced, blanks
are dropped (`IntoHolders`), a document that does not parse, is not an object or
has an unknown key is the one value `Malformed` and changes nothing. Callers are
records with the kinds of `gate::Caller`; only `module` can hold a role or be
recorded as a requester. Trimming and repeats disappear in the abstraction to
sets; `Blank` is the name that trims to nothing.

### Approvals

`records` maps each handle to a record; a handle the ledger does not know has
the record `NoRecord` (`find` returns `None`). A record is a state (`offered`,
`rendered` or an `Outcome`), the requester, the commitment to what would be
signed, two clocks and whether signatures are waiting. Time is relative: `age`
counts ticks since the offer and stops at the first value past the TTL,
`settledFor` counts ticks since the sweep stamped the record and stops at the
retention. Nothing in the code can tell larger values apart, so this is exact
and not a bound.

Each action is one dispatched call and contains the whole handler:

| action | code | what it covers |
|---|---|---|
| `RequestApproval`, `RequestRefused` | `request_approval`, `request` | sweep, caps, admission; the reply may be lost (`heard`); every refusal after the sweep |
| `ReadRequest` | `approval_status`, `fetch_result` | sweep, then a read |
| `AckResult`, `CancelApproval` | `ack_result`, `cancel_approval` | receipt check BEFORE the sweep, the change, then the sweep |
| `Pending` | `pending` | sweep |
| `Acknowledge` | `acknowledge` | sweep, unknown handle, demotion of every other rendered record, refusal of a settled one AFTER that demotion, claim |
| `Approve` | `approve` | context check, sweep, state check, echoed commitment, opening and signing (`opens`), all or nothing |
| `Reject` | `reject` | sweep, refusal when settled |
| `Reconfigure`, `ContextReady` | `configure`, `on_context_ready` | |
| `Tick`, `Restart`, `RequesterRestart` | surroundings | the clock, the process and its in-memory state, a requester that loses its receipts |

`onScreen`, `display` and `receipts` are not state of the ledger: they record
what its replies told the callers. `display[m]` is what module `m` shows, and an
approver echoes what it shows for whichever handle it believes that to be,
rightly or wrongly. It survives a restart of the keystore, as it does in the
real surface. Receipts are minted per request, so a receipt is identified with
its handle; `Authorises` keeps the code's check that the two belong together.
Handles are never minted twice (`minted`): the code folds a counter into 128
random bits, and a new process starts the counter again, so across restarts
this rests on the randomness.

### Vaults

Processes share one directory. A process runs one call at a time, and a call is a
sequence of steps, one for each system call whose effect another process or a
kill can see. `vault`, `stage` and `scratch` are what stands at the paths, `rows`
is the set of addresses `accounts.json` explains, `lock` is `<ks>/.lock`.

The key of an address never changes, so a vault is identified with the password it
opens under; `Torn` is content that is not a whole keystore document. A file
remembers in `by` who has it open for writing, because a rename moves the file and
not the path: a writer goes on filling what a peer has already renamed over the
vault. `mine` and `junk` are the random scratch names an import made and a scan
saw.

| action | code | what it covers |
|---|---|---|
| `Begin` | the Tier D methods of `glue.rs` | which method, for which account |
| `Find`, `Miss` | `held_vault`, `use_vault` | look for the vault, settle once if it is missing, look again |
| `Decrypt` | `signer_for` | open it: a signature, a password change and a delete each need it |
| `Scratch`, `Unwrap`, `Toss` | `import_keystore_json` | the caller's document on disk, opened, and removed with the scope it is in |
| `MakeStage`, `Create`, `Write`, `Promote`, `Drop` | `Stage`, `write_vault` | remove and remake the stage, open a file in it, fill it, rename it over the vault, drop the stage whatever happened |
| `Record`, `Remove`, `Retire` | `record_provenance`, `delete_account`, `retire` | the row after the vault, the vault before the row; refused while a peer holds the lock |
| `SettleScan` to `SettleDone` | `settle` | scan, lock, sweep, then per stage: check, rename, remove |
| `Answer` | the replies of `glue.rs` | |
| `Kill` | surroundings | handles close, the lock is released, everything else stays |
| `WriteFails`, `BookFails`, `CleanupFails`, `RepairFails` | the error paths | a failing call refuses, drops its stage, is ignored, or leaves settle to go on |

A method that announces a change ends in the listing its event computes, and the
listing settles (`Announce`). The lock is taken for settle and for one
read-modify-write of a document; it is waited for a second at most, so refusal
while it is held is always possible and waiting never is. One update of a document
is one step here (`Record`, `Retire`); `Documents` has its own steps and shows that
they amount to one.

History variables, which no guard reads: `told` keeps for each account the outcomes
a caller may count on (that of the last call answered ok, of the calls that
overlapped it, and of the calls begun since); `cut` the passwords that killed or
failed writes left behind in a stage, until that stage is gone; `troubled` the
accounts whose vault and row some interrupted call left apart; `since` and `over`,
inside a call, feed the first two. `MaxMishaps` bounds kills and failures in the
guard of `Mishap`; it is the only bound in a guard.

Left out: vaults under another address's name and other foreign material, which are
in `Directory`; the readability check of an import over an
unreadable `accounts.json`, the second read of an export, which only reads, and
scans that fail.

`AccountStore` has an account, at most one draft per account and one call. A call
begins, may take effect, gets its outcome and is answered. `KeepsPromise` is
`Vaults` under the mapping `Live`, `Whole`, `Shown`: of a stage only a whole file
counts, and of a call only whether it `Took` effect. It holds for one process. Two
processes break it (see Findings), and `QuietTold` and `QuietClean` say what
remains true of them.

### Documents

Every document is changed by `Keystore::update`, and an update is a sequence of
steps. `doc` is what is at each path: a text, which is the set of marks (rows,
records, names) it holds or says why it holds none, and whether its bytes are on the
disk. `older` is what was at the path since the last barrier and what a power cut
may therefore bring back. `lock` is `<ks>/.lock`.

| action | code | what it covers |
|---|---|---|
| `Begin` | the callers of `update` | which document, and whether an entry is put or dropped |
| `Acquire`, `LockTimesOut` | `layout::lock` | `try_lock` every 25 ms; the guard, or the refusal when a second is over |
| `Read` | `read_json` | absent is empty, unreadable is refused, anything else is its contents |
| `Stage`, `Fill`, `Sync`, `Rename`, `Barrier` | `write_doc` | a file with a random name, its bytes, `sync_all`, `persist`, `barrier` |
| `Unlock`, `Answer` | `Guard::drop`, the result | |
| `Fails` | the `?` of each call | the update is refused, its staged file and then the guard dropped; a failed barrier is ignored |
| `Kill`, `PowerCut` | surroundings | the lock is released; an unsynced file may come back cut short, and an uncommitted rename may be taken back |

A call's `since` is the one history variable: how many mishaps there were when the
update began. `MaxMishaps` bounds failures, kills and power cuts in the guard of
`Mishap`, and no other guard has a bound.

Left out: readers that take no lock, which see one file whole or not at all since
`rename` is atomic; `settle`'s use of the lock, which is in `Vaults`; the flag that
refuses nesting on one thread, which no method of the model meets, because the
closure gets the document only; the staged files that a killed process leaves under
random names, which no update meets again; and the web build, whose lock is granted
to the only process there is.

`DocumentPromise` has values, the values a power cut may bring back, and updates. An
update takes effect at one moment on the value of that moment, is answered ok
exactly when it did, and never replaces a damaged document. `KeepsPromise` is
`Documents` under the mapping that forgets files and the lock, `Phase` saying how
far an update has come. It is why a lost update is impossible, and what lets the
other modules treat an update as one step.

### Groups

A wallet is an id, a record in `groups.json` (`record`), perhaps a name in
`group-labels.json` (`named`) and perhaps a key, at its path (`keys`) or in a stage
(`stage`). `rows` is what `accounts.json` says of each address, `vaults` the
addresses held. An address is a phrase and an index; which phrase an id was minted
for is `phrase`, and two ids may stand for one phrase, because importing it again
mints a new id. That is the hard case: the two wallets then share every address
and neither knows the other's indices.

One update of a document is one step, which `Documents` justifies, and so is the
write of a vault, which `Vaults` has in detail. What is left is the order of the
steps and what is between them: a kill, a failure, a peer.

| action | code | what it covers |
|---|---|---|
| `BeginImport` to `BeginLabel` | the Tier D methods of `glue.rs` | the call and its arguments; an import mints its id |
| `PutRecord`, `PutName` | `import_mnemonic_ex`, `write_group_label` | the record, then the name, which a blank label clears |
| `PutStage`, `Encrypt`, `Promote`, `DropStage` | `write_group_vault` | the key into a stage, and over its path |
| `Persist`, `PutRow`, `Bump` | `persist_derived` | the vault, its row, the next index |
| `UndoKey`, `UndoStage`, `UndoName`, `UndoRecord` | the rollback of an import | key, stage, name, record, each ignored when it fails |
| `Resolve`, `Open`, `Start`, `Hold` | `derivable_group`, `open_group_key`, `next_index`, `held_addresses` | the four reads a derivation decides by, each at its own moment |
| `Try`, `PassRow`, `PassBump` | the walk of `derive_next_account`, the checks of `derive_account_at` | an index out of range or held, the row and bump for one passed |
| `ForgetKey`, `ForgetStage`, `Downgrade` | `forget_derivation` | both paths, then the record, ignored when it fails |
| `LookAtStore` to `Unname` | `remove_group` | four reads, then the record and the name |
| `Recall`, `Tally`, `Survey`, `Weigh`, `PutLabel` | `set_group_label`, `Holdings`, `prove_custody` | what the wallet is, its accounts, its keys; the proof that takes; the name |
| `Unvault`, `Unrow`, `Retire` | `delete_account`, `retire` | the vault, its row, the index of that row |
| `ImportFails`, `CallFails`, `Ignored`, `Kill` | the error paths, surroundings | which failure rolls back, which refuses, which is ignored |

`given` (which pairs of id and index became accounts), `unbooked` (whose call ended
before it had written row and next index) and `botched` (whose key a rollback
failed to remove), `free` (wallets whose last name was given by a call that had to prove
nothing) and `renamed` are history, and so is a call's `since`. `MaxMishaps` bounds kills
and failures in the guard of `Mishap`. `MaxRenaming` bounds, in `Few`, the wallets and
mishaps together of a behaviour in which a wallet is named after its import.

Left out: the two change chains, which share one counter and are one chain here; the
password of a key, which is a choice to open or to refuse; the id a caller may omit
when one wallet can derive; a name that an older build kept inside the record and that
naming moves out; `preview_addresses` and the listings, which only read;
documents that do not parse, which are failures of the step that reads them.

### Intents, HdPath, Kdf and Inputs

These decide from their input alone, and `Inputs` is no more than a call that takes one
and answers, so that its properties are invariants that hold of every input.

`Intents`. A requester's intent is read three times by three pieces of code: hashed into
the commitment, rendered for the approver, and parsed into what is signed. Each has its
own idea of a prefix, a case, a blank and a width, and what could go wrong is that two of
them disagree about one text. A field is therefore a form and what it stands for (`dec`
10, `hex` 0x0a, `HEX` 0X0A, `bare` 0a, `twice` 0x0x0a, blank, or junk), and each reader is
an operator on forms: `ParseBelow`, `ParseU64`, `ParseHex` and `ParseBytes` for signing;
`Lower` and `Unprefixed` for the commitment; `NormNum` and `ShownData` for the screen.
`Signs` is all legs or none, as in `approve`. A text is a sequence of tokens: words,
numbers, and the marks that a text and the encoding have in common, the end of a line
(`End`) and the unit separator (`Unit`). `Hidden` stands for every other character, and a
size over the limit, that `check_displayable` refuses; it refuses `Unit` as well, and lets
`End` pass.

`Encoding` is the stream of tokens that is hashed, each field and each text with the mark
the code writes behind it and nothing that tells that mark from the same one inside a text;
hashing is taken to be injective. Two different lists of legs can therefore have one
encoding: a message, or the purpose of a digest, may hold the lines in which a second leg
would be seen, and so may the fee of the mode that is not chosen, which signing does not
read and which may hold a unit separator. `Delimited` names these three, and
`CommitmentBinds` is about intents without them. All other fields of a leg that signs were
read as a number or as bytes, and have no mark in them. Forms count as different texts
where they are (a `dec` and a `bare` numeral would be one text, but no field takes both).

`HdPath`. A text is the sequence of what stands between its slashes: `m`, a number with or
without a mark, or something else. `ParsesPath` and `ParsesPrefix` say which are accepted,
`Display` what is written, and `SignerAt` which child indices are derived, with the u32 of
`harden_index`.

`Kdf`. `Allowed` is the check, on 64-bit numbers that saturate; `Bounded` is what it is
for, in exact arithmetic: for scrypt the memory and the passes over it, for pbkdf2 the
rounds. `TakesKdf` is the import of a document; a staged vault and a wallet's key are asked
the same question. `signer_for` opens an account's own vault without asking it, so the
property says nothing of a vault that another hand put at `<address>.json`.

Left out: a `data` that is not ASCII, whose shortening slices bytes; the prefixes `0o` and
`0b` that a 256-bit number may have; the purpose line of a bundle, which is shown and not
committed to; the second fee of EIP-1559, which is treated as the first is; base-58,
curve, hash and encoding arithmetic.

### Layout and Directory

`Vaults` and `Groups` know only the files the keystore writes. `Directory` is about
everything else that may stand in `<ks>/`: `tree` maps each path to a node, which is a
file, a directory, a link or something else, may not be readable (`open`), and may hold
the key of an account or of a wallet (`holds`). A vault may also declare an address that
is not its name (`disputes`). A path is a sequence of names, and a name is kept as what
it says: the vault of an account, a derivation key, a stage, or something of no meaning
to the layout.

A link holds what is behind it: `Planted` lets one lead to any key. `look` opens files
only, so a link that leads to a wallet's key is reported as unexplained, and as a possible
key for its name or its place alone; `WorstCaseAssumed` asks the latter of files and the
former of links, whose target `layout.rs` says is outside the scan.

`Layout` has the operators of `layout.rs`: the path of each `Slot`, `classify`
(`Explained`), the walk (`Seen`: links are not followed, and nothing is entered that
cannot be read or is as deep as the layout goes), `look` and `could_be_key`, and the
lists of a `Scan`. `Directory` has the operations:

| action | code | what it covers |
|---|---|---|
| `Plant`, `Shut` | surroundings | another hand puts a node anywhere there is room, or makes a directory unreadable |
| `Leaves` | the writers of `keystore.rs` | what a write leaves at its path, or, killed, in its stage |
| `Settle` | `settle`, and the listings that run it | repair of staged vaults, sweep of scratch |
| `Look`, `RemoveUnexplained` | `remove_unexplained` | the check against a scan, then the removal under the lock and the listing of its event |
| `Delete` | `delete_account`, `use_vault` | settle if nothing is there, open, remove, and the listing of its event |

`remove_dir_all` may fail half way when a directory below cannot be read; `Cleared` is
every tree that it can then leave. `remove_unexplained` is two actions because its scan
is taken before the lock, so that the path can be another thing by then; the rest of it,
and `settle`, are one, since their own steps with kills between them are in `Vaults`.

`call` holds what the scan saw at the path, and `foreign` the paths that were not the
keystore's doing; both are history but for the path itself. `MaxEvents` bounds `Plant`,
`Shut` and `Leaves` in the guard of `Event`; settling and removing are not bounded.

Left out: a root that cannot be read, where the scan refuses; files over 64 KiB, which
`look` does not open; names that are not UTF-8; another hand that removes or overwrites;
failures of the lock and of `rename`, which `Vaults` has; and the `acknowledge` flag,
which is a precondition of the call.

## The runs

| run | instance | shows |
|---|---|---|
| `approvals` | two approver modules besides the host and a derived caller, two requesters, two handles, two contents, `RequesterCap` 1, `TotalCap` 2, configurations that name both approvers, nobody, and a malformed one | `TypeOK`; `OnlyTheScreenIsRendered`; `CapsHold`; `SignsWhatIsOnScreen`; `SignaturesSurvive`; `AnswerIsKept`; `KeepsPromise` |
| `approvals_live` | one approver that may lose its role for good, one requester, two handles, `TotalCap` 1 | `OfferIsAnswered`, `OutcomeIsForgotten`, under fairness (see below) |
| `approvals_claimed_expires` | two handles | finds the claimed request that expires (see Findings) |
| `vaults_alone` | one process, every method, one account, two passwords, two mishaps | `WholeVaults`; `QuietTold`; `RowsFollow`; `SettleCleans`; `KeepsPromise` |
| `vaults_peers` | two processes, the three methods that change a vault, on an empty directory or one in which an earlier import was killed; no mishap of their own | `QuietTold`; `QuietClean`; `CallsEnd` |
| `vaults_deleted_returns` | one process, one mishap | finds the deleted account that comes back (see Findings) |
| `vaults_peers_torn` | two processes, one mishap | finds the half-written vault (see Findings) |
| `documents` | two processes, one document, two marks, two mishaps | `Exclusive`; `WholeDocuments`; `AcceptedIsCommitted`; `DamagedIsKept`; `KeepsPromise`; `UpdatesEnd` under fairness |
| `groups_alone` | one process, two ids of one phrase, two indices, a walk of two, one mishap | `TypeOK`; `FreshIndex`; `NeverOverwrites`; `KeyHasRecord`; `AccountsListed`; `RolledBack`; `NamesArePaid` |
| `groups_index_reused` | one process, one id, one mishap | finds the index that is handed out again (see Findings) |
| `directory` | one account, one wallet, one import, every path of the layout and some beside them, two processes, two events | `NothingHidden`; `WorstCaseAssumed`; `OwnWritesExplained`; `AccountsSpared`; `StagedKept`; `NoDeadEnd` |
| `inputs` | intents, texts, paths and documents that are good or differ from a good one in a place or two | `ScreenMeansPayload`; `CommitmentBinds`; `PathsNameTheirKey`; `WorkIsBounded` |

Bounds of the approval runs. `OfferTTL` and `Retention` are 1: the clocks then take
every value that matters (before, at and past the deadline; unstamped, stamped and over).
Two handles are enough for one request to displace another, and, with a cap of one for
each requester, for one requester to be refused while the other is admitted. The total
cap is reached in the liveness run, where it is 1, so that an unanswered offer blocks the
next; `CapsBound` proves it for every cap. Symmetry over handles, contents and the two
requesters is used in `approvals` only, whose configurations name none of them and whose
properties quantify over all. All bounds are constants of the configuration files, none is
in a guard.

Bounds of the vault runs. One account: the code of one address shares nothing with
that of another but the lock and the scan's list, and `VaultsAloneProofs` covers
any number. Two passwords: what was there and what replaces it. Two mishaps: a
kill leaves a stage and a second one interrupts its repair, or a write fails whose
cleanup fails as well. Three scratch names: one for each mishap to leave behind and
one more to use. Two processes run without mishaps, which is what their own
properties are about; one mishap with two processes is the violation. They start on an
empty directory or, their one mishap spent, with the stage of a killed import
(`AfterAKill`), which they delete and re-encrypt and do not import again: that is where
both settle at once and one finds the lock held. What holds of two
processes through mishaps (`ToldOrTorn`) has 8.5 million states with one mishap and three
methods; it is proved, for any number of both, instead of run.

Bounds of the document runs. Two processes are enough for one to read what the
other is about to replace. Two marks, because with one a lost update cannot be told
from the updates in another order. Two mishaps: a barrier that fails and then the
power cut that shows it. One document, as the lock is for all of them and the proofs
cover any number.

Bounds of the group runs. Two ids of one phrase, so that an address of one wallet may
be held through the other; wallets of different phrases share nothing. Two indices:
one to be taken and one to go on to, and `MaxIndex`, which stands for 2^31 - 1, is
reached and refused. A walk of two (`MAX_INDEX_SCAN` is 100) can pass one index,
pass both, or run out. One mishap, which falls between any two steps of any call;
the calls after it see what it left. Imports ask for a name, since a blank one only
removes what an unused id does not have; `set_group_label` asks for both. `MaxRenaming`
is 2: where wallets are named after their import there are two and no mishap, or one and
one mishap, which leaves an import half done. Ids are symmetric: no property names one.

Bounds of the inputs run. The widths U64, U128 and U256 are 2, 3 and 4, so that there is a
number on each side of each. `Hardened` is 3, which is above the purpose and the coin type,
as it is in the code. The KDF limits are small and keep their order: a product can be at
the memory bound, past it, and past `Top`, where it saturates. Around one transfer, each
field takes every form and number; texts differ from a path in up to two segments, in one
more or in any number fewer; requests have up to two legs, and texts of several lines, with
a second leg in them. `CommitmentBinds` compares each with every other. Its mutant leaves
one fee out of the encoding.

Bounds of the directory run. Two events: each of the properties relates two nodes, one
above or instead of the other (a directory shut above a key, a directory where the vault
of a stage belongs, a vault that comes to a path reported before), and the directories
above a node come with it. Two processes, so that one acts on a report the other made
stale. Besides the layout's own paths there is a foreign file in a stage and in
`groups/`, a derivation key in a foreign directory, and a chain of four, one deeper than
the scan goes. One account and one wallet: no rule of the scan relates two of either.

In the approval runs `CHECK_DEADLOCK FALSE` is not about deadlock: handles are finite, so a behaviour
can mint no more of them, while reads and ticks still step in place.

Every property has a mutant of the code it depends on (a dropped comparison, an
off-by-one, a stamp taken at the wrong moment) that TLC must find; the mutated
operators stand beside the originals.

### Fairness

`Fairness` assumes that time passes (`Tick`) and that a requester holding the
receipt of a request that is still open keeps polling (`Polls`, weak fairness per
requester), as the requester protocol of `docs/specs.md` has it do. `Polls` is enabled
while such a request is offered or rendered; a poll that was answered with an outcome is
not followed by another. Nothing is assumed of approvers, of the human, or of
configuration, and none of the module's own operations is fair: it has no thread of its
own. `OfferIsAnswered` holds under this, requests whose receipt is lost excepted.

`OutcomeIsForgotten` needs more, because an outcome is dropped by a call that comes after
the one that told it, and the code guarantees no such call. It is stated as what follows
if the module stays in use: `StaysInUse`, that somebody reads again and again, is a
condition in the property and no part of `Fairness`. Under it a request leaves the ledger
also when the reply to it was lost and nobody can ask for it. Excepted are a request an
approver has on screen, and one that holds signatures, which the code keeps without limit.

`Vaults` has no fairness. `CallsEnd` says, step by step, that every call ends as long as
its process goes on running it: a call under way is never stuck while a peer moves (one of
its own steps is enabled), and every step of its own leaves it fewer to its answer
(`NearsItsAnswer`, with the measure `StepsLeft`), whatever the peer did to the lock, to
the stage and to the vault meanwhile. So no assumption on who gets the lock is needed, nor
a bound on how often the peer comes back. The mutant settles again for as long as the
vault is missing.

`FairSpec` of `Documents` assumes that a process which began an update goes on running it:
`Proceed(p)` is one thread. It is enabled at every step of an update, also while a peer holds the lock, because the
wait for it ends at a deadline (`LOCK_WAIT`). Nothing is assumed about who gets the
lock. The mutant of `UpdatesEnd` blocks instead, and then a process can be passed
over for ever.

## What is proved

`ApprovalsProofs` proves for every set of handles, names, callers, contents and
documents, every TTL, every positive retention and all caps
(`GateAssumption`, `ApprovalsAssumption`):

| theorem | property |
|---|---|
| `TypeCorrect` | `TypeOK` always holds |
| `ScreenSafe` | `OnlyTheScreenIsRendered` always holds |
| `LedgerSound` | `LedgerInv` always holds |
| `AnswersKept`, `SignaturesKept`, `SignsOnScreen` | the three action properties |
| `CapsBound` | `CapsHold` always holds |
| `Implements` | `Spec => KeepsPromise`, the refinement |

The inductive invariant is `Inv`, the conjunction of `TypeOK`, `LedgerInv` and
`OnlyTheScreenIsRendered`. `LedgerInv` is what the other two lack: signatures
only on approved records (otherwise a sweep could not be shown to keep them),
stamps only on settled records (otherwise a live record could be dropped), known
handles minted (otherwise a fresh handle could overwrite a request), and
finitely many of them (for the caps).

The argument has one case split. `SweepFacts` says what a sweep does to one
record. `NextLawful` says what any step does to one record (`Lawful`), with one
case per action. Every theorem then follows from `Lawful` without looking at the
actions again. `CapsBound` also needs that only `RequestApproval` mints
(`MintedStep`), and two facts about finite cardinalities.

`VaultsProofs` and `VaultsAloneProofs` prove for every finite set of addresses, every set of
passwords and scratch names and any bound on mishaps (`VaultsAssumption`, `FileAssumption`):

| theorem | for | property |
|---|---|---|
| `TypeCorrect` | any set of processes | `TypeOK` always holds |
| `NothingOlderComesBack` | any set of processes | `ToldOrTorn` always holds |
| `NothingIsLeftBehind` | any set of processes | `QuietClean` always holds |
| `OnlyMishapsTear` | any set of processes | `QuietTold`, `NoTornVault` and `DeletedStaysDeleted` hold until the first mishap |
| `CallsComeNearer` | any set of processes | `NearsItsAnswer` of every process holds of every step |
| `VaultsWhole` | one process | `WholeVaults` always holds |
| `OutcomesStand` | one process | `QuietTold` always holds |
| `RowsFollowVaults` | one process | `RowsFollow` always holds |
| `SettleClears` | one process | `SettleCleans` always holds |
| `VaultsImplement` | one process | `Spec => KeepsPromise`, the refinement of `AccountStore` |

`TypeOK` is not inductive by itself, because a step follows from what the one before
it knew: `Shaped` says what the step a call is at implies of its method and of the
result it carries, and `Typed` is their conjunction. There is one lemma per action.

`ToldInv` is what is true of outcomes with any number of processes, kills and failures.
What a call that runs may do is allowed for (`CallsTold`), by each call beside it as well
(`OverlapsKnown`); a file in a stage is half written, or what a cut write left, or what a
call that has yet to move it brought (`StageOwned`); so whatever a rename moves is something
that `told`, `cut` or a call under way accounts for (`Backed`), and once a call took effect
only those beside it can take its effect away (`TakenTold`). `ToldOrTorn` follows, which is
`QuietTold` but for a half-written vault, and a half-written vault is exactly what two
processes and a kill can leave. `CleanInv` is what holds until the first mishap: half a file
has a writer at it (`Halves`, `Handles`), a stage has a write that is at it
(`StagesOwned`), a scratch directory an import (`ScratchOwned`), and nothing was cut
(`Uncut`). With `LockHeld`, that the lock is held in the repairs of a settle alone, it gives
`NothingIsLeftBehind`, and with `ToldInv` that the two violations of `Vaults` need a mishap.

`CallsComeNearer` is the half of `CallsEnd` that is not `ENABLED`. `EndInv` is what the
measure `StepsLeft` needs of the state: the stage a settle is repairing is one it has yet to
leave behind, and a settle that goes back to look for a vault was the one that `use_vault`
allows (`OnItsWay`). Nothing in it speaks of a file or of the lock, and so no peer can
falsify it.

`AloneInv` adds the files, for a process with no peer: vaults are whole and closed,
the only open stage is that of the call at `write` (`FilesShut`), the stage is as
the write left it one step before (`StageIs`), what settle checked still stands when
it renames (`RepairStands`), and the password that was presented still opens the
account when the write or the removal takes effect (`StillOpens`). Each conjunct is
a thing that a peer can falsify, and the two findings about peers are behaviours
that do so. `OutcomesStand` is `ToldInv` with the half-written vault excluded by
`WholeVaults`.

`RowInv` ties rows to files: a file in a stage is that of the write in progress or belongs
to an account a cut call left apart (`LeftTroubled`), for otherwise settle could bring a
vault without a row; a write that took effect has its vault and nothing in its stage
(`StoredAway`); a row is missing or left over only while its call still owes it
(`RowsAgree`, `Owed`). `TidyInv` follows a settle through a call in which nothing went
wrong: until a leftover is removed it is on the settle's list, which peers would break at
once, since they leave new ones behind the scan.

The refinement follows in two layers. Lemmas such as `PublishStep` and `RecoverStep`
say which change of (`Acct`, `Draft`, `Doing`) is which step of `AccountStore`.
`StaysShown`, `TakesShown` and `ResolvesShown` say what a step of a call does to
`Doing`. Each action then has to show only its change of a file and of its place in
the call.

`DocumentsProofs` proves for every set of processes, documents and marks and any
bound on mishaps (`DocumentsAssumption`, `FileAssumption`):

| theorem | property |
|---|---|
| `Sound` | `Inv` always holds |
| `TypeCorrect` | `TypeOK` always holds |
| `MutualExclusion` | `Exclusive` always holds |
| `DocumentsWhole` | `WholeDocuments` always holds |
| `AcceptedCommitted` | `AcceptedIsCommitted` always holds |
| `DamagedKept` | `DamagedIsKept` |
| `UpdatesAtomic` | `Spec => KeepsPromise`, the refinement of `DocumentPromise` |

`Inv` strengthens the safety properties with three things. `Owned`: whoever is
between reading and releasing holds the lock, from which `Exclusive` follows. `Good`:
until its rename, an update still sees at the path what it read, and its staged file
is the change of that; without it the rename could not be shown to act on the value
of its own moment. `Stored`: everything at a path or in a power cut's reach is whole
and synced, and a damaged document has nothing else in reach. All steps but the
rename and the power cut are instances of one lemma, `PrivateStep`, which says that
a step that replaces no document keeps `Inv` when it leaves its own call `Good`.

`GroupsProofs` proves `TypeCorrect`, that `TypeOK` always holds, for every set of
processes, ids and phrases, every last index and walk, and any bound on mishaps
(`GroupsAssumption`). The types are not inductive by themselves: a derivation stays
among the indices only because the walk tests its index before it goes on, and counts
its walk below `MaxScan`. `Formed` says what the step a call is at implies of its
method, its index, its walk and its wallet, and `Typed` adds it for every call. It
speaks of no document a peer may change, which is why it holds for any number of
processes: a record that goes while a call is under way changes nothing in it. There is
one lemma per group of actions, and `GoKeeps` and `EndsKeeps` for the steps that only
move their call.

Two more theorems of `GroupsProofs` say what is left of the wallets when any number of
processes share the directory, where `FreshIndex` and most others fail:

| theorem | property |
|---|---|
| `OriginsTrue` | `RowsTellTrue` always holds: a row names the wallet and the index that derive its address |
| `BookedStaysBooked` | `Spec => ReuseTakesOverlap`: `derive_next_account` hands out an index again only where two calls overlap, or the first ended before its account was booked |

`ReuseTakesOverlap` has three parts. A `derive_next_account` that looks at its wallet takes
an index past every account booked by then (`LooksPast`); from that look to the write of
the vault the index only goes up (`GoesUp`); and a wallet's next index never falls, nor
does a wallet with an account get a second record that counts from zero (`CacheKept`).
Together: a call that begins after an account was booked never gets its index, and the
hazard at `keystore.rs:1655` needs two calls between look and write at once. (A caller of
`derive_account_at` names the index itself, and may name one that a delete has freed.)

The invariant is `Shared`. `Behind` is the heart of it: an account whose call has booked it
is behind the next index of its wallet, if the wallet is still there; unlike `Booked` of
the single process it asks every process whether it has yet to book. What could break it
is a record written anew, so `Fresh` says that until an import has written its record
nothing of that wallet was given and no peer is past its look at it, and `Unheard` that an
id nobody minted has neither. `Aimed` ties a call's address to its wallet and index, for
`RowsTellTrue`. `StepShares` does the work once for any step that changes a record only
upwards or away; each action then shows that it is one, and the import's record, the one
that is not, has its own lemma. No run checks the two properties: TLC found no violation
in the first four million states of two processes on one wallet, and that instance does
not end in reasonable time.

`GroupsAloneProofs` proves every property of `Groups` for one process alone on its
directory (`Procs = {p}`), under the same assumption:

| theorem | property |
|---|---|
| `AloneSound` | `Alone(p)` always holds |
| `IndicesFresh` | `FreshIndex` always holds |
| `OverwritesNothing` | `NeverOverwrites` |
| `KeysRecorded` | `KeyHasRecord` always holds |
| `AccountsNamed` | `AccountsListed` always holds |
| `ImportsUndone` | `RolledBack` always holds |
| `NamesPaid` | `NamesArePaid` always holds |

`Alone` is `World`, which speaks of the wallets, and `Knows`, which speaks of the call.
`World` adds to the properties that an id nobody minted is known nowhere (`NewIds`), or
an import could begin on top of something, and that an account's index is behind the next
one of its wallet unless its call ended early or has yet to book it (`Booked`), from which
`FreshIndex` follows. `Knows` says what a step still relies on of what an earlier one saw:
that an import's record stands and its only account may be in its row (`ImportKnows`); how
far a rollback has come, and that what it missed cost a second mishap (`UndoKnows`,
`AnswerKnows`); that what a derivation read is still so when it persists (`DeriveKnows`);
and that what a removal or a naming did not find is still not there (`LookKnows`). As with
the vaults, each of these is a thing that a peer can falsify. Lemmas treat the steps that
only read, that only take away, or that write a record or a row; the rest have one each.

`DirectoryProofs` proves all of `Directory`, for every set of accounts, wallets, imports
and processes, every set of paths that is closed under prefixes, and any number of events
(`LayoutAssumption`, `DirectoryAssumption`):

| theorem | property |
|---|---|
| `AlwaysInv` | `Inv` always holds |
| `TypeCorrect` | `TypeOK` always holds |
| `HidesNothing` | `NothingHidden` always holds |
| `AssumesWorst` | `WorstCaseAssumed` always holds |
| `ExplainsOwn` | `OwnWritesExplained` always holds |
| `SparesAccounts`, `KeepsStaged`, `NoEnd` | the three action properties |

`Inv` is stated node by node. `Sound`: every node has its directory above it, and what is
inside a link or a file is nothing. `KeyReached`: a wallet's key is in a file or behind a link. `Traced`: a node that
was not planted by another hand is one that a write of the keystore leaves, at its own
path. A report that was made of a path was made of something that is not a vault
(`NotAVault`). The steps reduce to three changes of a tree, one node more, one node fewer
with what is below it, and one stage that becomes a vault; `settle` is any number of the
last two. Lemmas say what each keeps, and the properties follow from the classification of
what is left. `NoEnd` needs that the walk stops at the depth of the layout
(`UnseenIsBelow`): a node that a scan does not see is below one that it does.

`InputsProofs` proves for every set of requests, texts and documents and all widths and
limits (`IntentsAssumption`, `HdPathAssumption`, `KdfAssumption`):

| theorem | property |
|---|---|
| `InputsSound` | what a call was given is of its kind |
| `ScreenTrue` | `ScreenMeansPayload` always holds |
| `OneCommitmentOneSigning` | `CommitmentBinds` always holds |
| `PathsAgree` | `PathsNameTheirKey` always holds |
| `WorkBounded` | `WorkIsBounded` always holds |

`ScreenTrue` goes through the forms of a field: each line that is rendered says the number
or the bytes that parsing takes. `OneCommitmentOneSigning` holds for any number of legs. The
code of a leg is a list of parts, each of which ends in the first mark of its kind
(`LegMarked`, from `Delimited` and from what signing read), so that of two codes one of
which begins the other the parts are the same (`UpToTheMark`, `SameParts`). Hence no code
begins another (`CodesPrefixFree`), and codes written one after another are told apart
(`SameChain`); what a code leaves out of a field, a prefix or a case, parsing leaves out too
(`SameNumber`, `SameDigest`), since a field that was read is a numeral (`ReadIsNumeral`).
The induction over the legs
is over a set of numbers in place of a formula (`Counting`, from the well-foundedness of
`<`), as the library's induction theorems cannot be instantiated. `PathsAgree` goes through the levels of a text, and
`WorkBounded` shows that no product that passed the check has saturated, and for pbkdf2 that
a key of one block takes the rounds that were bounded.

Only model-checked: the three liveness properties (`OfferIsAnswered`,
`OutcomeIsForgotten`, `UpdatesEnd`) and the half of `CallsEnd` that says that no call is
stuck, as liveness under fairness and `ENABLED` are beyond the proof system; and the
violations, which are about one behaviour each. Every other property of a passing run is
proved for every value of the constants, those of `vaults_alone` and `groups_alone` for one
process, as they are checked. `TypeOK` of `Vaults` (with two processes),
`Documents` and `Directory` is proved and in no run of its own.

## Findings

- A request that was claimed expires as if nobody had come
  (`approvals_claimed_expires`). `acknowledge` puts the request it displaces back
  to `Offered` with its original `offered_at`, so the next sweep past the TTL
  settles it `expired_no_ack`. The sweep's comment speaks of records "nobody ever
  came for" and the specification of "no timeout on the human" once rendered. The
  same demotion happens when the acknowledge is then refused because its request
  is already settled: nothing is rendered any more, and the displayed request's
  clock runs.
- The sweep never demotes a stale `Rendered` record, although its comment and
  `docs/specs.md` say so.
- A second `approve` is refused with a bare error, although `docs/specs.md` says
  it returns the recorded outcome. It never signs again, which `KeepsPromise`
  shows.

- A deleted account comes back (`vaults_deleted_returns`). A write of an address
  killed between its staged file and its rename leaves the stage beside the live
  vault. `delete_account` removes the vault; the listing its own event computes
  settles, finds a readable stage and no vault, and promotes it. The account is back
  under the password of the interrupted write before the delete is answered.
  `atomic.rs:86` calls a deleted vault that comes back worse than a lost write.
  `QuietTold` holds with such leftovers excepted, so this is the only way back, and
  `OnlyMishapsTear` proves that without a kill or a failure there is none, with any number
  of processes.
- Two processes and one kill leave a vault half written (`vaults_peers_torn`). Both
  write `.stage-<address>/` and no lock covers it, so a rename can move the file
  the other has just created. `atomic.rs:1` promises writes that cannot leave a
  half-written file behind. `OnlyMishapsTear` proves that it takes the kill, or a failing
  call, however many processes there are.
- `settle` removes a stage even when the rename out of it failed, and then it was
  the only copy. The comment of `settle` and `docs/specs.md:457` say that what could
  not be repaired is reported as left.

Two processes on one address have further outcomes that no line of the repository
rules out, and that `told` therefore allows: a write whose stage a peer removed is
refused although its vault had landed, and a delete and an import that overlap may
leave a row without a vault or a vault without a row, because the row is written
after the vault and under the lock alone. This is why `RowsFollow`, `SettleCleans`
and `KeepsPromise` are stated for one process.

- A deleted account's index is handed out again (`groups_index_reused`). A kill
  between an account's vault and its row leaves a vault without provenance.
  `delete_account` removes it, `retire` finds no row and returns, and nothing knows
  of the index. The comment of `retire` and `docs/specs.md:702` promise otherwise.
  `FreshIndex` shows that this is the only way to it: every index whose call was not
  cut short is safe, through deletes, kills and failing updates.
- `derive_account_at` never looks at the retired indices, nor does any other code
  but the listing, so a caller that names one gets it. `docs/specs.md:702` again.
- `remove_group` is not safe against a peer. Its comment argues that a wallet without
  a key gains no account, but a plain import of another process has no key between
  its record and its account, and a derivation that opened its key before it was
  forgotten goes on without it. TLC finds `AccountsListed` violated with two
  processes and no mishap. The same instance violates `NeverOverwrites`: two
  derivations at once choose one index, and the second replaces the first's vault.

- A vault that declares another address is listed under `unexplained` and cannot be
  removed: `remove_unexplained` asks the scan, to which it is a vault, and
  `account_report` adds it afterwards. `docs/specs.md:467` and a test's comment say the
  removal reaches it. The mutant of `AccountsSpared` shows what is at stake in making it
  so: such a vault may well open.
- The same vault is not listed, and `has_address` denies it, but it signs, because
  `held_vault` does not look at what it declares. `docs/specs.md:1589` and the test at
  `keystore.rs:4388` say that what is not listed is not signable.
- `settle` removes the only copy of a key when a directory, a socket or a link that leads
  somewhere stands at the account's path: `exists` is then true although there is no
  vault. `StagedKept` holds with this excepted.
- An unreadable directory deeper than the scan goes makes the reported directory above
  it irremovable, although `remove_path` is there to prevent a "dead end".
  `NoDeadEnd` holds with this excepted.

- Neither fee is rendered: `render_tx` shows chain, recipient, value, nonce, gas and data
  (`approval.rs:525`), and what an approver signs includes a fee it was never shown.
  `ScreenMeansPayload` excepts the fees; the commitment covers them.
- A `data` that starts with `0X` is shown as `0x0X...` (`approval.rs:538`), because only the
  lower-case prefix is taken off, while signing accepts either. `ScreenMeansPayload` excepts
  this form.
- A purpose or a message with a character that cannot be shown is refused
  (`approval.rs:253`), and the other texts of an intent are not checked for any;
  `docs/specs.md:1389` says that such characters are escaped.
- `import_private_key` is refused, and announces nothing, although its vault has landed,
  when the row after it cannot be written (`keystore.rs:303`). `docs/specs.md:1454` says
  that a refusal changed nothing.
- Two processes may name a wallet for free that the other is filling
  (`keystore.rs:1258`): what it holds is looked up before the name is written, and nothing
  holds the two together. `NamesArePaid` is for one process.

What the properties except is what they do not show. `AccountsSpared` excepts the vault
that came to a path after the scan, and `StagedKept` a stage whose account's path is
occupied, while the rename that fails is not in `Directory`; `AccountsListed` is about one
process, and the race of `remove_group` with a peer is not caught by it but is the finding
above; `DamagedIsKept` is about a document that is damaged from the start; and
`SignsWhatIsOnScreen` about a module that is an approver at the moment it signs.
`CommitmentBinds` excepts three kinds of intents: a message of several lines, a digest
whose purpose has several, and a transaction with a unit separator in the fee it does not
use. Their commitment is that of a text which other intents may have as well.

Three more outcomes in `Directory` contradict no line of the repository. A vault that
comes to a path after it was reported as something else is removed with the report
(`AccountsSpared` excepts it): the scan precedes the lock. `settle` removes a stage with
whatever else another hand has put into it, unacknowledged. And a link inside a stage is
promoted as if it were the vault, and is then reported as unexplained.

## The plan

What is left, the most important first:

1. `set_label`, the name of an account, which takes the same proof as that of a wallet.
2. More of what remains true of `Groups` with several processes, as `BookedStaysBooked`
   says it of the indices: what a removal that overlaps an import or a derivation can leave.

`Gate`, `Approvals`, `Vaults`, `Documents`, `Groups`, `Directory` and `Inputs` with their
abstract specifications are complete but for what their sections leave out.

Not planned: the curve, hash and cipher arithmetic of the libraries, transaction
encoding, and the acknowledgement token of `ack.rs`, whose whole content is
that a constructor is private.
