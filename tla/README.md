# Program Metadata, specified in TLA+

Solana's Program Metadata program stores documents about programs (an IDL, a
security contact, a logo...) in accounts at addresses derived from the program
they describe. This directory holds a model of the on-chain program
(`src/program`), of the Rust client's side of the wire and its readers
(`src/clients/rust`), and of the JavaScript client's upload plans and reader
(`src/clients/js/src`), checked with TLC on small instances and, for the
properties that matter most, proved with TLAPS for every value of the constants.

## The system

| Component | State it keeps | Operations | Talks to |
|---|---|---|---|
| On-chain instructions (`src/program/src/processor`) | none of its own: the accounts it owns | Allocate, Initialize, Write, SetAuthority, SetData, SetImmutable, Extend, Trim, Close | system program (CPI), the loader's accounts (reads), the runtime |
| Account layouts (`src/program/src/state`) | Header or Buffer (96 bytes each), then data | read, write in place | the instructions |
| Loader and runtime (external) | program and program data accounts; balances | deploy, set upgrade authority, close; transfer, create account; rent and size checks | |
| JS instruction plans (`src/clients/js/src/*.ts`) | the plan while it is sent | createMetadata, updateMetadata, writeMetadata, createBuffer, updateBuffer: read accounts, decide, send | the program, over several transactions |
| JS reading (`packData.ts`, `fetchMetadataContent.ts`) | what the first request answered | fetch metadata, fetch the accounts it refers to, slice | RPC |
| JS packing, codecs | none | pack, compress, encode | |
| JS plugin and CLI | none | commands, options, export | the plans |
| Generated Rust client and hooked serializers | none | build an instruction, invoke it, decode and fetch accounts | the program, the runtime, RPC |
| Generated JS client | none | encode, decode | |

Two kinds of accounts belong to the program. A *buffer* holds data on its way
in; it is at a keypair's address or at a program-derived address (PDA).
*Metadata* is at a PDA only: `[program, seed]` when it is *canonical*, made by
whoever speaks for the program, `[program, authority, seed]` when a third party
made it. Initialize turns a vacant PDA or a PDA buffer into metadata.

Who may do what is the difficult part. An account records an authority, which
can be handed over; a canonical account also obeys the program's upgrade
authority, which is state of another program (the loader) and can change, be
dropped, or disappear with the program between any two transactions. Metadata
may be made immutable for good. The program itself runs one instruction at a
time; what interleaves are transactions of different signers.

The other difficult part is that an upload is not one transaction. The client
looks at the accounts once, decides what to send, and sends it in as many
transactions as it takes, some of them in parallel. In between other clients
run, or the client is killed; there is no lock and no record of the plan. A
reader has the same problem: it asks twice.

What makes each component correct:

* instructions: only the right signer changes an account, at every moment of its
  life and through every handover; immutable metadata stays as it is; canonical
  metadata is only ever made by the key that speaks for the program then, and
  third-party metadata by the key in the address; nothing is left without an
  authority where none stands in, and nobody keeps the upgrade authority of the
  moment out of its program's addresses.
* layouts: metadata is where its header says; the data it declares is there,
  whatever Write, SetData, Extend and Trim did, at every size limit; an account
  with a header is long enough for the header.
* JS plans: an upload that completes publishes exactly the data, in whatever
  order its parallel writes land; what readers see is never a mixture of two
  uploads; nobody pays for more than is kept; one that fails half way can be
  cleaned up and repeated.
* reading: each external reference gets the range of the account it names; what
  the program wrote can be decoded.
* Rust client: the program does what was asked of the client or refuses it, and
  refuses nothing that gives the accounts and the data it needs.

The places in the code where these can go wrong are the `hazards` of
PROJECT.json, each at its line.

## Modules

| Module | Models | Extends |
|---|---|---|
| `Accounts` | addresses, contents of an account, reading, resizing, overwriting; no state | |
| `ProgramMetadata` | the program: one action per instruction; system program and loader | `Accounts` |
| `ProgramMetadataProperties` | what should hold of it | `ProgramMetadata` |
| `MetadataRegistry` | abstract specification: what the program promises its users | |
| `ProgramMetadataRefinement` | the mapping under which the program implements it | `ProgramMetadataProperties` |
| `Instructions` | the Rust client's instructions: account metas and data, for each of the nine its plain form, builder, CPI and CPI builder | |
| `Entrypoint` | how the program takes an instruction apart: dispatch, places of accounts, optional ones, privileges | `ProgramMetadata`, `Instructions` |
| `RustClient` | users of the Rust client: requests, sent or invoked, beside other clients | `Entrypoint` |
| `RustClientProperties` | that the two sides of the wire agree | `RustClient` |
| `Reading` | the crate's own types and the Rust client's decoders and fetchers | `ProgramMetadata` |
| `ClientPlans` | JS clients: look, decide, send, be refused or killed | `ProgramMetadata` |
| `ClientPlanProperties` | what uploads promise users and readers | `ClientPlans` |
| `UploadInvariant` | the inductive invariant of racing uploads, and the scenes they start from | `ClientPlanProperties`, `ProgramMetadataProperties` |
| `AtomicUploads` | abstract specification: what a client promises the user who asks for an upload | |
| `UploadRefinement` | the mapping under which the plans implement it, and why they do | `UploadInvariant` |
| `UploadRent` | the inductive invariant of who pays what, and the scenes it starts from | `UploadRefinement` |
| `Fetching` | the JS reader and its two requests, with its properties | `ProgramMetadata` |
| `MC...` | instances for TLC | |
| `DocClaims`, and parts of `MCRustClient`, `MCClientPlans`, `Reading`, `Fetching` | what comments and tests say and the code does not do | |
| `...Proofs` | the theorems | |

`ProgramMetadata` is composed with what is around it by extension: its actions
are used as they are, `ClientPlans` runs them one after the other as a plan
says, `RustClient` reaches them through the wire, and `Fetching` lets them run
on between two requests.

`ProgramMetadata` has the variables `acct` (what each address holds), `prog`
(what the loader says of each program) and `signer` (who signed the last
transaction, a history variable that no action reads). `RustClient` adds
`served`, the request the last step served (history); `ClientPlans` adds `job`,
each client's input and what remains of its plan, and `open`, the accounts and
the plan as they were before the transaction that is running; `Fetching` adds `read`.

An account's data is split into `head`, the number of header bytes present (a
buffer and a metadata header have the same size), and `body`, the bytes behind
them. The header's fields are fields of the record, so the overlay of `Buffer`
and `Header` appears as what Initialize overwrites and what it leaves. The
96 bytes, the 40 bytes of `ExternalData`, the 10,240 bytes an instruction may
add and the 10 MiB an account may hold are the constants HeaderLen, ExternalLen,
ReallocLimit and MaxLen. Codec, a triple of encoding, compression and format, is
one model value: the program checks that each byte is legal and stores it.

One step is one transaction with one instruction. A handler that returns an
error leaves no trace, because the runtime rolls the transaction back: so every
early return is a guard and only successful outcomes are steps.

| Code | Model |
|---|---|
| `is_program_authority` | `IsProgramAuthority`: the set of its Ok outcomes; empty is Err. `supplied` is whether the program data account is passed |
| `validate_metadata`, `validate_authority` | `ValidMetadata`, `ValidAuthority` |
| `allocate` | `AllocateKeypair`, `AllocatePda`: the handler derives no address when buffer = authority. `Claimable` and `Claimed` are its match on the length of the account |
| `initialize` | `Initialize`, header in `MetadataHeader` |
| `write` | `WriteData`, `WriteFromBuffer`, over `WriteBytes` |
| `set_authority` | `SetBufferAuthority`, `SetMetadataAuthority` |
| `set_data` | `SetCodec` (no data), `SetData`, `SetDataFromBuffer`, over `SetBytes` |
| `set_immutable`, `extend`, `trim`, `close` | `SetImmutable`, `Extend`, `Trim`, `Close`; the balances move in `PayOut` |
| `entrypoint.rs` | `ProcessInstruction` in `Entrypoint`; `Next` for users at large |
| `write.rs` and the other handlers' account lists | `HandleWrite`, ... in `Entrypoint` |
| `instructions/write.rs` and its siblings (Rust client) | `WriteInstruction`, `WriteBuilder`, `WriteCpi`, `WriteCpiBuilder`, ... |
| `remainder_options.rs`, optional address | `RemainderOptionBytes`, `RemainderOptionSeed`, `OptionAddress` |
| `Data::from_bytes`, `Metadata::from_bytes` | `DataOf`, `Read` in `Reading` |
| `accounts/buffer.rs`, `accounts/metadata.rs` (Rust client) | `DecodeBuffer`, `DecodeMetadata`, `FetchAll`, `FetchAllMaybe` |
| `createMetadata.ts`, `updateMetadata.ts` | `StartCreate`, `StartUpdate` choose, `Create...`, `Update...` are the plans |
| `writeMetadata.ts` | `StartWrite` |
| `createBuffer.ts`, `updateBuffer.ts`, the CLI's buffer commands | `CreateBuffer`, `CreatePdaBuffer`, `UpdateBuffer`; `StartCreateBuffer`, `StartUpdateBuffer`, `StartCloseBuffer` |
| `utils.ts` (extend and write plans) | `ExtendPlan`, `WritePlan` |
| `client.sendTransactions` (external) | `Step`, `Refuse` over `Fails`, `Crash` |
| `packData.ts`, `fetchMetadataContent.ts` | `FetchMetadata`, `Unpack` over `Unpacked`, `Filtered`, `FindIndex`, `Slice` |
| system program, loader (external) | `Transfer`, `SystemCreate`; `Deploy`, `SetUpgradeAuthority`, `CloseProgram` |
| runtime (external) | `Resizable` (realloc and size limits), `Commit` (rent), `PayOut` (conservation of lamports) |

`prog[p].kind` is what `program` and `program_data` can be: not a program; a
program of an older loader, for which its own keypair speaks (constant
ProgramKey: the programs whose keypair can still sign); owned by the upgradeable
loader but no program; live; closed. An address of the wrong program data
account is an error in the code and therefore not a case of its own; leaving it
out is (`supplied = FALSE`), and then the program's authority is treated as a
third party, in the code and in the model.

### The wire

An instruction is a record: who invokes it, a sequence of account metas, and the
data as fields with their presence. A builder yields the set of what it returns,
empty where it panics on a missing account. Accounts that are optional and left
out become the program's own id, as in the code; a handler finds its accounts by
place. The runtime's checks are `Signable`, `Changeable` (the accounts it
changes are named as writable), `SystemCallable` and, for a
cross-program invocation, `Invocable`. What was asked for is said a second time,
without places and placeholders, in `Asked`.

### Plans

A plan is a sequence of stages and a stage a set of instructions in any order:
the sequential and parallel plans of the code. `Begin` is the look at the
accounts and the decision, at one moment; `Step` is one instruction landing;
`Refuse` is one that fails, which stops the client, as `sendTransactions` does.
The planner packs instructions into transactions by size, so a transaction may
end after any of them; every ending is allowed. Only a plan that the code itself
found to fit in one transaction (`whole`) is atomic: its instructions are steps
as well, `open` keeps the accounts and the plan from before, nobody else moves
meanwhile, and `Refuse` puts the accounts back.

`Crash` is the end of the client's process between two transactions. What it had
sent has landed; a transaction that lands late is a crash that comes later.
Nothing is persisted, so there is no restart: what follows is another client
with another plan, which finds what the first has left. A user closes the
leftover only once no client is running.

A job's input is a record of options. Data and codecs stand for themselves.
`found` and `alone` are history: what was at the account when the client looked,
and whether no other client ran at the same time.

### Reading

What an account holds after the declared data, and the padding at the end of a
header, are there in the model because decoders see them: `BufferPadding` and
`MetadataPadding` are the constants of that layout. UTF-8 is abstracted to a set
`Letter` of bytes a text may hold. The crate reads an external reference in place
and refuses if it is not aligned: `ExternalAlign` is what it must be a multiple
of, and `Base` the set of places where the bytes of an account may begin, which
the reader gets as a parameter since it is not the program's to choose. In `Fetching` the bytes of an external
reference are decoded by `RecordOf`, a constant function into the address,
offset and length.

### The registry

`MetadataRegistry` knows no accounts, buffers, lengths, lamports or loaders. It
has entries at *slots*: an official slot for each program and seed, a
third-party slot for each program, party and seed. An entry has a content, a
keeper and may be frozen. Whoever speaks for a program publishes at its official
slots, a party at its own; the owner of an official slot and the keeper of an
entry may revise, delegate (official entries only), freeze and withdraw it. Who
speaks for a program changes by itself (`Succeed`), and no entry with it.

The mapping (`ProgramMetadataRefinement`): the slots in use are the PDAs that
hold metadata; the content of an entry is its codec, its data source and its
data *as long as the header declares*; its keeper is the recorded authority; the
speaker comes from what the loader says of the program. Allocate, Write, buffer
authorities, Extend, Trim, transfers and closed buffers do not show; Initialize
is Publish, SetData is Revise, SetAuthority on metadata is Delegate,
SetImmutable is Freeze, Close is Withdraw. The registry's steps name what may
change at one slot and say that no other entry does, so the refinement also
rules out any effect of an instruction on an entry it was not given.

### Atomic uploads

`AtomicUploads` knows no accounts, buffers, plans or transactions. Documents are
at places, and each client has a request: to create, to update, to write a
document at a place, to remove what is there, or to prepare something that does
not show. It begins or is rejected; at one moment, `Publish`, its document is at
its place, whole, in exchange for what was there; afterwards it has at most to
clean up. A client that ends well has had that moment, exactly once; one that
fails or is killed has had it or not. Creating replaces nothing, updating
replaces something. Nothing is said of what other clients do in between: they
may take the place first, and their document may be the one that stands.

The mapping (`UploadRefinement`): what shows are the PDAs that hold metadata,
each with codec, data source and the data its header declares, up to the last
byte that is not zero (`Stripped`): clients that are misled into extending the
buffer of another add zeros to what it publishes, see `claim_created`. A client has
published when no publication (Initialize, SetData) is left in its plan. While a
transaction of several instructions runs, what shows and how far its client is
are still those from before it (`SettledAccounts`, `SettledPlan`): a failure
takes both back. So Initialize, SetData and the end of a transaction that
contains one are Publish; CloseBuffer is Remove (a user may close metadata with
it: the command takes any address); a plan's last instruction is Finish, if it
is not the moment itself; Refuse and Crash are Fail; everything else, the
transfers, allocations, writes, growth, shrinking and the closing of buffers,
does not show.

## Runs

| Run | Question | Bounds |
|---|---|---|
| `governance` | Can any order of allocation, handover, initialization, closing, deployment and upgrade authority change let the wrong signer in, or keep the upgrade authority out? Is the program, to its users, the registry? | 2 keys, 1 program in any loader state, 1 seed, 3 lamports, lengths 1 to 2 |
| `data` | Does the header always describe the account, and can readers decode it? | 1 key, 3 accounts, lengths up to 4 with header 2 of which 1 is padding, growth by 1, rent 1 to 2, data sources all three, one byte that no text holds, accounts at 0, 1 or 2 in memory with references at multiples of 2 |
| `two_programs` | Does authority over one program leak to the other, and does a program's own keypair speak for it only under an older loader? | 2 programs, one of them a keypair's account that may be executable under an older loader, 1 key and that keypair |
| `client` | Does the program do what the Rust client was asked for, and everything it can do but change the codec alone? | every instruction, each optional account given, absent or wrong, sent or invoked, with up to one additional account |
| `plans` | Is any job, done alone, ever refused, left unpublished, or paid for twice? Does an upload succeed after another was killed anywhere and cleaned up? Is each job, to its user, atomic? | every job, data and former data of 1, 3, 4 and 8 bytes, in line up to 1, chunks of 2, growth by 3; or 3 clients, 1 crash, data of 1 or 3 bytes |
| `race` | What do two uploads to one account, one of them possibly killed, leave, is `UploadInv` the reason, does each take effect at one moment or not at all, and is `RentInv` the reason that one after the other leaves nothing over? | data of 1, 2 and 4 bytes over metadata of 1 or 3, of 1, 2 and 3 where there is none; chunks of 2, growth by 2 |
| `fetching` | Does each content returned belong to the account asked for? | 1 key, 2 accounts, one asked for twice, references to either account, two ranges |
| `claim_bytes`, `claim_remaining`, `claim_decoded_data`, `claim_write`, `claim_created` | Comments and docs contradicted by the code, see Findings | those of the run for the same module, or one scenario of it |

Why these bounds suffice: every guard of an instruction looks at one account,
one program and one signer, except for the buffer it copies from, so two keys
(one inside, one outside) and three or four accounts make every combination of
guards occur. One seed is enough because different seeds give different
addresses and nothing compares seeds. In `data`, HeaderLen = 2 lets an account
be shorter than a header, ReallocLimit = 1 makes the limit bite on data of two
bytes, MaxLen = 4 bounds the body by 2, and ExternalLen = 2 makes one of the two
body lengths legal for external data. Rent grows with length in `data`, so that
Trim pays out; it is flat in `governance`, where lengths do not matter. Supply
is small because lamports are conserved: it bounds how many accounts exist at
once.

In `client` a request is a record with every choice of its optional fields; the
accounts are in whatever state other clients bring them to. `VIEW vars` leaves
`served` out of the fingerprint: it is the label of the step, no action and no
guard reads it, and TLC evaluates action properties on every transition it
generates, also on those into a known state.

In `plans` the four lengths are: in line; a chunk and a part of one, exactly at
the growth limit; two chunks, one above the limit; four chunks, two limits and
a rest. Against
the same four lengths of what is there they give differences of either sign, of
none, of exactly the limit and beyond it. Rent is linear with an overhead, so
that every byte is worth a lamport and a plan that pays one too few is refused,
one too many is seen at the end. Where an upload is killed and repeated, 3 bytes
are a parallel stage of two Writes. The lengths of `race` are in line, one chunk
at the growth limit, and two parallel chunks beyond it, both where metadata is
updated and where it is created (which of two like clients has the longer data
makes no difference, so it is the second); so the case is there in which one client takes the buffer of another for metadata and
extends it. `claim_created` shows what comes of that; the properties of the run
say what does not.

In `fetching`, `VIEW Looked` leaves out the reader's input, strictness and
result, and `signer`: the input of a reader that was answered follows from the
addresses in its answer up to missing ones, and the result is read by one action
property at the step that makes it. As with `served`, the property is evaluated
on every transition.

Deadlock is not checked: when the lamports are spent, everything is immutable or
all jobs have ended, the system may rightly stop.

### Fairness

Nothing obliges anybody to send a transaction, so the program's own
specification has no fairness and claims no liveness. A client that has begun is
another matter: the code awaits each transaction of its plan and goes on until
the plan ends or a transaction is refused. `FairPlanSpec` says this and no more:
weak fairness of `Step \/ Refuse` for each client. Beginning and being killed
are not fair, and no instruction is fair to land before another of its stage.
`Refuse` is part of it because a client stuck before an instruction that can
never succeed does not wait: it fails.

## Properties

Invariants of the program: `TypeOK`; `HeadersOwned` (a header is in an account
that can hold it and the program owns); `DerivationMatches` (metadata is at the
address derived from its own header); `DataFits` (declared data is present and
legal); `AuthorityPresent` (no buffer or third-party metadata without
authority); `MetadataReadable` (readers can decode all of it: the crate's finds
the declared data, where that is text or the account is aligned as its source
demands, and the Rust client has it, behind the padding of the header, which is
`claim_decoded_data`); `OwnerNeverLockedOut` (whatever a former upgrade authority
or its heirs left at a program's address, unless it is immutable, the one of the
moment can allocate or take over).

Action properties of the program: `ImmutableForever`; `ChangesAuthorized` (who
signed a step that changes an account); `OnlyDeriverInitializes` (who signed a
step that makes metadata, and what it publishes); `ReshapeKeepsContent` (Extend,
Trim, SetAuthority and SetImmutable leave what is published alone);
`OrphanIsFrozen` (canonical
metadata without an authority, of a program that nobody speaks for any more, is
beyond everybody); `TooShortIsStranded` (an account of the program too short for
a header stays as it is, and its lamports with it). That Close and Trim into the
account itself mint and burn nothing is no property: the handlers do not see to
it, the runtime refuses the unbalanced transaction, and `PayOut` has that as a
guard.

Refinement: `ImplementsRegistry`, the registry's specification under the mapping
above. It covers what the properties before it do not: what an update may leave
of an entry (SetData never resets a keeper) and that a step changes one entry at
most. It does not say what the new content of an entry is.

The wire: `OnlyWhatWasAsked` (whatever is left out or wrong, the program does
what was asked or nothing) and `NothingRefused` (whatever the program does for
another client, a complete request through this one could have asked for). A
request is complete when the accounts it may need are given, whoever has to sign
can, its accounts, program and seed are among those the model follows, and, if it
is to set data, it gives data or a buffer. Changing the codec alone is something
the program does and the Rust client has no request for: it always sends the data
source, and the program then asks for data (`claim_codec`).

Plans: `NeverTorn` (metadata holds one upload, whole, under its own codec, and
zeros behind it; the header counts the data and no zeros, unless a client was
misled, `Misled`, into extending the buffer of another) and the inductive
invariant below it, `UploadInv` (see Proofs); `ImplementsAtomicUploads` (to its
user an upload is atomic, but for zeros at the end, however many transactions it
takes and whoever comes in between); `SomebodyWins` (when all have stopped and
nobody was killed, somebody was told of success; if anybody was told, what stands
is the data of one who was, or of one who was killed after publishing);
`UndisturbedSucceeds`, `NothingLeftOver`,
`BufferHoldsUpload` (a job done alone is not refused, leaves each account at its
rent, and its parallel writes give the data back), with `RentInv`, the inductive
invariant below the second of them (a buffer that was updated with shorter data
may keep a tail, `claim_update_buffer`, and is at the rent of its length);
`UploadPublishes` (liveness:
an upload that nobody disturbs is published in the end).

Reading by the JS client: `EachGetsItsOwn` (however direct, external and missing
accounts are mixed and changed between the requests, the i-th content is the one
of the i-th account there is) and `ImmutableReadsLast` (what was found immutable
may be cached for good).

They are stated with a vocabulary of their own and not with the guards of the
actions. For every property of every passing run PROJECT.json names a mutant: a
plausible slip in the code, defined beside the definition it replaces, under
which TLC finds the property violated.

## Proofs

`ProgramMetadataProofs` proves, for all constants that meet the ASSUMEs of
`Accounts` and `ProgramMetadata`, the program's own invariants but
`OwnerNeverLockedOut`, and its action properties but `ReshapeKeepsContent`, which
`RefinementProofs` proves with the refinement. The assumptions are: keys and PDAs
are different addresses (a PDA is off the curve), the zero address signs
nothing, HeaderLen and ExternalLen are positive, HeaderLen fits in MaxLen, and
rent is positive and does not fall as length grows.

The invariant `IInv` is `TypeOK` and, for each account, `WellFormed`: the four
safety invariants of one account together. They need each other. Derivation is
kept by SetAuthority only since non-canonical metadata keeps its authority;
Trim keeps types only since declared data is present, for otherwise the length
it asks for could exceed the account; Initialize writes a header of full length
because whatever it finds has one or is vacant. One lemma per action shows that
it writes well-formed contents at one address (`PutKeeps`, and the like for
payouts); `StepKeeps` puts them together.

The action properties follow from one lemma, `StepEffect`: to any account, any
step does one of four things: at most credits it, changes it for somebody who
may manage it, takes an account without a header into use, or initializes it.
Each theorem then says which of the four can apply.

The refinement is `THEOREM Refinement`. Its step simulation needs `IInv`:
metadata is at the slot its header derives, or a change would show at another
program's or another party's entry; the declared data is present, or Trim and
Extend would change the content that shows. `SameEntry(a)` says that a step does
not show at `a`; `OneSlotChanges` turns "shows at one address at most" into the
registry's frame condition and `NothingShows` into a stutter; one lemma per
instruction names the registry step it is. That resizing keeps the content rests
on `FitFit`, a lemma about the resizing operator itself.

`RustClientProofs` proves `OnlyWhatWasAsked` for every set of requests: one
lemma per instruction takes the sequence of metas apart by `AccountsOf`
(accounts added after the named ones do not move those) and finds in the
handler's guards what `Asked` says. `NothingRefused` is the way back. One lemma
per instruction (`TrimAccepted`, ...) shows that the places a complete request
fills are the ones the handler reads, and another (`TrimAcceptedOf`, ...) that
what `Asked` allows passes every guard of the handler and every check of the
runtime. It needs a small invariant, `Shaped` (what an account is made of),
because Allocate and Initialize take the seed from the request and derive the
address, and `Asked` names the address alone: that both mean one account
follows only if the account is told from every other by what changes in it. The
module assumes (`SpecialAccounts`, `RequestAssumption`) that the
program's own id is none of the other accounts, that additional accounts are a
vector, and that an option that is given is never empty on the wire. The theorem
is about complete requests as defined above (`Complete`); the change of a codec
alone is not one.

`ReadingProofs` proves `MetadataReadable` from a stronger invariant, `IInv` with
three parts of its own: `Sized` (no account is longer than an account may be, so
that there is a rent for it), `Tidied` (what follows the declared data is zero
filling, so that it does not spoil text) and `Funded` (who has a header has
lamports, or the node would not know the account). `DataAligned` says that the
data section is aligned if the account is, from the assumption that the header's
length is a multiple of `ExternalAlign` (96 and 4 in the code, where an address
is bytes and the two integers are of 32 bits); `BehindPadding` that the Rust client has the
declared data behind the padding.

`FetchingProofs` proves `ImmutableReadsLast` by `FInv`: the program's invariant,
the shape of what was read, and the property itself; that immutable metadata is
kept is `ImmutableIsKept`, the lemma under `ImmutableForever`. `EachGetsItsOwn`
takes three more facts. `NthPlace`: the places that a filter keeps, counted from
the first, are each met once and in order, so the i-th content is the one of the
i-th account there is. `AllPlain`: only metadata has an external source, so
everything else is unpacked from itself. `Answered`: the first
request gave the same answer for the same address. `findIndex` takes the first
external account that has the address it looks for, which may stand at another
place of the query; by `Answered` it refers to the same range, so the content is
right even if an account is asked for twice (`FindsItself`).

`UploadProofs` begins with two facts on which the plans rest, for data of every
length: `ChunksTile` (each byte of an upload is written to its place by exactly
one Write, none longer than a chunk nor past the end: which is why their order
does not matter) and `ExtendsFit` (each Extend asks for at least one byte and
for no more than the runtime lets it grow an account).

It then proves that uploads which race, are refused or are killed leave
whole metadata (`NeverTorn`) and whole buffers (`BufferHoldsUpload`), for any
number of clients, data of any length and any chunk size. Neither is inductive:
what a SetData publishes is right because of what all the Writes before it have
done to another account, and what every other client has refrained from.
`UploadInv` says that:

* each plan is in order (`Sorted`) and made of instructions on the client's own
  accounts;
* a plan that has made its buffer has each byte of the data in it or still to
  write, and nothing but zeros behind the data (`Partly`);
* such a buffer, and what the Extends that are left make of it, is no longer than
  the data (`Growing`), unless a client was misled into extending it (`Misled`);
  only plans that build the buffer or update what they found extend it
  (`ExtendsFound`);
* metadata is one of the uploads, as `NeverTorn` says (`Whole`);
* no two plans hold the PDA (`Exclusive`), because an Allocate that finds a
  buffer is refused, and keypairs are fresh;
* a buffer given by the user holds the data until it is closed, and what a user
  closes, nobody is filling;
* all this holds of the accounts to which a failing transaction returns
  (`OpenOK`).

The proof goes by what an instruction changes (`RunChanges`) and by whose
account that is: the parts of the invariant that speak of the client whose step
it is (`SteppedKeeps` and the lemmas before it), those of another, a stop
(`StoppedAccounts`), a beginning (`StartedKeeps`); one lemma per plan shows that
it is `Prepared`, that is, meets the invariant when it is made. The bounds of
the chunks are `ChunksTile` and `ExtendsFit`.

The theorems assume `UploadScene` of the initial state, and the `race` run
starts from such scenes. It asks for jobs that users can ask for, new keypairs,
given buffers that hold the data, and metadata that is whole at the start; and,
as a limit of the code, for no `update-buffer`: that job writes into a buffer that
may be somebody else's. Neither accounts nor lengths are restricted: several
clients may create one absent account with data of any length. What another
client's plan can do to a buffer it took for metadata follows from its
instructions: Write is no part of it, SetData is refused as long as there is no
metadata and Trim comes after it, so there remain a transfer and Extends, whose
bytes are zero.

A user closes a leftover only when nobody is running, as in the model.
`BufferHoldsUpload` assumes in addition that nobody else has a job at the PDA of
the buffer (`BuffersOwned`): another client could fill the address again after
it was closed. `Refuse` contains ENABLED, under the name `Fails`; no proof
expands it, since whenever a client is refused, its accounts go back to where
the invariant held.

`AtomicUploadProofs` proves the second refinement, `ImplementsAtomicUploads`,
from the same scenes and for as many clients, with `AtomicInv`: `UploadInv`;
that a plan to create holds no SetData and one to update no Initialize (`Aims`);
and, of the transaction that is running, that from its beginning to now its
client has either not published, and nothing else shows, or published its
document and nothing more (`Progress`). `StepProgress` says this of one
instruction and `ProgressGoesOn` puts two stretches together, so a transaction
of any length is one step of the abstract client or none. An instruction shows
at most at its own account (`QuietShows`): Extend and Trim leave the declared
data alone, a plan never closes metadata, since what it closes is vacant, a
buffer, or a buffer of its own (`ClosesNoMetadata`). What it publishes is the
whole of its data (`PublicationShows`) because `UploadInv` says that what
remains to be written is nothing by then. That a plan holds one publication and
not two is `Sorted`: publications have one rank, and instructions that follow
one another have rising ranks.

`RentProofs` proves that users who come one after the other pay for what they
keep and for nothing else, `NothingLeftOver`, with data of any length. That
property speaks of the end, when all have stopped; `RentInv` says what makes it
come true. As long as nobody has been disturbed, refused or killed (`SoFar`):

* only one client runs (`AloneOK`, of `UploadInv`), and every account but the one it works on is
  at its rent and holds nothing behind its data (`Neat`);
* what that account has, and what the plan has still to transfer to it, are
  together the rent of the data, unless a Trim is still to pay the rest back;
  once the data is published, the account holds just that (`PlaceRent`);
* a keypair buffer is as long as the data from its first Allocate on
  (`FreshRent`), or it would be closed with less in it than it was paid;
* each buffer that a job is to close holds nothing, or its Close is in the plan
  (`ClosedOK`).

One lemma for each instruction says what it does to balances (`RunPays` collects
them); from it follows that a step of the plan keeps each part of the invariant
(`PlaceRentStays`, `FreshRentStays`, `OthersNeat`, `ClosedStays`). One lemma for
each plan says that it pays what is missing when it begins: those that create
are funded by one transfer (`...Opens`), those that update by the difference in
rent or a Trim (`...Amends`).

The theorems assume `UploadScene`; `RentScene`: the accounts there are at the
beginning are at their rent, keypairs for new buffers hold nothing, and a user's
wallet is no buffer; and `RentIsLinear`: rent is an amount for the account and
one for each byte, as in the runtime, which `updateMetadata.ts:274` takes for
granted when it computes the rent of the difference. `race` checks `RentInv`
from such scenes, `plans` the property itself, also for updates of a buffer,
which `UploadScene` leaves out.

## Findings

Five disagreements between the code and what is written about it are runs that
expect a violation and are listed in PROJECT.json: `claim_bytes`,
`claim_remaining`, `claim_decoded_data`, `claim_write`, `claim_created`.
The others have a property and a configuration as well and can be run by hand,
for example `tlc -config claim_fetch.cfg MCFetching`; the module is the one that
defines the property (`DocClaims`, `MCRustClient`, `MCClientPlans`, or for
`Reading` and `Fetching` its `MC` module).

In the program:

* `claim_keypair_authority`: `state/buffer.rs` says that `authority` is set for
  PDA buffers only. Allocate sets it for keypair buffers as well, and Write
  depends on that. The comment is wrong.
* `claim_data_length`: `state/header.rs` says that `data_length` is the length of
  the data after the header. After Extend there is more. Readers that take all
  bytes after the header (the generated decoders do) see the difference.
* `claim_executable`: `is_program_authority` lists "`program` account must be
  executable" among the checks it performs. It only answers "no" when the
  account is not executable, and Initialize then makes third-party metadata for
  it, while Allocate refuses to.
* `claim_url`: URL data is documented to be a `str`, and the crate's reader fails
  if it is not; the program stores any bytes, and the JS client compresses URLs
  by default.

In the Rust client:

* `claim_bytes`: optional bytes carry a Borsh length prefix, which the program
  takes for the first bytes of the data.
* `claim_system`: the builder of Initialize documents the system program as its
  default and puts the program's own id in its place.
* `claim_codec`: SetData documents data and buffer as optional, but the builder
  always sends the data source, and the program then refuses a request with
  neither of them. Another client can set the codec alone.
* `claim_remaining`: the flags of a CPI's additional accounts are pushed as
  (writable, signer) and read as (signer, writable).
* `claim_decoded_data`: decoders take the header's padding for the first bytes of
  the data.

In the JS client:

* `claim_write`: writeMetadata updates whatever exists; after an upload was
  killed half way it sends an update the program refuses, until somebody closes
  the leftover buffer.
* `claim_close`: `closeBuffer` is documented to default to true; left out, the
  buffer stays.
* `claim_update_buffer`: after an update with shorter data the buffer keeps the
  end of the former content, since Trim resizes metadata only.
* `claim_created`: the PDA buffer of an upload decodes as metadata. A second client
  that looks while it is being filled takes the path of an update and, if its data
  are longer than one instruction can add, extends it. Initialize then publishes
  the first upload with zeros behind it, and counts them in `data_length`;
  createMetadata reports success. The data do not mix: `NeverTorn` is checked
  and proved of this case as of the others.
* `claim_fetch`: a reader does not look at the discriminator and returns the
  bytes of a buffer that is still being uploaded.

## Only model-checked, not proved

* `UndisturbedSucceeds` and `SomebodyWins` say that something is not refused,
  and `Refuse` is ENABLED of an instruction negated (`Fails`), which the prover
  does not handle. They also hold of the scenarios of a run only: accounts that
  are funded as earlier clients left them, not every initial state.
* `OwnerNeverLockedOut` says that something is possible, with ENABLED.
* `UploadPublishes` is liveness.

## Not modelled

Error codes: a failed transaction changes nothing and its reason is not told
apart. Fees, compute limits, locks, epochs. Accounts of other programs, and
destinations of Close and Trim outside Address. The seeds of invoke_signed: that
the program can sign for its PDAs is taken for granted. Metadata of the metadata
program itself, whose id is the placeholder for absent accounts.

At the level of the program one transaction has one instruction: every state
between two instructions of a transaction is visible in the model, and
invariants that hold in more states hold in fewer. The plans have transactions of
several instructions, as described above, but the rent check is made after each
and not at the end: the plans always fund an account before they grow it.

In the plans: data sources other than Direct, which take the same path; priority
fees; an upgrade authority that moves while a plan runs; the lifetime of a
blockhash. In the JS client: compression and text codecs (library calls), the
parsing of formats, the CLI commands that pass one plan on, options, export and
RPC plumbing. Generated enums, error types and PDA helpers. The JS instruction
builders are generated from the same description as the Rust ones and are not
modelled a second time.

## What is left

Done: the on-chain program, its invariants and action properties, the abstract
registry and the refinement; the wire of the Rust client; its readers; the plans
of the JS client with races, crashes and liveness, the abstract upload they
implement, and what they cost; its reader; the proofs named above. Left:
`UndisturbedSucceeds`, with `Fails` replaced by the negation of the guards of
each instruction, the equivalence of the two being checked by TLC.
