------------------------------ MODULE Instructions ------------------------------
(***************************************************************************)
(* The wire format of the program's instructions as the generated Rust     *)
(* client writes it: which account goes to which place with which          *)
(* privileges, and what the instruction's data holds.  No state.           *)
(*                                                                         *)
(* A client fills in the fields of a builder: `f` is a function from the   *)
(* names of the fields that were set.  `codec` stands for the three fields *)
(* encoding, compression and format.  The data of an instruction are its   *)
(* discriminator (`tag`), its fields of fixed width (`args`, one element   *)
(* each) and the bytes that remain after them (`rest`).                    *)
(***************************************************************************)
EXTENDS Integers, Sequences

CONSTANTS
  Id,              \* PROGRAM_METADATA_ID, which also stands for an account left out
  SystemId,        \* the system program
  RentId,          \* the rent sysvar
  LengthPrefix(_)  \* the bytes of a u32, which Borsh puts before a vector

-----------------------------------------------------------------------------
(* Account metas.  An instruction is a record of its accounts and data; a  *)
(* call through CPI also names the accounts the caller hands over.         *)

Writable(a) == [key |-> a, signer |-> FALSE, writable |-> TRUE]
Readonly(a) == [key |-> a, signer |-> FALSE, writable |-> FALSE]
Signing(a) == [key |-> a, signer |-> TRUE, writable |-> FALSE]

\* An optional account: PROGRAM_METADATA_ID holds the place of one that is not set.
Optional(f, name) == Readonly(IF name \in DOMAIN f THEN f[name] ELSE Id)
OptionalWritable(f, name) == IF name \in DOMAIN f THEN Writable(f[name]) ELSE Readonly(Id)

\* The accounts among `names` that are set.
Present(f, names) == {f[name] : name \in names \cap DOMAIN f}

\* The metas a CPI makes of additional accounts.  The builders push tuples (account,
\* is_writable, is_signer); the call reads the first flag as is_signer.
FromTuples(remaining) ==
  [i \in DOMAIN remaining |->
     [key      |-> remaining[i].key,
      signer   |-> remaining[i].writable,
      writable |-> remaining[i].signer]]

Keys(remaining) == {remaining[i].key : i \in DOMAIN remaining}

\* A builder panics unless the required fields are set: no instruction comes of it.
Built(required, f, instruction) ==
  IF required \subseteq DOMAIN f THEN {instruction} ELSE {}

-----------------------------------------------------------------------------
(* The hand-written serializers.  An option is <<>> or <<value>>.          *)

\* RemainderOptionBytes::serialize: Vec<u8> brings its length along.
RemainderOptionBytes(option) ==
  IF option = <<>> THEN <<>> ELSE LengthPrefix(Len(option[1])) \o option[1]

\* RemainderOptionSeed::serialize: the seed, or nothing.
RemainderOptionSeed(option) == option

\* Option<Address>: a byte that tells whether an address follows.
OptionAddress(option) == IF option = <<>> THEN <<0>> ELSE <<1>> \o option

-----------------------------------------------------------------------------
(* Write.                                                                  *)

WriteInstruction(f, remaining) ==
  [tag      |-> 0,
   accounts |-> <<Writable(f.buffer), Signing(f.authority),
                  Optional(f, "source_buffer")>> \o remaining,
   args     |-> <<f.offset>>,
   rest     |-> RemainderOptionBytes(f.data)]

WriteBuilder(f, remaining) ==
  Built({"buffer", "authority", "offset", "data"}, f, WriteInstruction(f, remaining))

WriteCpi(f, remaining) ==
  [instruction |-> WriteInstruction(f, FromTuples(remaining)),
   infos       |-> {f.invoked, f.buffer, f.authority}
                     \cup Present(f, {"source_buffer"}) \cup Keys(remaining)]

WriteCpiBuilder(f, remaining) ==
  Built({"buffer", "authority", "offset", "data"}, f, WriteCpi(f, remaining))

-----------------------------------------------------------------------------
(* Initialize.                                                             *)

InitializeInstruction(f, remaining) ==
  [tag      |-> 1,
   accounts |-> <<Writable(f.metadata), Signing(f.authority), Readonly(f.program),
                  Optional(f, "program_data"), Optional(f, "system")>> \o remaining,
   args     |-> <<f.seed, f.codec, f.data_source>>,
   rest     |-> RemainderOptionBytes(f.data)]

InitializeBuilder(f, remaining) ==
  Built({"metadata", "authority", "program", "seed", "codec", "data_source", "data"},
        f, InitializeInstruction(f, remaining))

InitializeCpi(f, remaining) ==
  [instruction |-> InitializeInstruction(f, FromTuples(remaining)),
   infos       |-> {f.invoked, f.metadata, f.authority, f.program}
                     \cup Present(f, {"program_data", "system"}) \cup Keys(remaining)]

InitializeCpiBuilder(f, remaining) ==
  Built({"metadata", "authority", "program", "seed", "codec", "data_source", "data"},
        f, InitializeCpi(f, remaining))

-----------------------------------------------------------------------------
(* SetAuthority.                                                           *)

\* `new_authority` is not required: left unset, the authority is removed.
SetAuthorityInstruction(f, remaining) ==
  [tag      |-> 2,
   accounts |-> <<Writable(f.account), Signing(f.authority),
                  Optional(f, "program"), Optional(f, "program_data")>> \o remaining,
   args     |-> OptionAddress(
                  IF "new_authority" \in DOMAIN f THEN <<f.new_authority>> ELSE <<>>),
   rest     |-> <<>>]

SetAuthorityBuilder(f, remaining) ==
  Built({"account", "authority"}, f, SetAuthorityInstruction(f, remaining))

SetAuthorityCpi(f, remaining) ==
  [instruction |-> SetAuthorityInstruction(f, FromTuples(remaining)),
   infos       |-> {f.invoked, f.account, f.authority}
                     \cup Present(f, {"program", "program_data"}) \cup Keys(remaining)]

SetAuthorityCpiBuilder(f, remaining) ==
  Built({"account", "authority"}, f, SetAuthorityCpi(f, remaining))

-----------------------------------------------------------------------------
(* SetData.                                                                *)

\* Mutant of SetDataInstruction: buffer and program change places.
SetDataInstructionSwapped(f, remaining) ==
  [tag      |-> 3,
   accounts |-> <<Writable(f.metadata), Signing(f.authority),
                  Optional(f, "program"), OptionalWritable(f, "buffer"),
                  Optional(f, "program_data")>> \o remaining,
   args     |-> <<f.codec, f.data_source>>,
   rest     |-> RemainderOptionBytes(f.data)]

SetDataInstruction(f, remaining) ==
  [tag      |-> 3,
   accounts |-> <<Writable(f.metadata), Signing(f.authority),
                  OptionalWritable(f, "buffer"), Optional(f, "program"),
                  Optional(f, "program_data")>> \o remaining,
   args     |-> <<f.codec, f.data_source>>,
   rest     |-> RemainderOptionBytes(f.data)]

SetDataBuilder(f, remaining) ==
  Built({"metadata", "authority", "codec", "data_source", "data"},
        f, SetDataInstruction(f, remaining))

SetDataCpi(f, remaining) ==
  [instruction |-> SetDataInstruction(f, FromTuples(remaining)),
   infos       |-> {f.invoked, f.metadata, f.authority}
                     \cup Present(f, {"buffer", "program", "program_data"})
                     \cup Keys(remaining)]

SetDataCpiBuilder(f, remaining) ==
  Built({"metadata", "authority", "codec", "data_source", "data"},
        f, SetDataCpi(f, remaining))

-----------------------------------------------------------------------------
(* SetImmutable.                                                           *)

SetImmutableInstruction(f, remaining) ==
  [tag      |-> 4,
   accounts |-> <<Writable(f.metadata), Signing(f.authority),
                  Optional(f, "program"), Optional(f, "program_data")>> \o remaining,
   args     |-> <<>>,
   rest     |-> <<>>]

SetImmutableBuilder(f, remaining) ==
  Built({"metadata", "authority"}, f, SetImmutableInstruction(f, remaining))

SetImmutableCpi(f, remaining) ==
  [instruction |-> SetImmutableInstruction(f, FromTuples(remaining)),
   infos       |-> {f.invoked, f.metadata, f.authority}
                     \cup Present(f, {"program", "program_data"}) \cup Keys(remaining)]

SetImmutableCpiBuilder(f, remaining) ==
  Built({"metadata", "authority"}, f, SetImmutableCpi(f, remaining))

-----------------------------------------------------------------------------
(* Trim.                                                                   *)

TrimInstruction(f, rent, remaining) ==
  [tag      |-> 5,
   accounts |-> <<Writable(f.account), Signing(f.authority),
                  Optional(f, "program"), Optional(f, "program_data"),
                  Writable(f.destination), Readonly(rent)>> \o remaining,
   args     |-> <<>>,
   rest     |-> <<>>]

\* The rent sysvar has a default here, and is required through CPI.
TrimBuilder(f, remaining) ==
  Built({"account", "authority", "destination"}, f,
        TrimInstruction(f, IF "rent" \in DOMAIN f THEN f.rent ELSE RentId, remaining))

TrimCpi(f, remaining) ==
  [instruction |-> TrimInstruction(f, f.rent, FromTuples(remaining)),
   infos       |-> {f.invoked, f.account, f.authority, f.destination, f.rent}
                     \cup Present(f, {"program", "program_data"}) \cup Keys(remaining)]

TrimCpiBuilder(f, remaining) ==
  Built({"account", "authority", "destination", "rent"}, f, TrimCpi(f, remaining))

-----------------------------------------------------------------------------
(* Close.                                                                  *)

CloseInstruction(f, remaining) ==
  [tag      |-> 6,
   accounts |-> <<Writable(f.account), Signing(f.authority),
                  Optional(f, "program"), Optional(f, "program_data"),
                  Writable(f.destination)>> \o remaining,
   args     |-> <<>>,
   rest     |-> <<>>]

CloseBuilder(f, remaining) ==
  Built({"account", "authority", "destination"}, f, CloseInstruction(f, remaining))

CloseCpi(f, remaining) ==
  [instruction |-> CloseInstruction(f, FromTuples(remaining)),
   infos       |-> {f.invoked, f.account, f.authority, f.destination}
                     \cup Present(f, {"program", "program_data"}) \cup Keys(remaining)]

CloseCpiBuilder(f, remaining) ==
  Built({"account", "authority", "destination"}, f, CloseCpi(f, remaining))

-----------------------------------------------------------------------------
(* Allocate.                                                               *)

AllocateInstruction(f, remaining) ==
  [tag      |-> 7,
   accounts |-> <<Writable(f.buffer), Signing(f.authority), Optional(f, "program"),
                  Optional(f, "program_data"), Optional(f, "system")>> \o remaining,
   args     |-> RemainderOptionSeed(f.seed),
   rest     |-> <<>>]

AllocateBuilder(f, remaining) ==
  Built({"buffer", "authority", "seed"}, f, AllocateInstruction(f, remaining))

AllocateCpi(f, remaining) ==
  [instruction |-> AllocateInstruction(f, FromTuples(remaining)),
   infos       |-> {f.invoked, f.buffer, f.authority}
                     \cup Present(f, {"program", "program_data", "system"})
                     \cup Keys(remaining)]

AllocateCpiBuilder(f, remaining) ==
  Built({"buffer", "authority", "seed"}, f, AllocateCpi(f, remaining))

-----------------------------------------------------------------------------
(* Extend.                                                                 *)

ExtendInstruction(f, remaining) ==
  [tag      |-> 8,
   accounts |-> <<Writable(f.account), Signing(f.authority),
                  Optional(f, "program"), Optional(f, "program_data")>> \o remaining,
   args     |-> <<f.length>>,
   rest     |-> <<>>]

ExtendBuilder(f, remaining) ==
  Built({"account", "authority", "length"}, f, ExtendInstruction(f, remaining))

ExtendCpi(f, remaining) ==
  [instruction |-> ExtendInstruction(f, FromTuples(remaining)),
   infos       |-> {f.invoked, f.account, f.authority}
                     \cup Present(f, {"program", "program_data"}) \cup Keys(remaining)]

ExtendCpiBuilder(f, remaining) ==
  Built({"account", "authority", "length"}, f, ExtendCpi(f, remaining))
===============================================================================
