------------------------------- MODULE RustClient -------------------------------
(***************************************************************************)
(* The program as the users of the generated Rust client meet it: requests *)
(* become instructions, sent in a transaction or invoked by another        *)
(* program, and the program reads them.  Other clients use the same        *)
(* accounts meanwhile.                                                     *)
(***************************************************************************)
EXTENDS Entrypoint

CONSTANTS
  Request    \* [name, fields, remaining]: what users ask the client for

VARIABLE
  served     \* the request the last step served, None if it was another client's
             \* (history, read by properties only)

clientVars == <<vars, served>>

\* The bytes an option stands for on the wire.
Carried(option) == LengthPrefix(Len(option[1])) \o option[1]

\* The instructions there are builders for.
Name == {"write", "initialize", "set_authority", "set_data", "set_immutable", "trim",
         "close", "allocate", "extend"}

\* The fields of a request have the types the builder gives them: additional accounts
\* are a vector, data an option of bytes (which Borsh never writes as nothing).
ASSUME RequestAssumption ==
  \A q \in Request :
    /\ q.name \in Name
    /\ q.remaining \in Seq({q.remaining[i] : i \in DOMAIN q.remaining})
    /\ "data" \in DOMAIN q.fields /\ q.fields.data # <<>> => Carried(q.fields.data) # <<>>

-----------------------------------------------------------------------------
\* What <Name>Builder::instruction returns.
Instruction(q) ==
  CASE q.name = "write"         -> WriteBuilder(q.fields, q.remaining)
    [] q.name = "initialize"    -> InitializeBuilder(q.fields, q.remaining)
    [] q.name = "set_authority" -> SetAuthorityBuilder(q.fields, q.remaining)
    [] q.name = "set_data"      -> SetDataBuilder(q.fields, q.remaining)
    [] q.name = "set_immutable" -> SetImmutableBuilder(q.fields, q.remaining)
    [] q.name = "trim"          -> TrimBuilder(q.fields, q.remaining)
    [] q.name = "close"         -> CloseBuilder(q.fields, q.remaining)
    [] q.name = "allocate"      -> AllocateBuilder(q.fields, q.remaining)
    [] q.name = "extend"        -> ExtendBuilder(q.fields, q.remaining)

\* What <Name>CpiBuilder::invoke hands to the runtime.
Invocation(q) ==
  CASE q.name = "write"         -> WriteCpiBuilder(q.fields, q.remaining)
    [] q.name = "initialize"    -> InitializeCpiBuilder(q.fields, q.remaining)
    [] q.name = "set_authority" -> SetAuthorityCpiBuilder(q.fields, q.remaining)
    [] q.name = "set_data"      -> SetDataCpiBuilder(q.fields, q.remaining)
    [] q.name = "set_immutable" -> SetImmutableCpiBuilder(q.fields, q.remaining)
    [] q.name = "trim"          -> TrimCpiBuilder(q.fields, q.remaining)
    [] q.name = "close"         -> CloseCpiBuilder(q.fields, q.remaining)
    [] q.name = "allocate"      -> AllocateCpiBuilder(q.fields, q.remaining)
    [] q.name = "extend"        -> ExtendCpiBuilder(q.fields, q.remaining)

\* A transaction with the one instruction.
Submit(q) == \E ix \in Instruction(q) : Signable(ix) /\ ProcessInstruction(ix)

\* The runtime runs an instruction that a program invokes if the program handed over
\* every account it names and holds every privilege it grants.
Invocable(cpi, held) ==
  LET ix == cpi.instruction
  IN  /\ Id \in cpi.infos
      /\ \A i \in DOMAIN ix.accounts :
           /\ Account(ix, i) \in cpi.infos
           /\ ix.accounts[i].signer => IsSigner(held, Account(ix, i))
           /\ ix.accounts[i].writable => IsWritable(held, Account(ix, i))

\* A program that was granted the privileges the instruction needs, invokes it.
Invoke(q) ==
  \E cpi \in Invocation(q), held \in Instruction(q) :
    /\ ProcessInstruction(cpi.instruction)
    /\ Signable(held)
    /\ Invocable(cpi, held)

ClientInit == Init /\ served = None

ClientNext ==
  \/ \E q \in Request :
       /\ Submit(q) \/ Invoke(q)
       /\ served' = q
  \/ Next /\ served' = None

ClientSpec == ClientInit /\ [][ClientNext]_clientVars

-----------------------------------------------------------------------------
(* What a request asks for, in terms of the instructions and not of wire   *)
(* places, discriminators and placeholders.                                *)

\* The optional account is there; PROGRAM_METADATA_ID in its place says that it is not.
Has(f, name) == name \in DOMAIN f /\ f[name] # Id

OnlyChanges(a) == \A other \in Address \ {a} : acct'[other] = acct[other]

AskedWrite(f) ==
  \/ /\ f.data # <<>> /\ ~Has(f, "source_buffer")
     /\ WriteData(f.authority, f.buffer, f.offset, Carried(f.data))
  \/ /\ f.data = <<>> /\ Has(f, "source_buffer")
     /\ WriteFromBuffer(f.authority, f.buffer, f.offset, f.source_buffer)

AskedInitialize(f) ==
  /\ Initialize(f.authority, f.program, f.seed, Has(f, "program_data"), f.codec,
                f.data_source, IF f.data = <<>> THEN <<>> ELSE Carried(f.data))
  /\ OnlyChanges(f.metadata)

AskedSetAuthority(f) ==
  LET new == IF "new_authority" \in DOMAIN f THEN f.new_authority ELSE None
  IN  \/ SetBufferAuthority(f.authority, f.account, new)
      \/ SetMetadataAuthority(f.authority, f.account, new)

\* Without data of either kind there is the codec to change, and nothing else.
AskedSetData(f) ==
  \/ /\ f.data # <<>> /\ ~Has(f, "buffer")
     /\ SetData(f.authority, f.metadata, f.codec, f.data_source, Carried(f.data))
  \/ /\ f.data = <<>> /\ Has(f, "buffer")
     /\ SetDataFromBuffer(f.authority, f.metadata, f.codec, f.data_source, f.buffer)
  \/ /\ f.data = <<>> /\ ~Has(f, "buffer")
     /\ f.data_source = acct[f.metadata].dataSource
     /\ SetCodec(f.authority, f.metadata, f.codec)

AskedAllocate(f) ==
  \/ /\ f.seed = <<>> /\ f.buffer = f.authority
     /\ AllocateKeypair(f.authority)
  \/ /\ f.seed # <<>> /\ f.buffer # f.authority /\ Has(f, "program")
     /\ AllocatePda(f.authority, f.program, f.seed[1], Has(f, "program_data"))
     /\ OnlyChanges(f.buffer)

Asked(q) ==
  LET f == q.fields
  IN  \/ q.name = "write" /\ AskedWrite(f)
      \/ q.name = "initialize" /\ AskedInitialize(f)
      \/ q.name = "set_authority" /\ AskedSetAuthority(f)
      \/ q.name = "set_data" /\ AskedSetData(f)
      \/ q.name = "set_immutable" /\ SetImmutable(f.authority, f.metadata)
      \/ q.name = "trim" /\ Trim(f.authority, f.account, f.destination)
      \/ q.name = "close" /\ Close(f.authority, f.account, f.destination)
      \/ q.name = "allocate" /\ AskedAllocate(f)
      \/ q.name = "extend" /\ Extend(f.authority, f.account, f.length)
===============================================================================
