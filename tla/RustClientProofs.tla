---------------------------- MODULE RustClientProofs ----------------------------
(***************************************************************************)
(* The program does what the generated Rust client was asked for, or       *)
(* nothing: whatever follows the accounts an instruction names, the        *)
(* handler its discriminator selects reads the request back.  And the      *)
(* other way round: what the program would do is refused to no request     *)
(* that gives the accounts it takes.  Each instruction has a lemma for     *)
(* either direction.                                                       *)
(***************************************************************************)
EXTENDS RustClientProperties, TLAPS

LEMMA FirstOfConcat ==
  ASSUME NEW S, NEW s \in Seq(S), NEW t \in Seq(S), NEW i \in 1 .. Len(s)
  PROVE  (s \o t)[i] = s[i]
<1> QED
  OBVIOUS

\* A sequence of any elements.
Vector(t) == t \in Seq({t[i] : i \in DOMAIN t})

LEMMA VectorOf == ASSUME NEW S, NEW t \in Seq(S) PROVE Vector(t)
<1> QED
  BY DEF Vector

\* Accounts added after the ones an instruction names do not move those.
LEMMA PlacesKept ==
  ASSUME NEW s, NEW t, Vector(s), Vector(t), NEW i \in 1 .. Len(s)
  PROVE  (s \o t)[i] = s[i]
<1> DEFINE S == {s[j] : j \in DOMAIN s} \cup {t[j] : j \in DOMAIN t}
<1>1. s \in Seq(S) /\ t \in Seq(S)
  BY DEF Vector
<1> HIDE DEF S
<1> QED
  BY <1>1, FirstOfConcat

LEMMA AccountsOf ==
  ASSUME NEW ix, NEW named, NEW more, Vector(named), Vector(more),
         ix.accounts = named \o more
  PROVE  /\ Len(ix.accounts) = Len(named) + Len(more)
         /\ DOMAIN ix.accounts = 1 .. Len(ix.accounts)
         /\ Len(named) \in Nat /\ Len(more) \in Nat
         /\ \A i \in 1 .. Len(named) : i \in DOMAIN ix.accounts /\ ix.accounts[i] = named[i]
<1> DEFINE S == {named[j] : j \in DOMAIN named} \cup {more[j] : j \in DOMAIN more}
<1>1. named \in Seq(S) /\ more \in Seq(S)
  BY DEF Vector
<1> HIDE DEF S
<1>2. /\ Len(ix.accounts) = Len(named) + Len(more)
      /\ DOMAIN ix.accounts = 1 .. Len(ix.accounts)
      /\ Len(named) \in Nat /\ Len(more) \in Nat
  BY <1>1
<1>3. \A i \in 1 .. Len(named) : i \in DOMAIN ix.accounts
  BY <1>2
<1> QED
  BY <1>2, <1>3, PlacesKept

LEMMA TuplesAreVector ==
  ASSUME NEW t, Vector(t)
  PROVE  Vector(FromTuples(t))
<1> DEFINE u == FromTuples(t)
           S == {u[i] : i \in DOMAIN u}
<1>1. Len(t) \in Nat /\ DOMAIN t = 1 .. Len(t)
  BY DEF Vector
<1>2. DOMAIN u = 1 .. Len(t) /\ u = [i \in 1 .. Len(t) |-> u[i]]
  BY <1>1 DEF FromTuples
<1>3. u \in [1 .. Len(t) -> S]
  BY <1>2
<1>4. u \in Seq(S)
  <2> HIDE DEF u, S
  <2> QED
    BY <1>1, <1>3
<1> QED
  BY <1>4 DEF Vector

\* is_program_authority has one outcome at most.
LEMMA AuthorityIsDetermined ==
  ASSUME NEW p, NEW supplied \in BOOLEAN, NEW k,
         NEW yes \in IsProgramAuthority(p, supplied, k),
         NEW no \in IsProgramAuthority(p, supplied, k)
  PROVE  yes = no
<1> QED
  BY DEF IsProgramAuthority, Upgradeable

LEMMA NamedIsSupplied ==
  ASSUME NEW p, NEW programData, NEW k,
         NEW yes \in NamedProgramAuthority(p, programData, k)
  PROVE  yes \in IsProgramAuthority(p, programData # Id, k)
<1> QED
  BY DEF NamedProgramAuthority

LEMMA PutOnlyChanges ==
  ASSUME NEW k, NEW a, NEW r, Put(k, a, r)
  PROVE  OnlyChanges(a)
<1> QED
  BY DEF Put, OnlyChanges

-----------------------------------------------------------------------------
(* One lemma for each instruction: what the handler of these metas and     *)
(* data does is what the fields asked for.                                 *)

LEMMA SetImmutableAsked ==
  ASSUME NEW f, NEW more, Vector(more),
         HandleSetImmutable(SetImmutableInstruction(f, more))
  PROVE  SetImmutable(f.authority, f.metadata)
<1> DEFINE ix == SetImmutableInstruction(f, more)
           named == <<Writable(f.metadata), Signing(f.authority),
                      Optional(f, "program"), Optional(f, "program_data")>>
<1>1. Vector(named) /\ ix.accounts = named \o more /\ Len(named) = 4
  BY DEF SetImmutableInstruction, Vector
<1>2. ASSUME NEW i \in 1 .. 4 PROVE Account(ix, i) = named[i].key
  BY <1>1, AccountsOf DEF Account
<1>3. Account(ix, 1) = f.metadata /\ Account(ix, 2) = f.authority
  BY <1>2 DEF Writable, Signing
<1> QED
  BY <1>3 DEF HandleSetImmutable

LEMMA TrimAsked ==
  ASSUME NEW f, NEW more, Vector(more), NEW rent,
         HandleTrim(TrimInstruction(f, rent, more))
  PROVE  Trim(f.authority, f.account, f.destination)
<1> DEFINE ix == TrimInstruction(f, rent, more)
           named == <<Writable(f.account), Signing(f.authority),
                      Optional(f, "program"), Optional(f, "program_data"),
                      Writable(f.destination), Readonly(rent)>>
<1>1. Vector(named) /\ ix.accounts = named \o more /\ Len(named) = 6
  BY DEF TrimInstruction, Vector
<1>2. ASSUME NEW i \in 1 .. 6 PROVE Account(ix, i) = named[i].key
  BY <1>1, AccountsOf DEF Account
<1>3. /\ Account(ix, 1) = f.account
      /\ Account(ix, 2) = f.authority
      /\ Account(ix, 5) = f.destination
  BY <1>2 DEF Writable, Signing
<1> QED
  BY <1>3 DEF HandleTrim

LEMMA CloseAsked ==
  ASSUME NEW f, NEW more, Vector(more),
         HandleClose(CloseInstruction(f, more))
  PROVE  Close(f.authority, f.account, f.destination)
<1> DEFINE ix == CloseInstruction(f, more)
           named == <<Writable(f.account), Signing(f.authority),
                      Optional(f, "program"), Optional(f, "program_data"),
                      Writable(f.destination)>>
<1>1. Vector(named) /\ ix.accounts = named \o more /\ Len(named) = 5
  BY DEF CloseInstruction, Vector
<1>2. ASSUME NEW i \in 1 .. 5 PROVE Account(ix, i) = named[i].key
  BY <1>1, AccountsOf DEF Account
<1>3. /\ Account(ix, 1) = f.account
      /\ Account(ix, 2) = f.authority
      /\ Account(ix, 5) = f.destination
  BY <1>2 DEF Writable, Signing
<1> QED
  BY <1>3 DEF HandleClose

LEMMA ExtendAsked ==
  ASSUME NEW f, NEW more, Vector(more),
         HandleExtend(ExtendInstruction(f, more))
  PROVE  Extend(f.authority, f.account, f.length)
<1> DEFINE ix == ExtendInstruction(f, more)
           named == <<Writable(f.account), Signing(f.authority),
                      Optional(f, "program"), Optional(f, "program_data")>>
<1>1. Vector(named) /\ ix.accounts = named \o more /\ Len(named) = 4
  BY DEF ExtendInstruction, Vector
<1>2. ASSUME NEW i \in 1 .. 4 PROVE Account(ix, i) = named[i].key
  BY <1>1, AccountsOf DEF Account
<1>3. /\ Account(ix, 1) = f.account
      /\ Account(ix, 2) = f.authority
      /\ ix.args[1] = f.length
  BY <1>2 DEF Writable, Signing, ExtendInstruction
<1> QED
  BY <1>3 DEF HandleExtend

LEMMA SetAuthorityAsked ==
  ASSUME NEW f, NEW more, Vector(more),
         HandleSetAuthority(SetAuthorityInstruction(f, more))
  PROVE  AskedSetAuthority(f)
<1> DEFINE ix == SetAuthorityInstruction(f, more)
           named == <<Writable(f.account), Signing(f.authority),
                      Optional(f, "program"), Optional(f, "program_data")>>
<1>1. Vector(named) /\ ix.accounts = named \o more /\ Len(named) = 4
  BY DEF SetAuthorityInstruction, Vector
<1>2. ASSUME NEW i \in 1 .. 4 PROVE Account(ix, i) = named[i].key
  BY <1>1, AccountsOf DEF Account
<1>3. Account(ix, 1) = f.account /\ Account(ix, 2) = f.authority
  BY <1>2 DEF Writable, Signing
<1>4. CASE "new_authority" \in DOMAIN f
  <2>1. ix.args[1] = 1 /\ ix.args[2] = f.new_authority
    BY <1>4 DEF SetAuthorityInstruction, OptionAddress
  <2> QED
    BY <1>3, <1>4, <2>1 DEF HandleSetAuthority, AskedSetAuthority
<1>5. CASE "new_authority" \notin DOMAIN f
  <2>1. ix.args[1] = 0
    BY <1>5 DEF SetAuthorityInstruction, OptionAddress
  <2> QED
    BY <1>3, <1>5, <2>1 DEF HandleSetAuthority, AskedSetAuthority
<1> QED
  BY <1>4, <1>5

LEMMA WriteAsked ==
  ASSUME NEW f, NEW more, Vector(more), f.data # <<>> => Carried(f.data) # <<>>,
         HandleWrite(WriteInstruction(f, more))
  PROVE  AskedWrite(f)
<1> DEFINE ix == WriteInstruction(f, more)
           named == <<Writable(f.buffer), Signing(f.authority),
                      Optional(f, "source_buffer")>>
<1>1. Vector(named) /\ ix.accounts = named \o more /\ Len(named) = 3
  BY DEF WriteInstruction, Vector
<1>2. ASSUME NEW i \in 1 .. 3 PROVE Account(ix, i) = named[i].key
  BY <1>1, AccountsOf DEF Account
<1>3. /\ Account(ix, 1) = f.buffer /\ Account(ix, 2) = f.authority
      /\ Account(ix, 3) = IF Has(f, "source_buffer") THEN f.source_buffer ELSE Id
      /\ ix.args[1] = f.offset
  BY <1>2 DEF Writable, Signing, Optional, Readonly, Has, WriteInstruction
<1>4. \/ f.data = <<>> /\ ix.rest = <<>>
      \/ f.data # <<>> /\ ix.rest = Carried(f.data) /\ ix.rest # <<>>
  BY DEF WriteInstruction, RemainderOptionBytes, Carried
<1>5. CASE ix.rest # <<>> /\ Account(ix, 3) = Id /\ WriteData(f.authority, f.buffer, f.offset, ix.rest)
  BY <1>3, <1>4, <1>5 DEF Has, AskedWrite
<1>6. CASE ix.rest = <<>> /\ Account(ix, 3) \in Address
           /\ WriteFromBuffer(f.authority, f.buffer, f.offset, Account(ix, 3))
  BY <1>3, <1>4, <1>6, SpecialAccounts DEF Has, AskedWrite
<1> QED
  BY <1>3, <1>5, <1>6 DEF HandleWrite

LEMMA SetDataAsked ==
  ASSUME NEW f, NEW more, Vector(more), f.data # <<>> => Carried(f.data) # <<>>,
         HandleSetData(SetDataInstruction(f, more))
  PROVE  AskedSetData(f)
<1> DEFINE ix == SetDataInstruction(f, more)
           named == <<Writable(f.metadata), Signing(f.authority),
                      OptionalWritable(f, "buffer"), Optional(f, "program"),
                      Optional(f, "program_data")>>
<1>1. Vector(named) /\ ix.accounts = named \o more /\ Len(named) = 5
  BY DEF SetDataInstruction, Vector
<1>2. ASSUME NEW i \in 1 .. 5 PROVE Account(ix, i) = named[i].key
  BY <1>1, AccountsOf DEF Account
<1>3. /\ Account(ix, 1) = f.metadata /\ Account(ix, 2) = f.authority
      /\ Account(ix, 3) = IF Has(f, "buffer") THEN f.buffer ELSE Id
      /\ ix.args = <<f.codec, f.data_source>>
  BY <1>2 DEF Writable, Signing, OptionalWritable, Readonly, Has, SetDataInstruction
<1>4. \/ f.data = <<>> /\ ix.rest = <<>>
      \/ f.data # <<>> /\ ix.rest = Carried(f.data) /\ ix.rest # <<>>
  BY DEF SetDataInstruction, RemainderOptionBytes, Carried
<1>5. CASE ix.rest # <<>> /\ Account(ix, 3) = Id
           /\ SetData(f.authority, f.metadata, f.codec, f.data_source, ix.rest)
  BY <1>3, <1>4, <1>5 DEF Has, AskedSetData
<1>6. CASE ix.rest = <<>> /\ Account(ix, 3) \in Address
           /\ SetDataFromBuffer(f.authority, f.metadata, f.codec, f.data_source, Account(ix, 3))
  BY <1>3, <1>4, <1>6, SpecialAccounts DEF Has, AskedSetData
<1> QED
  BY <1>3, <1>5, <1>6 DEF HandleSetData

LEMMA InitializeAsked ==
  ASSUME NEW f, NEW more, Vector(more), f.data # <<>> => Carried(f.data) # <<>>,
         HandleInitialize(InitializeInstruction(f, more))
  PROVE  AskedInitialize(f)
<1> DEFINE ix == InitializeInstruction(f, more)
           named == <<Writable(f.metadata), Signing(f.authority),
                      Readonly(f.program), Optional(f, "program_data"),
                      Optional(f, "system")>>
<1>1. Vector(named) /\ ix.accounts = named \o more /\ Len(named) = 5
  BY DEF InitializeInstruction, Vector
<1>2. ASSUME NEW i \in 1 .. 5 PROVE Account(ix, i) = named[i].key
  BY <1>1, AccountsOf DEF Account
<1>3. /\ Account(ix, 1) = f.metadata /\ Account(ix, 2) = f.authority
      /\ Account(ix, 3) = f.program
      /\ (Account(ix, 4) # Id) = Has(f, "program_data")
      /\ ix.args = <<f.seed, f.codec, f.data_source>>
  BY <1>2 DEF Writable, Signing, Readonly, Optional, Has, InitializeInstruction
<1>4. ix.rest = IF f.data = <<>> THEN <<>> ELSE Carried(f.data)
  BY DEF InitializeInstruction, RemainderOptionBytes, Carried
<1> DEFINE k == f.authority
           p == f.program
           supplied == Has(f, "program_data")
           payload == IF f.data = <<>> THEN <<>> ELSE Carried(f.data)
<1>5. Initialize(k, p, f.seed, supplied, f.codec, f.data_source, payload)
  BY <1>3, <1>4 DEF HandleInitialize
<1>6. PICK canonical \in IsProgramAuthority(p, supplied, k) :
        f.metadata = DerivedPda(canonical, p, k, f.seed)
  <2>1. PICK canonical \in NamedProgramAuthority(p, Account(ix, 4), k) :
          f.metadata = DerivedPda(canonical, p, k, f.seed)
    BY <1>3 DEF HandleInitialize
  <2> QED
    BY <1>3, <2>1, NamedIsSupplied
<1>7. PICK other \in IsProgramAuthority(p, supplied, k) :
        \E r : Put(k, DerivedPda(other, p, k, f.seed), r)
  BY <1>5 DEF Initialize
<1>8. other = canonical
  BY <1>6, <1>7, AuthorityIsDetermined DEF Has
<1> QED
  BY <1>5, <1>6, <1>7, <1>8, PutOnlyChanges DEF AskedInitialize

LEMMA AllocateAsked ==
  ASSUME NEW f, NEW more, Vector(more),
         HandleAllocate(AllocateInstruction(f, more))
  PROVE  AskedAllocate(f)
<1> DEFINE ix == AllocateInstruction(f, more)
           named == <<Writable(f.buffer), Signing(f.authority),
                      Optional(f, "program"), Optional(f, "program_data"),
                      Optional(f, "system")>>
<1>1. Vector(named) /\ ix.accounts = named \o more /\ Len(named) = 5
  BY DEF AllocateInstruction, Vector
<1>2. ASSUME NEW i \in 1 .. 5 PROVE Account(ix, i) = named[i].key
  BY <1>1, AccountsOf DEF Account
<1>3. /\ Account(ix, 1) = f.buffer /\ Account(ix, 2) = f.authority
      /\ Account(ix, 3) = IF Has(f, "program") THEN f.program ELSE Id
      /\ (Account(ix, 4) # Id) = Has(f, "program_data")
      /\ ix.args = f.seed
  BY <1>2 DEF Writable, Signing, Readonly, Optional, Has, AllocateInstruction,
              RemainderOptionSeed
<1> DEFINE k == f.authority
           p == Account(ix, 3)
           s == f.seed[1]
           supplied == Has(f, "program_data")
<1>4. CASE f.buffer = k /\ f.seed = <<>> /\ AllocateKeypair(k)
  BY <1>4 DEF AskedAllocate
<1>5. CASE /\ f.buffer # k /\ Len(f.seed) = 1 /\ p \in Program
           /\ \E canonical \in NamedProgramAuthority(p, Account(ix, 4), k) :
                f.buffer = DerivedPda(canonical, p, k, s)
           /\ AllocatePda(k, p, s, supplied)
  <2>1. p = f.program /\ Has(f, "program") /\ f.seed # <<>>
    BY <1>3, <1>5, SpecialAccounts
  <2>2. PICK canonical \in IsProgramAuthority(p, supplied, k) :
          f.buffer = DerivedPda(canonical, p, k, s)
    BY <1>3, <1>5, NamedIsSupplied
  <2>3. PICK other \in IsProgramAuthority(p, supplied, k) :
          \E r : Put(k, DerivedPda(other, p, k, s), r)
    BY <1>5 DEF AllocatePda
  <2>4. other = canonical
    BY <2>2, <2>3, AuthorityIsDetermined DEF Has
  <2> QED
    BY <1>5, <2>1, <2>2, <2>3, <2>4, PutOnlyChanges DEF AskedAllocate
<1> QED
  BY <1>3, <1>4, <1>5 DEF HandleAllocate

-----------------------------------------------------------------------------
(* Requests, sent or invoked: the discriminator the client writes selects  *)
(* the handler of the instruction.                                         *)

LEMMA Fields ==
  ASSUME NEW q \in Request
  PROVE  /\ Vector(q.remaining) /\ Vector(FromTuples(q.remaining))
         /\ "data" \in DOMAIN q.fields /\ q.fields.data # <<>> => Carried(q.fields.data) # <<>>
<1>1. Vector(q.remaining)
  BY RequestAssumption DEF Vector
<1> QED
  BY <1>1, TuplesAreVector, RequestAssumption

LEMMA WriteServed ==
  ASSUME NEW q \in Request, q.name = "write", Submit(q) \/ Invoke(q)
  PROVE  Asked(q)
<1>1. /\ Instruction(q) = WriteBuilder(q.fields, q.remaining)
      /\ Invocation(q) = WriteCpiBuilder(q.fields, q.remaining)
  BY DEF Instruction, Invocation
<1>2. PICK more :
        /\ Vector(more)
        /\ "data" \in DOMAIN q.fields
        /\ ProcessInstruction(WriteInstruction(q.fields, more))
  BY <1>1, Fields DEF Submit, Invoke, WriteBuilder, WriteCpiBuilder, WriteCpi, Built
<1>3. HandleWrite(WriteInstruction(q.fields, more))
  BY <1>2 DEF ProcessInstruction, WriteInstruction
<1> QED
  BY <1>2, <1>3, WriteAsked, Fields DEF Asked

LEMMA InitializeServed ==
  ASSUME NEW q \in Request, q.name = "initialize", Submit(q) \/ Invoke(q)
  PROVE  Asked(q)
<1>1. /\ Instruction(q) = InitializeBuilder(q.fields, q.remaining)
      /\ Invocation(q) = InitializeCpiBuilder(q.fields, q.remaining)
  BY DEF Instruction, Invocation
<1>2. PICK more :
        /\ Vector(more)
        /\ "data" \in DOMAIN q.fields
        /\ ProcessInstruction(InitializeInstruction(q.fields, more))
  BY <1>1, Fields DEF Submit, Invoke, InitializeBuilder, InitializeCpiBuilder, InitializeCpi, Built
<1>3. HandleInitialize(InitializeInstruction(q.fields, more))
  BY <1>2 DEF ProcessInstruction, InitializeInstruction
<1> QED
  BY <1>2, <1>3, InitializeAsked, Fields DEF Asked

LEMMA SetAuthorityServed ==
  ASSUME NEW q \in Request, q.name = "set_authority", Submit(q) \/ Invoke(q)
  PROVE  Asked(q)
<1>1. /\ Instruction(q) = SetAuthorityBuilder(q.fields, q.remaining)
      /\ Invocation(q) = SetAuthorityCpiBuilder(q.fields, q.remaining)
  BY DEF Instruction, Invocation
<1>2. PICK more :
        /\ Vector(more)
        /\ ProcessInstruction(SetAuthorityInstruction(q.fields, more))
  BY <1>1, Fields DEF Submit, Invoke, SetAuthorityBuilder, SetAuthorityCpiBuilder, SetAuthorityCpi, Built
<1>3. HandleSetAuthority(SetAuthorityInstruction(q.fields, more))
  BY <1>2 DEF ProcessInstruction, SetAuthorityInstruction
<1> QED
  BY <1>2, <1>3, SetAuthorityAsked DEF Asked

LEMMA SetDataServed ==
  ASSUME NEW q \in Request, q.name = "set_data", Submit(q) \/ Invoke(q)
  PROVE  Asked(q)
<1>1. /\ Instruction(q) = SetDataBuilder(q.fields, q.remaining)
      /\ Invocation(q) = SetDataCpiBuilder(q.fields, q.remaining)
  BY DEF Instruction, Invocation
<1>2. PICK more :
        /\ Vector(more)
        /\ "data" \in DOMAIN q.fields
        /\ ProcessInstruction(SetDataInstruction(q.fields, more))
  BY <1>1, Fields DEF Submit, Invoke, SetDataBuilder, SetDataCpiBuilder, SetDataCpi, Built
<1>3. HandleSetData(SetDataInstruction(q.fields, more))
  BY <1>2 DEF ProcessInstruction, SetDataInstruction
<1> QED
  BY <1>2, <1>3, SetDataAsked, Fields DEF Asked

LEMMA SetImmutableServed ==
  ASSUME NEW q \in Request, q.name = "set_immutable", Submit(q) \/ Invoke(q)
  PROVE  Asked(q)
<1>1. /\ Instruction(q) = SetImmutableBuilder(q.fields, q.remaining)
      /\ Invocation(q) = SetImmutableCpiBuilder(q.fields, q.remaining)
  BY DEF Instruction, Invocation
<1>2. PICK more :
        /\ Vector(more)
        /\ ProcessInstruction(SetImmutableInstruction(q.fields, more))
  BY <1>1, Fields DEF Submit, Invoke, SetImmutableBuilder, SetImmutableCpiBuilder, SetImmutableCpi, Built
<1>3. HandleSetImmutable(SetImmutableInstruction(q.fields, more))
  BY <1>2 DEF ProcessInstruction, SetImmutableInstruction
<1> QED
  BY <1>2, <1>3, SetImmutableAsked DEF Asked

LEMMA TrimServed ==
  ASSUME NEW q \in Request, q.name = "trim", Submit(q) \/ Invoke(q)
  PROVE  Asked(q)
<1>1. /\ Instruction(q) = TrimBuilder(q.fields, q.remaining)
      /\ Invocation(q) = TrimCpiBuilder(q.fields, q.remaining)
  BY DEF Instruction, Invocation
<1>2. PICK rent, more :
        /\ Vector(more)
        /\ ProcessInstruction(TrimInstruction(q.fields, rent, more))
  BY <1>1, Fields DEF Submit, Invoke, TrimBuilder, TrimCpiBuilder, TrimCpi, Built
<1>3. HandleTrim(TrimInstruction(q.fields, rent, more))
  BY <1>2 DEF ProcessInstruction, TrimInstruction
<1> QED
  BY <1>2, <1>3, TrimAsked DEF Asked

LEMMA CloseServed ==
  ASSUME NEW q \in Request, q.name = "close", Submit(q) \/ Invoke(q)
  PROVE  Asked(q)
<1>1. /\ Instruction(q) = CloseBuilder(q.fields, q.remaining)
      /\ Invocation(q) = CloseCpiBuilder(q.fields, q.remaining)
  BY DEF Instruction, Invocation
<1>2. PICK more :
        /\ Vector(more)
        /\ ProcessInstruction(CloseInstruction(q.fields, more))
  BY <1>1, Fields DEF Submit, Invoke, CloseBuilder, CloseCpiBuilder, CloseCpi, Built
<1>3. HandleClose(CloseInstruction(q.fields, more))
  BY <1>2 DEF ProcessInstruction, CloseInstruction
<1> QED
  BY <1>2, <1>3, CloseAsked DEF Asked

LEMMA AllocateServed ==
  ASSUME NEW q \in Request, q.name = "allocate", Submit(q) \/ Invoke(q)
  PROVE  Asked(q)
<1>1. /\ Instruction(q) = AllocateBuilder(q.fields, q.remaining)
      /\ Invocation(q) = AllocateCpiBuilder(q.fields, q.remaining)
  BY DEF Instruction, Invocation
<1>2. PICK more :
        /\ Vector(more)
        /\ ProcessInstruction(AllocateInstruction(q.fields, more))
  BY <1>1, Fields DEF Submit, Invoke, AllocateBuilder, AllocateCpiBuilder, AllocateCpi, Built
<1>3. HandleAllocate(AllocateInstruction(q.fields, more))
  BY <1>2 DEF ProcessInstruction, AllocateInstruction
<1> QED
  BY <1>2, <1>3, AllocateAsked DEF Asked

LEMMA ExtendServed ==
  ASSUME NEW q \in Request, q.name = "extend", Submit(q) \/ Invoke(q)
  PROVE  Asked(q)
<1>1. /\ Instruction(q) = ExtendBuilder(q.fields, q.remaining)
      /\ Invocation(q) = ExtendCpiBuilder(q.fields, q.remaining)
  BY DEF Instruction, Invocation
<1>2. PICK more :
        /\ Vector(more)
        /\ ProcessInstruction(ExtendInstruction(q.fields, more))
  BY <1>1, Fields DEF Submit, Invoke, ExtendBuilder, ExtendCpiBuilder, ExtendCpi, Built
<1>3. HandleExtend(ExtendInstruction(q.fields, more))
  BY <1>2 DEF ProcessInstruction, ExtendInstruction
<1> QED
  BY <1>2, <1>3, ExtendAsked DEF Asked

LEMMA ServedIsAsked ==
  ASSUME NEW q \in Request, Submit(q) \/ Invoke(q)
  PROVE  Asked(q)
<1> QED
  BY RequestAssumption, WriteServed, InitializeServed, SetAuthorityServed,
     SetDataServed, SetImmutableServed, TrimServed, CloseServed,
     AllocateServed, ExtendServed DEF Name

\* Whatever is asked of the client, and whichever optional accounts are left out or
\* wrong, the program does that or nothing (generated/instructions/*.rs against
\* entrypoint.rs and processor/*.rs).
THEOREM OnlyAskedIsDone == ClientSpec => OnlyWhatWasAsked
<1>1. ClientNext => (served' # None => Asked(served'))
  BY ServedIsAsked DEF ClientNext
<1>2. [ClientNext]_clientVars => [served' # None => Asked(served')]_clientVars
  BY <1>1
<1> QED
  BY <1>2, PTL DEF ClientSpec, OnlyWhatWasAsked

-----------------------------------------------------------------------------
(* The other way round: what can be done can be asked for.  Each           *)
(* instruction has a lemma: where the accounts it needs are given, nothing *)
(* in the handler refuses what its action allows.                          *)

\* Accounts have the header's fields, whatever is in them.
Shaped ==
  /\ DOMAIN acct = Address
  /\ \A a \in Address : DOMAIN acct[a] = DOMAIN Vacant(0)

\* validate_authority accepts whoever may manage the account, if its program is named.
LEMMA NamedIsAuthorized ==
  ASSUME NEW ix, NEW f, NEW a, NEW k, ValidAuthority(acct[a], k), NamesProgramOf(f, a),
         IsSigner(ix, k)
  PROVE  Authorized(ix, acct[a], k, Optional(f, "program").key, Optional(f, "program_data").key)
<1>1. CASE acct[a].authority = k
  BY <1>1 DEF Authorized
<1>2. CASE /\ acct[a].canonical /\ acct[a].program \in Program
           /\ TRUE \in IsProgramAuthority(acct[a].program, TRUE, k)
  <2>1. /\ Optional(f, "program").key = acct[a].program
        /\ Optional(f, "program_data").key = ProgramData[acct[a].program]
    BY <1>2 DEF NamesProgramOf, Gives, Optional, Readonly
  <2>2. TRUE \in NamedProgramAuthority(acct[a].program, ProgramData[acct[a].program], k)
    BY <1>2, SpecialAccounts DEF NamedProgramAuthority
  <2> QED
    BY <1>2, <2>1, <2>2 DEF Authorized
<1> QED
  BY <1>1, <1>2 DEF ValidAuthority

\* is_program_authority gives its outcome, if the program data account fits.
LEMMA SuppliedIsNamed ==
  ASSUME NEW f, NEW k, ProgramDataFits(f),
         NEW yes \in IsProgramAuthority(f.program, Has(f, "program_data"), k)
  PROVE  yes \in NamedProgramAuthority(f.program, Optional(f, "program_data").key, k)
<1> QED
  BY SpecialAccounts
  DEF ProgramDataFits, Has, Optional, Readonly, NamedProgramAuthority

LEMMA SetImmutableAccepted ==
  ASSUME NEW f, f.metadata \in Address, NamesProgramOf(f, f.metadata),
         SetImmutable(f.authority, f.metadata)
  PROVE  HandleSetImmutable(SetImmutableInstruction(f, <<>>))
<1> DEFINE ix == SetImmutableInstruction(f, <<>>)
           named == <<Writable(f.metadata), Signing(f.authority),
                      Optional(f, "program"), Optional(f, "program_data")>>
<1>1. Vector(named) /\ ix.accounts = named \o <<>> /\ Len(named) = 4 /\ Vector(<<>>)
  BY DEF SetImmutableInstruction, Vector
<1>2. /\ Len(ix.accounts) = 4
      /\ \A i \in 1 .. 4 : i \in DOMAIN ix.accounts /\ ix.accounts[i] = named[i]
  BY <1>1, AccountsOf, Len(<<>>) = 0
<1>3. /\ Account(ix, 1) = f.metadata /\ Account(ix, 2) = f.authority
      /\ Account(ix, 3) = Optional(f, "program").key
      /\ Account(ix, 4) = Optional(f, "program_data").key
      /\ IsWritable(ix, f.metadata) /\ IsSigner(ix, f.authority)
  BY <1>2 DEF Account, Writable, Signing, IsWritable, IsSigner
<1>4. Authorized(ix, acct[f.metadata], f.authority, Account(ix, 3), Account(ix, 4))
  BY <1>3, NamedIsAuthorized DEF SetImmutable
<1> QED
  BY <1>2, <1>3, <1>4 DEF HandleSetImmutable, Changeable

LEMMA TrimAccepted ==
  ASSUME NEW f, f.account \in Address, f.destination \in Address,
         NamesProgramOf(f, f.account), Trim(f.authority, f.account, f.destination)
  PROVE  HandleTrim(TrimInstruction(f, RentId, <<>>))
<1> DEFINE ix == TrimInstruction(f, RentId, <<>>)
           named == <<Writable(f.account), Signing(f.authority),
                      Optional(f, "program"), Optional(f, "program_data"),
                      Writable(f.destination), Readonly(RentId)>>
<1>1. Vector(named) /\ ix.accounts = named \o <<>> /\ Len(named) = 6 /\ Vector(<<>>)
  BY DEF TrimInstruction, Vector
<1>2. /\ Len(ix.accounts) = 6
      /\ \A i \in 1 .. 6 : i \in DOMAIN ix.accounts /\ ix.accounts[i] = named[i]
  BY <1>1, AccountsOf, Len(<<>>) = 0, SMTT(60)
<1>3. /\ Account(ix, 1) = f.account /\ Account(ix, 2) = f.authority
      /\ Account(ix, 3) = Optional(f, "program").key
      /\ Account(ix, 4) = Optional(f, "program_data").key
      /\ Account(ix, 5) = f.destination /\ Account(ix, 6) = RentId
      /\ IsWritable(ix, f.account) /\ IsWritable(ix, f.destination)
      /\ IsSigner(ix, f.authority)
  BY <1>2 DEF Account, Writable, Signing, Readonly, IsWritable, IsSigner
<1>4. Authorized(ix, acct[f.account], f.authority, Account(ix, 3), Account(ix, 4))
  BY <1>3, NamedIsAuthorized DEF Trim, MayManage
<1> QED
  BY <1>2, <1>3, <1>4 DEF HandleTrim, Changeable

LEMMA CloseAccepted ==
  ASSUME NEW f, f.account \in Address, f.destination \in Address,
         NamesProgramOf(f, f.account), Close(f.authority, f.account, f.destination)
  PROVE  HandleClose(CloseInstruction(f, <<>>))
<1> DEFINE ix == CloseInstruction(f, <<>>)
           named == <<Writable(f.account), Signing(f.authority),
                      Optional(f, "program"), Optional(f, "program_data"),
                      Writable(f.destination)>>
<1>1. Vector(named) /\ ix.accounts = named \o <<>> /\ Len(named) = 5 /\ Vector(<<>>)
  BY DEF CloseInstruction, Vector
<1>2. /\ Len(ix.accounts) = 5
      /\ \A i \in 1 .. 5 : i \in DOMAIN ix.accounts /\ ix.accounts[i] = named[i]
  BY <1>1, AccountsOf, Len(<<>>) = 0
<1>3. /\ Account(ix, 1) = f.account /\ Account(ix, 2) = f.authority
      /\ Account(ix, 3) = Optional(f, "program").key
      /\ Account(ix, 4) = Optional(f, "program_data").key
      /\ Account(ix, 5) = f.destination
      /\ IsWritable(ix, f.account) /\ IsWritable(ix, f.destination)
      /\ IsSigner(ix, f.authority)
  BY <1>2 DEF Account, Writable, Signing, Readonly, IsWritable, IsSigner
<1>4. Authorized(ix, acct[f.account], f.authority, Account(ix, 3), Account(ix, 4))
  BY <1>3, NamedIsAuthorized DEF Close, MayManage
<1> QED
  BY <1>2, <1>3, <1>4 DEF HandleClose, Changeable

LEMMA ExtendAccepted ==
  ASSUME NEW f, NEW more, Vector(more), f.account \in Address,
         NamesProgramOf(f, f.account), Extend(f.authority, f.account, f.length)
  PROVE  HandleExtend(ExtendInstruction(f, more))
<1> DEFINE ix == ExtendInstruction(f, more)
           named == <<Writable(f.account), Signing(f.authority),
                      Optional(f, "program"), Optional(f, "program_data")>>
<1>1. Vector(named) /\ ix.accounts = named \o more /\ Len(named) = 4
  BY DEF ExtendInstruction, Vector
<1>2. /\ Len(ix.accounts) >= 4
      /\ \A i \in 1 .. 4 : i \in DOMAIN ix.accounts /\ ix.accounts[i] = named[i]
  BY <1>1, AccountsOf
<1>3. /\ Account(ix, 1) = f.account /\ Account(ix, 2) = f.authority
      /\ Account(ix, 3) = Optional(f, "program").key
      /\ Account(ix, 4) = Optional(f, "program_data").key
      /\ IsWritable(ix, f.account) /\ IsSigner(ix, f.authority)
  BY <1>2 DEF Account, Writable, Signing, IsWritable, IsSigner
<1>4. Authorized(ix, acct[f.account], f.authority, Account(ix, 3), Account(ix, 4))
  BY <1>3, NamedIsAuthorized DEF Extend, MayManage
<1>5. ix.args = <<f.length>>
  BY DEF ExtendInstruction
<1> QED
  BY <1>2, <1>3, <1>4, <1>5 DEF HandleExtend, Changeable

LEMMA SetAuthorityAccepted ==
  ASSUME NEW f, f.account \in Address, NamesProgramOf(f, f.account), AskedSetAuthority(f),
         "new_authority" \in DOMAIN f => f.new_authority # None
  PROVE  HandleSetAuthority(SetAuthorityInstruction(f, <<>>))
<1> DEFINE ix == SetAuthorityInstruction(f, <<>>)
           named == <<Writable(f.account), Signing(f.authority),
                      Optional(f, "program"), Optional(f, "program_data")>>
           new == IF "new_authority" \in DOMAIN f THEN f.new_authority ELSE None
<1>1. Vector(named) /\ ix.accounts = named \o <<>> /\ Len(named) = 4 /\ Vector(<<>>)
  BY DEF SetAuthorityInstruction, Vector
<1>2. /\ Len(ix.accounts) = 4
      /\ \A i \in 1 .. 4 : i \in DOMAIN ix.accounts /\ ix.accounts[i] = named[i]
  BY <1>1, AccountsOf, Len(<<>>) = 0
<1>3. /\ Account(ix, 1) = f.account /\ Account(ix, 2) = f.authority
      /\ Account(ix, 3) = Optional(f, "program").key
      /\ Account(ix, 4) = Optional(f, "program_data").key
      /\ IsWritable(ix, f.account) /\ IsSigner(ix, f.authority)
  BY <1>2 DEF Account, Writable, Signing, IsWritable, IsSigner
<1>4. SetBufferAuthority(f.authority, f.account, new)
      \/ SetMetadataAuthority(f.authority, f.account, new)
  BY DEF AskedSetAuthority
<1>5. Authorized(ix, acct[f.account], f.authority, Account(ix, 3), Account(ix, 4))
  BY <1>3, <1>4, NamedIsAuthorized DEF SetBufferAuthority, SetMetadataAuthority
<1>6. /\ Len(ix.args) >= 1
      /\ ix.args[1] # 0 => Len(ix.args) = 2 /\ ix.args[2] # None
      /\ new = IF ix.args[1] = 0 THEN None ELSE ix.args[2]
  <2>1. CASE "new_authority" \in DOMAIN f
    <3>1. /\ ix.args[1] = 1 /\ ix.args[2] = f.new_authority /\ Len(ix.args) = 2
          /\ new = f.new_authority
      BY <2>1 DEF SetAuthorityInstruction, OptionAddress
    <3> HIDE DEF ix, new
    <3> QED
      BY <2>1, <3>1
  <2>2. CASE "new_authority" \notin DOMAIN f
    <3>1. ix.args[1] = 0 /\ Len(ix.args) = 1 /\ new = None
      BY <2>2 DEF SetAuthorityInstruction, OptionAddress
    <3> HIDE DEF ix, new
    <3> QED
      BY <2>2, <3>1
  <2> QED
    BY <2>1, <2>2
<1> HIDE DEF ix, named, new
<1> QED
  BY <1>2, <1>3, <1>4, <1>5, <1>6 DEF HandleSetAuthority, Changeable, ix

LEMMA WriteAccepted ==
  ASSUME NEW f, NEW more, Vector(more), f.data # <<>> => Carried(f.data) # <<>>,
         f.buffer \in Address,
         "source_buffer" \in DOMAIN f => f.source_buffer \in Address, AskedWrite(f)
  PROVE  HandleWrite(WriteInstruction(f, more))
<1> DEFINE ix == WriteInstruction(f, more)
           named == <<Writable(f.buffer), Signing(f.authority),
                      Optional(f, "source_buffer")>>
<1>1. Vector(named) /\ ix.accounts = named \o more /\ Len(named) = 3
  BY DEF WriteInstruction, Vector
<1>2. /\ Len(ix.accounts) >= 3
      /\ \A i \in 1 .. 3 : i \in DOMAIN ix.accounts /\ ix.accounts[i] = named[i]
  BY <1>1, AccountsOf
<1>3. /\ Account(ix, 1) = f.buffer /\ Account(ix, 2) = f.authority
      /\ Account(ix, 3) = IF Has(f, "source_buffer") THEN f.source_buffer ELSE Id
      /\ IsWritable(ix, f.buffer) /\ IsSigner(ix, f.authority)
      /\ ix.args = <<f.offset>>
  BY <1>2 DEF Account, Writable, Signing, Optional, Readonly, IsWritable, IsSigner, Has,
              WriteInstruction
<1>4. ix.rest = IF f.data = <<>> THEN <<>> ELSE Carried(f.data)
  BY DEF WriteInstruction, RemainderOptionBytes, Carried
<1>5. \/ ix.rest # <<>> /\ Account(ix, 3) = Id
         /\ WriteData(f.authority, f.buffer, f.offset, ix.rest)
      \/ ix.rest = <<>> /\ Account(ix, 3) \in Address
         /\ WriteFromBuffer(f.authority, f.buffer, f.offset, Account(ix, 3))
  BY <1>3, <1>4 DEF AskedWrite, Has
<1> QED
  BY <1>2, <1>3, <1>5 DEF HandleWrite, Changeable

LEMMA SetDataAccepted ==
  ASSUME NEW f, NEW more, Vector(more), f.data # <<>> => Carried(f.data) # <<>>,
         f.metadata \in Address, NamesProgramOf(f, f.metadata),
         f.data # <<>> \/ Has(f, "buffer"),
         "buffer" \in DOMAIN f => f.buffer \in Address, AskedSetData(f)
  PROVE  HandleSetData(SetDataInstruction(f, more))
<1> DEFINE ix == SetDataInstruction(f, more)
           named == <<Writable(f.metadata), Signing(f.authority),
                      OptionalWritable(f, "buffer"), Optional(f, "program"),
                      Optional(f, "program_data")>>
<1>1. Vector(named) /\ ix.accounts = named \o more /\ Len(named) = 5
  BY DEF SetDataInstruction, Vector
<1>2. /\ Len(ix.accounts) >= 5
      /\ \A i \in 1 .. 5 : i \in DOMAIN ix.accounts /\ ix.accounts[i] = named[i]
  BY <1>1, AccountsOf
<1>3. /\ Account(ix, 1) = f.metadata /\ Account(ix, 2) = f.authority
      /\ Account(ix, 3) = IF Has(f, "buffer") THEN f.buffer ELSE Id
      /\ Account(ix, 4) = Optional(f, "program").key
      /\ Account(ix, 5) = Optional(f, "program_data").key
      /\ IsWritable(ix, f.metadata) /\ IsSigner(ix, f.authority)
      /\ ix.args = <<f.codec, f.data_source>>
  BY <1>2 DEF Account, Writable, Signing, OptionalWritable, Readonly, IsWritable, IsSigner,
              Has, SetDataInstruction
<1>4. ix.rest = IF f.data = <<>> THEN <<>> ELSE Carried(f.data)
  BY DEF SetDataInstruction, RemainderOptionBytes, Carried
<1>5. Authorized(ix, acct[f.metadata], f.authority, Account(ix, 4), Account(ix, 5))
  BY <1>3, NamedIsAuthorized DEF AskedSetData, SetData, SetDataFromBuffer, SetBytes
<1>6. \/ ix.rest # <<>> /\ Account(ix, 3) = Id
         /\ SetData(f.authority, f.metadata, f.codec, f.data_source, ix.rest)
      \/ ix.rest = <<>> /\ Account(ix, 3) \in Address
         /\ SetDataFromBuffer(f.authority, f.metadata, f.codec, f.data_source, Account(ix, 3))
  BY <1>3, <1>4 DEF AskedSetData, Has
<1>7. ix.args[1] = f.codec /\ ix.args[2] = f.data_source /\ Len(ix.args) = 2
  BY <1>3
<1> HIDE DEF ix, named
<1> QED
  BY <1>2, <1>3, <1>5, <1>6, <1>7 DEF HandleSetData, Changeable, ix

\* An address derived from what is followed is followed.
LEMMA DerivedIsFollowed ==
  ASSUME NEW p \in Program, NEW k \in Signer, NEW s \in Seed, NEW canonical
  PROVE  DerivedPda(canonical, p, k, s) \in Address
<1> QED
  BY DEF DerivedPda, Address, Pda

\* The account an instruction puts something else into is the one it was asked to change.
LEMMA ChangedIsAsked ==
  ASSUME Shaped, NEW k, NEW m \in Address, NEW r, Put(k, m, r), r # acct[m],
         NEW a, OnlyChanges(a)
  PROVE  a = m
<1>1. acct'[m] = r
  BY DEF Put, Shaped
<1> QED
  BY <1>1 DEF OnlyChanges

\* The handler finds the system program, and the account to derive, with the outcome of
\* is_program_authority.
LEMMA InitializeAccepted ==
  ASSUME Shaped, NEW f, NEW more, Vector(more),
         f.data # <<>> => Carried(f.data) # <<>>,
         f.authority \in Signer, f.program \in Program, f.seed \in Seed,
         ProgramDataFits(f), Gives(f, "system", SystemId), AskedInitialize(f)
  PROVE  HandleInitialize(InitializeInstruction(f, more))
<1> DEFINE ix == InitializeInstruction(f, more)
           named == <<Writable(f.metadata), Signing(f.authority),
                      Readonly(f.program), Optional(f, "program_data"),
                      Optional(f, "system")>>
           k == f.authority
           p == f.program
           supplied == Has(f, "program_data")
           payload == IF f.data = <<>> THEN <<>> ELSE Carried(f.data)
<1>1. Vector(named) /\ ix.accounts = named \o more /\ Len(named) = 5
  BY DEF InitializeInstruction, Vector
<1>2. /\ Len(ix.accounts) >= 5
      /\ \A i \in 1 .. 5 : i \in DOMAIN ix.accounts /\ ix.accounts[i] = named[i]
  BY <1>1, AccountsOf
<1>3. /\ Account(ix, 1) = f.metadata /\ Account(ix, 2) = k /\ Account(ix, 3) = p
      /\ Account(ix, 4) = Optional(f, "program_data").key
      /\ Account(ix, 5) = SystemId
      /\ IsWritable(ix, f.metadata) /\ IsSigner(ix, k)
      /\ (Account(ix, 4) # Id) = supplied
  BY <1>2 DEF Account, Writable, Signing, Optional, Readonly, IsWritable, IsSigner, Has, Gives
<1>4. /\ ix.args[1] = f.seed /\ ix.args[2] = f.codec /\ ix.args[3] = f.data_source
      /\ Len(ix.args) = 3 /\ ix.rest = payload
  BY DEF InitializeInstruction, RemainderOptionBytes, Carried
<1>5. Initialize(k, p, f.seed, supplied, f.codec, f.data_source, payload)
      /\ OnlyChanges(f.metadata)
  BY DEF AskedInitialize
<1> HIDE DEF ix, named, payload
<1>6. PICK canonical \in IsProgramAuthority(p, supplied, k) :
        LET m    == DerivedPda(canonical, p, k, f.seed)
            body == IF IsVacant(acct[m]) THEN payload ELSE acct[m].body
        IN  /\ ValidBuffer(acct[m]) \/ IsVacant(acct[m])
            /\ Put(k, m, MetadataHeader([acct[m] EXCEPT !.body = body], k, p, f.seed,
                                        canonical, f.codec, f.data_source))
  BY <1>5 DEF Initialize
<1> DEFINE m == DerivedPda(canonical, p, k, f.seed)
           body == IF IsVacant(acct[m]) THEN payload ELSE acct[m].body
           r == MetadataHeader([acct[m] EXCEPT !.body = body], k, p, f.seed,
                               canonical, f.codec, f.data_source)
<1>7. m \in Address
  BY DerivedIsFollowed
<1>8. Put(k, m, r) /\ (ValidBuffer(acct[m]) \/ IsVacant(acct[m]))
  BY <1>6
<1>9. r # acct[m]
  <2> HIDE DEF m, body
  <2>1. "discriminator" \in DOMAIN acct[m] /\ "owner" \in DOMAIN acct[m]
    BY <1>7 DEF Shaped, Vacant, Zeroed
  <2>2. r.discriminator = "Metadata" /\ r.owner = "self"
    BY <2>1 DEF MetadataHeader
  <2> HIDE DEF r
  <2> QED
    BY <1>8, <2>2 DEF ValidBuffer, IsVacant
<1>10. f.metadata = m
  <2> HIDE DEF m, r
  <2> QED
    BY <1>5, <1>7, <1>8, <1>9, ChangedIsAsked
<1>11. canonical \in NamedProgramAuthority(p, Account(ix, 4), k)
  BY <1>3, SuppliedIsNamed
<1>12. \E i \in DOMAIN ix.accounts : Account(ix, i) = SystemId
  BY <1>2, <1>3
<1>13. Changeable(ix, 1)
  BY <1>3, <1>7, <1>10 DEF Changeable
<1>14. \E c \in NamedProgramAuthority(p, Account(ix, 4), k) :
         Account(ix, 1) = DerivedPda(c, p, k, ix.args[1])
  BY <1>3, <1>4, <1>10, <1>11
<1>15. Initialize(k, p, ix.args[1], Account(ix, 4) # Id, ix.args[2], ix.args[3], ix.rest)
  BY <1>3, <1>4, <1>5
<1>16. HandleInitialize(ix)
  BY <1>2, <1>3, <1>4, <1>12, <1>13, <1>14, <1>15 DEF HandleInitialize, SystemCallable
<1> QED
  BY <1>16 DEF ix

LEMMA AllocateAccepted ==
  ASSUME Shaped, NEW f, NEW more, Vector(more), f.authority \in Signer, f.buffer \in Address,
         "program" \in DOMAIN f => f.program \in Program,
         f.seed \in {<<>>} \cup {<<s>> : s \in Seed},
         ProgramDataFits(f), Gives(f, "system", SystemId), AskedAllocate(f)
  PROVE  HandleAllocate(AllocateInstruction(f, more))
<1> DEFINE ix == AllocateInstruction(f, more)
           named == <<Writable(f.buffer), Signing(f.authority),
                      Optional(f, "program"), Optional(f, "program_data"),
                      Optional(f, "system")>>
           k == f.authority
           supplied == Has(f, "program_data")
<1>1. Vector(named) /\ ix.accounts = named \o more /\ Len(named) = 5
  BY DEF AllocateInstruction, Vector
<1>2. /\ Len(ix.accounts) >= 5
      /\ \A i \in 1 .. 5 : i \in DOMAIN ix.accounts /\ ix.accounts[i] = named[i]
  BY <1>1, AccountsOf
<1>3. /\ Account(ix, 1) = f.buffer /\ Account(ix, 2) = k
      /\ Account(ix, 3) = Optional(f, "program").key
      /\ Account(ix, 4) = Optional(f, "program_data").key
      /\ Account(ix, 5) = SystemId
      /\ IsWritable(ix, f.buffer) /\ IsSigner(ix, k)
      /\ (Account(ix, 4) # Id) = supplied
  BY <1>2 DEF Account, Writable, Signing, Optional, Readonly, IsWritable, IsSigner, Has, Gives
<1>4. ix.args = f.seed
  BY DEF AllocateInstruction, RemainderOptionSeed
<1>5. \E i \in DOMAIN ix.accounts : Account(ix, i) = SystemId
  BY <1>2, <1>3
<1>6. /\ Len(ix.accounts) >= 5 /\ Changeable(ix, 1) /\ IsSigner(ix, k)
      /\ SystemCallable(ix, acct[f.buffer])
  BY <1>2, <1>3, <1>5 DEF Changeable, SystemCallable
<1> HIDE DEF ix, named
<1>7. CASE f.seed = <<>> /\ f.buffer = k /\ AllocateKeypair(k)
  <2>1. HandleAllocate(ix)
    BY <1>3, <1>4, <1>6, <1>7 DEF HandleAllocate
  <2> QED
    BY <2>1 DEF ix
<1>8. CASE /\ f.seed # <<>> /\ f.buffer # k /\ Has(f, "program")
           /\ AllocatePda(k, f.program, f.seed[1], supplied) /\ OnlyChanges(f.buffer)
  <2> DEFINE p == f.program
  <2>1. PICK s \in Seed : f.seed = <<s>>
    BY <1>8
  <2>2. p \in Program /\ Account(ix, 3) = p /\ f.seed[1] = s /\ Len(f.seed) = 1
    BY <1>3, <1>8, <2>1 DEF Has, Optional, Readonly
  <2>3. PICK canonical \in IsProgramAuthority(p, supplied, k) :
          LET b == DerivedPda(canonical, p, k, s)
          IN  /\ Claimable(acct[b], FALSE)
              /\ Put(k, b, [Claimed(acct[b]) EXCEPT !.discriminator = "Buffer",
                                                    !.authority = k,
                                                    !.program = p,
                                                    !.canonical = canonical,
                                                    !.seed = s])
    BY <1>8, <2>2 DEF AllocatePda
  <2> DEFINE b == DerivedPda(canonical, p, k, s)
             r == [Claimed(acct[b]) EXCEPT !.discriminator = "Buffer",
                                           !.authority = k,
                                           !.program = p,
                                           !.canonical = canonical,
                                           !.seed = s]
  <2>4. b \in Address /\ Claimable(acct[b], FALSE) /\ Put(k, b, r)
    BY <2>2, <2>3, DerivedIsFollowed
  <2>5. r # acct[b]
    <3> HIDE DEF b
    <3>1. "discriminator" \in DOMAIN acct[b] /\ "owner" \in DOMAIN acct[b]
      BY <2>4 DEF Shaped, Vacant, Zeroed
    <3>2. r.discriminator = "Buffer" /\ r.owner = "self"
      BY <3>1 DEF Claimed, Zeroed
    <3> HIDE DEF r
    <3> QED
      BY <2>4, <3>2 DEF Claimable, IsVacant
  <2>6. f.buffer = b
    <3> HIDE DEF b, r
    <3> QED
      BY <1>8, <2>4, <2>5, ChangedIsAsked
  <2>7. canonical \in NamedProgramAuthority(p, Account(ix, 4), k)
    BY <1>3, SuppliedIsNamed
  <2>8. \E c \in NamedProgramAuthority(p, Account(ix, 4), k) :
          f.buffer = DerivedPda(c, p, k, f.seed[1])
    BY <2>2, <2>6, <2>7
  <2>9. AllocatePda(k, p, f.seed[1], Account(ix, 4) # Id)
    BY <1>3, <1>8
  <2>10. HandleAllocate(ix)
    BY <1>3, <1>4, <1>6, <1>8, <2>2, <2>8, <2>9 DEF HandleAllocate
  <2> QED
    BY <2>10 DEF ix
<1> QED
  BY <1>7, <1>8 DEF AskedAllocate

-----------------------------------------------------------------------------
(* Whatever is asked for, and whatever anybody does, accounts keep the     *)
(* header's fields.                                                        *)

\* The fields of r are the ones of account a, or of a new account.
SameFields(r, a) == DOMAIN r = DOMAIN acct[a] \/ DOMAIN r = DOMAIN Vacant(0)

LEMMA PutShaped ==
  ASSUME Shaped, NEW k, NEW a, NEW r, Put(k, a, r), SameFields(r, a)
  PROVE  Shaped'
<1>1. DOMAIN acct' = Address /\ acct' = [acct EXCEPT ![a] = r]
  BY DEF Put, Shaped
<1>2. ASSUME NEW b \in Address PROVE DOMAIN acct'[b] = DOMAIN Vacant(0)
  <2>1. acct'[b] = IF b = a THEN r ELSE acct[b]
    BY <1>1 DEF Shaped
  <2> QED
    BY <2>1 DEF Shaped, SameFields
<1> QED
  BY <1>1, <1>2 DEF Shaped, Vacant, Zeroed

LEMMA PayOutShaped ==
  ASSUME Shaped, NEW k, NEW a, NEW r, NEW dest, NEW amount, PayOut(k, a, r, dest, amount),
         SameFields(r, a)
  PROVE  Shaped'
<1>1. /\ DOMAIN acct' = Address
      /\ acct' = [acct EXCEPT ![dest].lamports = @ + amount, ![a] = r]
  BY DEF PayOut, Shaped
<1>2. ASSUME NEW b \in Address PROVE DOMAIN acct'[b] = DOMAIN Vacant(0)
  <2>1. CASE b = a
    <3>1. acct'[b] = r
      BY <1>1, <2>1 DEF Shaped
    <3> QED
      BY <2>1, <3>1 DEF Shaped, SameFields
  <2>2. CASE b # a
    <3>1. DOMAIN acct'[b] = DOMAIN acct[b]
      BY <1>1, <2>2 DEF Shaped
    <3> QED
      BY <3>1 DEF Shaped
  <2> QED
    BY <2>1, <2>2
<1> QED
  BY <1>1, <1>2 DEF Shaped, Vacant, Zeroed

LEMMA CreateShaped ==
  ASSUME Shaped, NEW k
  PROVE  /\ AllocateKeypair(k) => Shaped'
         /\ \A p, s, supplied : AllocatePda(k, p, s, supplied) => Shaped'
         /\ \A p, s, supplied, codec, source, payload :
              Initialize(k, p, s, supplied, codec, source, payload) => Shaped'
<1>0. \A a : SameFields(Claimed(acct[a]), a)
  BY DEF Claimed, SameFields, Vacant, Zeroed
<1>1. ASSUME AllocateKeypair(k) PROVE Shaped'
  <2> DEFINE r == [Claimed(acct[k]) EXCEPT !.discriminator = "Buffer", !.authority = k]
  <2>1. Put(k, k, r) /\ SameFields(r, k)
    BY <1>0, <1>1 DEF AllocateKeypair, SameFields
  <2> HIDE DEF r
  <2> QED
    BY <2>1, PutShaped
<1>2. ASSUME NEW p, NEW s, NEW supplied, AllocatePda(k, p, s, supplied) PROVE Shaped'
  <2>1. PICK canonical :
          LET b == DerivedPda(canonical, p, k, s)
          IN  Put(k, b, [Claimed(acct[b]) EXCEPT !.discriminator = "Buffer",
                                                 !.authority = k,
                                                 !.program = p,
                                                 !.canonical = canonical,
                                                 !.seed = s])
    BY <1>2 DEF AllocatePda
  <2> DEFINE b == DerivedPda(canonical, p, k, s)
             r == [Claimed(acct[b]) EXCEPT !.discriminator = "Buffer",
                                           !.authority = k,
                                           !.program = p,
                                           !.canonical = canonical,
                                           !.seed = s]
  <2>2. Put(k, b, r)
    BY <2>1
  <2>3. SameFields(r, b)
    <3> HIDE DEF b
    <3> QED
      BY <1>0 DEF SameFields
  <2> HIDE DEF b, r
  <2> QED
    BY <2>2, <2>3, PutShaped
<1>3. ASSUME NEW p, NEW s, NEW supplied, NEW codec, NEW source, NEW payload,
             Initialize(k, p, s, supplied, codec, source, payload)
      PROVE  Shaped'
  <2>1. PICK canonical : LET m == DerivedPda(canonical, p, k, s) IN
          \E body : Put(k, m, MetadataHeader([acct[m] EXCEPT !.body = body],
                                             k, p, s, canonical, codec, source))
    BY <1>3 DEF Initialize
  <2> DEFINE m == DerivedPda(canonical, p, k, s)
  <2>2. PICK body : Put(k, m, MetadataHeader([acct[m] EXCEPT !.body = body],
                                             k, p, s, canonical, codec, source))
    BY <2>1
  <2> DEFINE r == MetadataHeader([acct[m] EXCEPT !.body = body],
                                 k, p, s, canonical, codec, source)
  <2>3. SameFields(r, m)
    <3> HIDE DEF m
    <3> QED
      BY DEF SameFields, MetadataHeader
  <2>4. Put(k, m, r)
    BY <2>2
  <2> HIDE DEF m, r
  <2> QED
    BY <2>3, <2>4, PutShaped
<1> QED
  BY <1>1, <1>2, <1>3

LEMMA FillShaped ==
  ASSUME Shaped, NEW k, NEW a
  PROVE  /\ \A offset, src : WriteBytes(k, a, offset, src) => Shaped'
         /\ \A codec : SetCodec(k, a, codec) => Shaped'
         /\ \A codec, source, data : SetBytes(k, a, codec, source, data) => Shaped'
<1>1. ASSUME NEW offset, NEW src, WriteBytes(k, a, offset, src) PROVE Shaped'
  <2> DEFINE r == [acct[a] EXCEPT !.body = Overwrite(acct[a].body, offset, src)]
  <2>1. Put(k, a, r) /\ SameFields(r, a)
    BY <1>1 DEF WriteBytes, SameFields
  <2> HIDE DEF r
  <2> QED
    BY <2>1, PutShaped
<1>2. ASSUME NEW codec, SetCodec(k, a, codec) PROVE Shaped'
  <2> DEFINE r == [acct[a] EXCEPT !.codec = codec]
  <2>1. Put(k, a, r) /\ SameFields(r, a)
    BY <1>2 DEF SetCodec, SameFields
  <2> HIDE DEF r
  <2> QED
    BY <2>1, PutShaped
<1>3. ASSUME NEW codec, NEW source, NEW data, SetBytes(k, a, codec, source, data)
      PROVE  Shaped'
  <2> DEFINE r == [acct[a] EXCEPT !.codec = codec, !.dataSource = source,
                                  !.dataLength = Len(data), !.body = data]
  <2>1. Put(k, a, r) /\ SameFields(r, a)
    BY <1>3 DEF SetBytes, SameFields
  <2> HIDE DEF r
  <2> QED
    BY <2>1, PutShaped
<1> QED
  BY <1>1, <1>2, <1>3

LEMMA GovernShaped ==
  ASSUME Shaped, NEW k, NEW a
  PROVE  /\ \A new : SetBufferAuthority(k, a, new) => Shaped'
         /\ \A new : SetMetadataAuthority(k, a, new) => Shaped'
         /\ SetImmutable(k, a) => Shaped'
<1>1. ASSUME NEW new, SetBufferAuthority(k, a, new) \/ SetMetadataAuthority(k, a, new)
      PROVE  Shaped'
  <2> DEFINE r == [acct[a] EXCEPT !.authority = new]
  <2>1. Put(k, a, r) /\ SameFields(r, a)
    BY <1>1 DEF SetBufferAuthority, SetMetadataAuthority, SameFields
  <2> HIDE DEF r
  <2> QED
    BY <2>1, PutShaped
<1>2. ASSUME SetImmutable(k, a) PROVE Shaped'
  <2> DEFINE r == [acct[a] EXCEPT !.mutable = FALSE]
  <2>1. Put(k, a, r) /\ SameFields(r, a)
    BY <1>2 DEF SetImmutable, SameFields
  <2> HIDE DEF r
  <2> QED
    BY <2>1, PutShaped
<1> QED
  BY <1>1, <1>2

LEMMA ReshapeShaped ==
  ASSUME Shaped, NEW k, NEW a
  PROVE  /\ \A n : Extend(k, a, n) => Shaped'
         /\ \A dest : Trim(k, a, dest) => Shaped'
         /\ \A dest : Close(k, a, dest) => Shaped'
<1>0. \A n : SameFields(Resized(acct[a], n), a)
  BY DEF Resized, SameFields
<1>1. ASSUME NEW n, Extend(k, a, n) PROVE Shaped'
  BY <1>0, <1>1, PutShaped DEF Extend
<1>2. ASSUME NEW dest, Trim(k, a, dest) PROVE Shaped'
  <2> DEFINE n   == TrimmedLen(acct[a])
             min == MinBalance(HeaderLen + n)
             r   == [Resized(acct[a], n) EXCEPT !.lamports = min]
  <2>1. PayOut(k, a, r, dest, acct[a].lamports - min)
    BY <1>2 DEF Trim
  <2>2. SameFields(r, a)
    <3> HIDE DEF n, min
    <3> QED
      BY <1>0 DEF SameFields
  <2> HIDE DEF n, min, r
  <2> QED
    BY <2>1, <2>2, PayOutShaped
<1>3. ASSUME NEW dest, Close(k, a, dest) PROVE Shaped'
  <2>1. SameFields(Vacant(0), a)
    BY DEF SameFields
  <2> QED
    BY <1>3, <2>1, PayOutShaped DEF Close
<1> QED
  BY <1>1, <1>2, <1>3

LEMMA SystemShaped ==
  ASSUME Shaped, NEW k \in Signer, SystemStep(k)
  PROVE  Shaped'
<1>1. ASSUME NEW to \in Address, NEW n, Transfer(k, to, n) PROVE Shaped'
  <2>1. acct' = [acct EXCEPT ![k].lamports = @ - n, ![to].lamports = @ + n]
    BY <1>1 DEF Transfer
  <2>2. DOMAIN acct' = Address /\ \A b \in Address : DOMAIN acct'[b] = DOMAIN acct[b]
    BY <2>1 DEF Shaped
  <2> QED
    BY <2>2 DEF Shaped, Vacant, Zeroed
<1>2. ASSUME NEW space, NEW owner, SystemCreate(k, space, owner) PROVE Shaped'
  <2>1. PICK h, body : Put(k, k, Zeroed(owner, acct[k].lamports, h, body))
    BY <1>2 DEF SystemCreate
  <2>2. SameFields(Zeroed(owner, acct[k].lamports, h, body), k)
    BY DEF SameFields, Vacant, Zeroed
  <2> QED
    BY <2>1, <2>2, PutShaped
<1> QED
  BY <1>1, <1>2 DEF SystemStep

LEMMA AskedShaped ==
  ASSUME Shaped, NEW q, Asked(q)
  PROVE  Shaped'
<1> DEFINE f == q.fields
<1>1. ASSUME AskedWrite(f) PROVE Shaped'
  BY <1>1, FillShaped DEF AskedWrite, WriteData, WriteFromBuffer
<1>2. ASSUME AskedInitialize(f) PROVE Shaped'
  BY <1>2, CreateShaped DEF AskedInitialize
<1>3. ASSUME AskedSetAuthority(f) PROVE Shaped'
  BY <1>3, GovernShaped DEF AskedSetAuthority
<1>4. ASSUME AskedSetData(f) PROVE Shaped'
  <2>1. CASE SetCodec(f.authority, f.metadata, f.codec)
    BY <2>1, FillShaped
  <2> HIDE DEF f
  <2> QED
    BY <1>4, <2>1, FillShaped DEF AskedSetData, SetData, SetDataFromBuffer
<1>5. ASSUME AskedAllocate(f) PROVE Shaped'
  BY <1>5, CreateShaped DEF AskedAllocate
<1> HIDE DEF f
<1> QED
  BY <1>1, <1>2, <1>3, <1>4, <1>5, GovernShaped, ReshapeShaped DEF Asked, f

LEMMA NextShaped ==
  ASSUME Shaped, Next
  PROVE  Shaped'
<1>1. CASE LoaderStep
  <2>1. acct' = acct
    BY <1>1 DEF LoaderStep, Deploy, SetUpgradeAuthority, CloseProgram, SetProgram
  <2> QED
    BY <2>1 DEF Shaped, Vacant, Zeroed
<1>2. ASSUME NEW k \in Signer, Create(k) PROVE Shaped'
  BY <1>2, CreateShaped DEF Create
<1>3. ASSUME NEW k \in Signer, NEW a \in Address, Fill(k, a) PROVE Shaped'
  BY <1>3, FillShaped DEF Fill, WriteData, WriteFromBuffer, SetData, SetDataFromBuffer
<1>4. ASSUME NEW k \in Signer, NEW a \in Address, Govern(k, a) PROVE Shaped'
  BY <1>4, GovernShaped DEF Govern
<1>5. ASSUME NEW k \in Signer, NEW a \in Address, Reshape(k, a) PROVE Shaped'
  BY <1>5, ReshapeShaped DEF Reshape
<1> QED
  BY <1>1, <1>2, <1>3, <1>4, <1>5, SystemShaped DEF Next

-----------------------------------------------------------------------------
(* Complete requests, sent or invoked.                                     *)

\* An instruction of the request that its handler accepts.
Accepted(q) == \E ix \in Instruction(q) : ProcessInstruction(ix)

\* A program that makes the request hands over whatever the instruction names.
HandsOver(q) ==
  \A ix \in Instruction(q) :
    \E cpi \in Invocation(q) :
      /\ cpi.instruction = ix /\ Id \in cpi.infos
      /\ \A i \in DOMAIN ix.accounts : Account(ix, i) \in cpi.infos

LEMMA WriteAcceptedOf ==
  ASSUME Shaped, NEW q \in Request, q.name = "write", Complete(q), Asked(q)
  PROVE  Accepted(q)
<1> DEFINE f == q.fields
           ix == WriteInstruction(f, q.remaining)
<1>1. Instruction(q) = WriteBuilder(f, q.remaining) /\ Instruction(q) # {} /\ Followed(q)
  BY DEF Instruction, Complete
<1>2. /\ {"buffer", "authority", "offset", "data"} \subseteq DOMAIN f
      /\ Instruction(q) = {ix}
  BY <1>1 DEF WriteBuilder, Built
<1>3. AskedWrite(f)
  BY DEF Asked
<1>4. HandleWrite(ix)
  <2> HIDE DEF f
  <2> QED
    BY <1>1, <1>2, <1>3, WriteAccepted, Fields DEF Complete, Followed, f
<1> HIDE DEF f
<1>5. ix.tag = 0
  BY DEF WriteInstruction
<1> QED
  BY <1>2, <1>4, <1>5 DEF Accepted, ProcessInstruction

LEMMA WriteHandsOver ==
  ASSUME NEW q \in Request, q.name = "write", CompleteCpi(q)
  PROVE  HandsOver(q)
<1> DEFINE f == q.fields
           ix == WriteInstruction(f, <<>>)
           cpi == WriteCpi(f, <<>>)
           named == <<Writable(f.buffer), Signing(f.authority),
                      Optional(f, "source_buffer")>>
<1>1. /\ Instruction(q) = WriteBuilder(f, <<>>)
      /\ Invocation(q) = WriteCpiBuilder(f, <<>>)
      /\ Instruction(q) # {} /\ f.invoked = Id
  BY DEF Instruction, Invocation, CompleteCpi, Complete, Gives
<1>2. Instruction(q) = {ix} /\ Invocation(q) = {cpi}
  BY <1>1 DEF WriteBuilder, WriteCpiBuilder, Built
<1>3. cpi.instruction = ix
  <2>1. FromTuples(<<>>) = <<>>
    BY DEF FromTuples
  <2> QED
    BY <2>1 DEF WriteCpi
<1>4. Vector(named) /\ ix.accounts = named \o <<>> /\ Len(named) = 3 /\ Vector(<<>>)
  BY DEF WriteInstruction, Vector
<1>5. /\ DOMAIN ix.accounts = 1 .. 3
      /\ \A i \in 1 .. 3 : ix.accounts[i] = named[i]
  BY <1>4, AccountsOf, Len(<<>>) = 0
<1>6. \A i \in 1 .. 3 : named[i].key \in cpi.infos
  BY <1>1 DEF WriteCpi, Present, Writable, Signing, Readonly, Optional
<1>7. Id \in cpi.infos
  BY <1>1 DEF WriteCpi
<1> HIDE DEF ix, cpi, named, f
<1> QED
  BY <1>2, <1>3, <1>5, <1>6, <1>7 DEF HandsOver, Account

LEMMA InitializeAcceptedOf ==
  ASSUME Shaped, NEW q \in Request, q.name = "initialize", Complete(q), Asked(q)
  PROVE  Accepted(q)
<1> DEFINE f == q.fields
           ix == InitializeInstruction(f, q.remaining)
<1>1. Instruction(q) = InitializeBuilder(f, q.remaining) /\ Instruction(q) # {} /\ Followed(q)
  BY DEF Instruction, Complete
<1>2. /\ {"metadata", "authority", "program", "seed", "codec", "data_source", "data"}
           \subseteq DOMAIN f
      /\ Instruction(q) = {ix}
  BY <1>1 DEF InitializeBuilder, Built
<1>3. AskedInitialize(f)
  BY DEF Asked
<1>4. f.authority \in Signer
  <2> DEFINE named == <<Writable(f.metadata), Signing(f.authority),
                        Readonly(f.program), Optional(f, "program_data"),
                        Optional(f, "system")>>
  <2>1. Vector(named) /\ ix.accounts = named \o q.remaining /\ Len(named) = 5
    BY DEF InitializeInstruction, Vector
  <2>2. Vector(q.remaining)
    BY Fields
  <2>3. \A i \in 1 .. 5 : i \in DOMAIN ix.accounts /\ ix.accounts[i] = named[i]
    BY <2>1, <2>2, AccountsOf
  <2>4. Signable(ix)
    BY <1>2 DEF Complete
  <2> QED
    BY <2>3, <2>4 DEF Signable, Account, Signing
<1>5. HandleInitialize(ix)
  <2> HIDE DEF f
  <2> QED
    BY <1>1, <1>2, <1>3, <1>4, InitializeAccepted, Fields DEF Complete, Followed, f
<1> HIDE DEF f
<1>6. ix.tag = 1
  BY DEF InitializeInstruction
<1> QED
  BY <1>2, <1>5, <1>6 DEF Accepted, ProcessInstruction

LEMMA InitializeHandsOver ==
  ASSUME NEW q \in Request, q.name = "initialize", CompleteCpi(q)
  PROVE  HandsOver(q)
<1> DEFINE f == q.fields
           ix == InitializeInstruction(f, <<>>)
           cpi == InitializeCpi(f, <<>>)
           named == <<Writable(f.metadata), Signing(f.authority),
                      Readonly(f.program), Optional(f, "program_data"),
                      Optional(f, "system")>>
<1>1. /\ Instruction(q) = InitializeBuilder(f, <<>>)
      /\ Invocation(q) = InitializeCpiBuilder(f, <<>>)
      /\ Instruction(q) # {} /\ f.invoked = Id
  BY DEF Instruction, Invocation, CompleteCpi, Complete, Gives
<1>2. Instruction(q) = {ix} /\ Invocation(q) = {cpi}
  BY <1>1 DEF InitializeBuilder, InitializeCpiBuilder, Built
<1>3. cpi.instruction = ix
  <2>1. FromTuples(<<>>) = <<>>
    BY DEF FromTuples
  <2> QED
    BY <2>1 DEF InitializeCpi
<1>4. Vector(named) /\ ix.accounts = named \o <<>> /\ Len(named) = 5 /\ Vector(<<>>)
  BY DEF InitializeInstruction, Vector
<1>5. /\ DOMAIN ix.accounts = 1 .. 5
      /\ \A i \in 1 .. 5 : ix.accounts[i] = named[i]
  BY <1>4, AccountsOf, Len(<<>>) = 0
<1>6. \A i \in 1 .. 5 : named[i].key \in cpi.infos
  BY <1>1 DEF InitializeCpi, Present, Writable, Signing, Readonly, Optional
<1>7. Id \in cpi.infos
  BY <1>1 DEF InitializeCpi
<1> HIDE DEF ix, cpi, named, f
<1> QED
  BY <1>2, <1>3, <1>5, <1>6, <1>7 DEF HandsOver, Account

LEMMA SetAuthorityAcceptedOf ==
  ASSUME Shaped, NEW q \in Request, q.name = "set_authority", Complete(q), Asked(q)
  PROVE  Accepted(q)
<1> DEFINE f == q.fields
           ix == SetAuthorityInstruction(f, <<>>)
<1>1. Instruction(q) = SetAuthorityBuilder(f, q.remaining) /\ Instruction(q) # {} /\ Followed(q)
  BY DEF Instruction, Complete
<1>2. /\ {"account", "authority"} \subseteq DOMAIN f
      /\ Instruction(q) = {ix}
  BY <1>1 DEF SetAuthorityBuilder, Built, Complete, TakesNoMore
<1>3. AskedSetAuthority(f)
  BY DEF Asked
<1>4. HandleSetAuthority(ix)
  <2> HIDE DEF f
  <2> QED
    BY <1>1, <1>2, <1>3, SetAuthorityAccepted, Fields DEF Complete, Followed, f
<1> HIDE DEF f
<1>5. ix.tag = 2
  BY DEF SetAuthorityInstruction
<1> QED
  BY <1>2, <1>4, <1>5 DEF Accepted, ProcessInstruction

LEMMA SetAuthorityHandsOver ==
  ASSUME NEW q \in Request, q.name = "set_authority", CompleteCpi(q)
  PROVE  HandsOver(q)
<1> DEFINE f == q.fields
           ix == SetAuthorityInstruction(f, <<>>)
           cpi == SetAuthorityCpi(f, <<>>)
           named == <<Writable(f.account), Signing(f.authority),
                      Optional(f, "program"), Optional(f, "program_data")>>
<1>1. /\ Instruction(q) = SetAuthorityBuilder(f, <<>>)
      /\ Invocation(q) = SetAuthorityCpiBuilder(f, <<>>)
      /\ Instruction(q) # {} /\ f.invoked = Id
  BY DEF Instruction, Invocation, CompleteCpi, Complete, Gives
<1>2. Instruction(q) = {ix} /\ Invocation(q) = {cpi}
  BY <1>1 DEF SetAuthorityBuilder, SetAuthorityCpiBuilder, Built
<1>3. cpi.instruction = ix
  <2>1. FromTuples(<<>>) = <<>>
    BY DEF FromTuples
  <2> QED
    BY <2>1 DEF SetAuthorityCpi
<1>4. Vector(named) /\ ix.accounts = named \o <<>> /\ Len(named) = 4 /\ Vector(<<>>)
  BY DEF SetAuthorityInstruction, Vector
<1>5. /\ DOMAIN ix.accounts = 1 .. 4
      /\ \A i \in 1 .. 4 : ix.accounts[i] = named[i]
  BY <1>4, AccountsOf, Len(<<>>) = 0
<1>6. \A i \in 1 .. 4 : named[i].key \in cpi.infos
  BY <1>1 DEF SetAuthorityCpi, Present, Writable, Signing, Readonly, Optional
<1>7. Id \in cpi.infos
  BY <1>1 DEF SetAuthorityCpi
<1> HIDE DEF ix, cpi, named, f
<1> QED
  BY <1>2, <1>3, <1>5, <1>6, <1>7 DEF HandsOver, Account

LEMMA SetDataAcceptedOf ==
  ASSUME Shaped, NEW q \in Request, q.name = "set_data", Complete(q), Asked(q)
  PROVE  Accepted(q)
<1> DEFINE f == q.fields
           ix == SetDataInstruction(f, q.remaining)
<1>1. Instruction(q) = SetDataBuilder(f, q.remaining) /\ Instruction(q) # {} /\ Followed(q)
  BY DEF Instruction, Complete
<1>2. /\ {"metadata", "authority", "codec", "data_source", "data"} \subseteq DOMAIN f
      /\ Instruction(q) = {ix}
  BY <1>1 DEF SetDataBuilder, Built
<1>3. AskedSetData(f)
  BY DEF Asked
<1>4. HandleSetData(ix)
  <2> HIDE DEF f
  <2> QED
    BY <1>1, <1>2, <1>3, SetDataAccepted, Fields DEF Complete, Followed, f
<1> HIDE DEF f
<1>5. ix.tag = 3
  BY DEF SetDataInstruction
<1> QED
  BY <1>2, <1>4, <1>5 DEF Accepted, ProcessInstruction

LEMMA SetDataHandsOver ==
  ASSUME NEW q \in Request, q.name = "set_data", CompleteCpi(q)
  PROVE  HandsOver(q)
<1> DEFINE f == q.fields
           ix == SetDataInstruction(f, <<>>)
           cpi == SetDataCpi(f, <<>>)
           named == <<Writable(f.metadata), Signing(f.authority),
                      OptionalWritable(f, "buffer"), Optional(f, "program"),
                      Optional(f, "program_data")>>
<1>1. /\ Instruction(q) = SetDataBuilder(f, <<>>)
      /\ Invocation(q) = SetDataCpiBuilder(f, <<>>)
      /\ Instruction(q) # {} /\ f.invoked = Id
  BY DEF Instruction, Invocation, CompleteCpi, Complete, Gives
<1>2. Instruction(q) = {ix} /\ Invocation(q) = {cpi}
  BY <1>1 DEF SetDataBuilder, SetDataCpiBuilder, Built
<1>3. cpi.instruction = ix
  <2>1. FromTuples(<<>>) = <<>>
    BY DEF FromTuples
  <2> QED
    BY <2>1 DEF SetDataCpi
<1>4. Vector(named) /\ ix.accounts = named \o <<>> /\ Len(named) = 5 /\ Vector(<<>>)
  BY DEF SetDataInstruction, Vector
<1>5. /\ DOMAIN ix.accounts = 1 .. 5
      /\ \A i \in 1 .. 5 : ix.accounts[i] = named[i]
  BY <1>4, AccountsOf, Len(<<>>) = 0
<1>6. \A i \in 1 .. 5 : named[i].key \in cpi.infos
  BY <1>1 DEF SetDataCpi, Present, Writable, Signing, Readonly, Optional, OptionalWritable
<1>7. Id \in cpi.infos
  BY <1>1 DEF SetDataCpi
<1> HIDE DEF ix, cpi, named, f
<1> QED
  BY <1>2, <1>3, <1>5, <1>6, <1>7 DEF HandsOver, Account

LEMMA SetImmutableAcceptedOf ==
  ASSUME Shaped, NEW q \in Request, q.name = "set_immutable", Complete(q), Asked(q)
  PROVE  Accepted(q)
<1> DEFINE f == q.fields
           ix == SetImmutableInstruction(f, <<>>)
<1>1. Instruction(q) = SetImmutableBuilder(f, q.remaining) /\ Instruction(q) # {} /\ Followed(q)
  BY DEF Instruction, Complete
<1>2. /\ {"metadata", "authority"} \subseteq DOMAIN f
      /\ Instruction(q) = {ix}
  BY <1>1 DEF SetImmutableBuilder, Built, Complete, TakesNoMore
<1>3. SetImmutable(f.authority, f.metadata)
  BY DEF Asked
<1>4. HandleSetImmutable(ix)
  <2> HIDE DEF f
  <2> QED
    BY <1>1, <1>2, <1>3, SetImmutableAccepted, Fields DEF Complete, Followed, f
<1> HIDE DEF f
<1>5. ix.tag = 4
  BY DEF SetImmutableInstruction
<1> QED
  BY <1>2, <1>4, <1>5 DEF Accepted, ProcessInstruction

LEMMA SetImmutableHandsOver ==
  ASSUME NEW q \in Request, q.name = "set_immutable", CompleteCpi(q)
  PROVE  HandsOver(q)
<1> DEFINE f == q.fields
           ix == SetImmutableInstruction(f, <<>>)
           cpi == SetImmutableCpi(f, <<>>)
           named == <<Writable(f.metadata), Signing(f.authority),
                      Optional(f, "program"), Optional(f, "program_data")>>
<1>1. /\ Instruction(q) = SetImmutableBuilder(f, <<>>)
      /\ Invocation(q) = SetImmutableCpiBuilder(f, <<>>)
      /\ Instruction(q) # {} /\ f.invoked = Id
  BY DEF Instruction, Invocation, CompleteCpi, Complete, Gives
<1>2. Instruction(q) = {ix} /\ Invocation(q) = {cpi}
  BY <1>1 DEF SetImmutableBuilder, SetImmutableCpiBuilder, Built
<1>3. cpi.instruction = ix
  <2>1. FromTuples(<<>>) = <<>>
    BY DEF FromTuples
  <2> QED
    BY <2>1 DEF SetImmutableCpi
<1>4. Vector(named) /\ ix.accounts = named \o <<>> /\ Len(named) = 4 /\ Vector(<<>>)
  BY DEF SetImmutableInstruction, Vector
<1>5. /\ DOMAIN ix.accounts = 1 .. 4
      /\ \A i \in 1 .. 4 : ix.accounts[i] = named[i]
  BY <1>4, AccountsOf, Len(<<>>) = 0
<1>6. \A i \in 1 .. 4 : named[i].key \in cpi.infos
  BY <1>1 DEF SetImmutableCpi, Present, Writable, Signing, Readonly, Optional
<1>7. Id \in cpi.infos
  BY <1>1 DEF SetImmutableCpi
<1> HIDE DEF ix, cpi, named, f
<1> QED
  BY <1>2, <1>3, <1>5, <1>6, <1>7 DEF HandsOver, Account

LEMMA TrimAcceptedOf ==
  ASSUME Shaped, NEW q \in Request, q.name = "trim", Complete(q), Asked(q)
  PROVE  Accepted(q)
<1> DEFINE f == q.fields
           ix == TrimInstruction(f, RentId, <<>>)
<1>1. Instruction(q) = TrimBuilder(f, q.remaining) /\ Instruction(q) # {} /\ Followed(q)
  BY DEF Instruction, Complete
<1>2. /\ {"account", "authority", "destination"} \subseteq DOMAIN f
      /\ Instruction(q) = {ix}
  BY <1>1 DEF TrimBuilder, Built, Complete, TakesNoMore
<1>3. Trim(f.authority, f.account, f.destination)
  BY DEF Asked
<1>4. HandleTrim(ix)
  <2> HIDE DEF f
  <2> QED
    BY <1>1, <1>2, <1>3, TrimAccepted, Fields DEF Complete, Followed, f
<1> HIDE DEF f
<1>5. ix.tag = 5
  BY DEF TrimInstruction
<1> QED
  BY <1>2, <1>4, <1>5 DEF Accepted, ProcessInstruction

LEMMA TrimHandsOver ==
  ASSUME NEW q \in Request, q.name = "trim", CompleteCpi(q)
  PROVE  HandsOver(q)
<1> DEFINE f == q.fields
           ix == TrimInstruction(f, RentId, <<>>)
           cpi == TrimCpi(f, <<>>)
           named == <<Writable(f.account), Signing(f.authority),
                      Optional(f, "program"), Optional(f, "program_data"),
                      Writable(f.destination), Readonly(RentId)>>
<1>1. /\ Instruction(q) = TrimBuilder(f, <<>>)
      /\ Invocation(q) = TrimCpiBuilder(f, <<>>)
      /\ Instruction(q) # {} /\ f.invoked = Id
  BY DEF Instruction, Invocation, CompleteCpi, Complete, Gives
<1>2. Instruction(q) = {ix} /\ Invocation(q) = {cpi}
  BY <1>1 DEF TrimBuilder, TrimCpiBuilder, Built, CompleteCpi, Complete
<1>3. cpi.instruction = ix
  <2>1. FromTuples(<<>>) = <<>>
    BY DEF FromTuples
  <2> QED
    BY <2>1 DEF TrimCpi, CompleteCpi, Complete
<1>4. Vector(named) /\ ix.accounts = named \o <<>> /\ Len(named) = 6 /\ Vector(<<>>)
  BY DEF TrimInstruction, Vector
<1>5. /\ DOMAIN ix.accounts = 1 .. 6
      /\ \A i \in 1 .. 6 : ix.accounts[i] = named[i]
  BY <1>4, AccountsOf, Len(<<>>) = 0
<1>6. \A i \in 1 .. 6 : named[i].key \in cpi.infos
  BY <1>1 DEF TrimCpi, Present, Writable, Signing, Readonly, Optional, CompleteCpi, Complete
<1>7. Id \in cpi.infos
  BY <1>1 DEF TrimCpi
<1> HIDE DEF ix, cpi, named, f
<1> QED
  BY <1>2, <1>3, <1>5, <1>6, <1>7 DEF HandsOver, Account

LEMMA CloseAcceptedOf ==
  ASSUME Shaped, NEW q \in Request, q.name = "close", Complete(q), Asked(q)
  PROVE  Accepted(q)
<1> DEFINE f == q.fields
           ix == CloseInstruction(f, <<>>)
<1>1. Instruction(q) = CloseBuilder(f, q.remaining) /\ Instruction(q) # {} /\ Followed(q)
  BY DEF Instruction, Complete
<1>2. /\ {"account", "authority", "destination"} \subseteq DOMAIN f
      /\ Instruction(q) = {ix}
  BY <1>1 DEF CloseBuilder, Built, Complete, TakesNoMore
<1>3. Close(f.authority, f.account, f.destination)
  BY DEF Asked
<1>4. HandleClose(ix)
  <2> HIDE DEF f
  <2> QED
    BY <1>1, <1>2, <1>3, CloseAccepted, Fields DEF Complete, Followed, f
<1> HIDE DEF f
<1>5. ix.tag = 6
  BY DEF CloseInstruction
<1> QED
  BY <1>2, <1>4, <1>5 DEF Accepted, ProcessInstruction

LEMMA CloseHandsOver ==
  ASSUME NEW q \in Request, q.name = "close", CompleteCpi(q)
  PROVE  HandsOver(q)
<1> DEFINE f == q.fields
           ix == CloseInstruction(f, <<>>)
           cpi == CloseCpi(f, <<>>)
           named == <<Writable(f.account), Signing(f.authority),
                      Optional(f, "program"), Optional(f, "program_data"),
                      Writable(f.destination)>>
<1>1. /\ Instruction(q) = CloseBuilder(f, <<>>)
      /\ Invocation(q) = CloseCpiBuilder(f, <<>>)
      /\ Instruction(q) # {} /\ f.invoked = Id
  BY DEF Instruction, Invocation, CompleteCpi, Complete, Gives
<1>2. Instruction(q) = {ix} /\ Invocation(q) = {cpi}
  BY <1>1 DEF CloseBuilder, CloseCpiBuilder, Built
<1>3. cpi.instruction = ix
  <2>1. FromTuples(<<>>) = <<>>
    BY DEF FromTuples
  <2> QED
    BY <2>1 DEF CloseCpi
<1>4. Vector(named) /\ ix.accounts = named \o <<>> /\ Len(named) = 5 /\ Vector(<<>>)
  BY DEF CloseInstruction, Vector
<1>5. /\ DOMAIN ix.accounts = 1 .. 5
      /\ \A i \in 1 .. 5 : ix.accounts[i] = named[i]
  BY <1>4, AccountsOf, Len(<<>>) = 0
<1>6. \A i \in 1 .. 5 : named[i].key \in cpi.infos
  BY <1>1 DEF CloseCpi, Present, Writable, Signing, Readonly, Optional
<1>7. Id \in cpi.infos
  BY <1>1 DEF CloseCpi
<1> HIDE DEF ix, cpi, named, f
<1> QED
  BY <1>2, <1>3, <1>5, <1>6, <1>7 DEF HandsOver, Account

LEMMA AllocateAcceptedOf ==
  ASSUME Shaped, NEW q \in Request, q.name = "allocate", Complete(q), Asked(q)
  PROVE  Accepted(q)
<1> DEFINE f == q.fields
           ix == AllocateInstruction(f, q.remaining)
<1>1. Instruction(q) = AllocateBuilder(f, q.remaining) /\ Instruction(q) # {} /\ Followed(q)
  BY DEF Instruction, Complete
<1>2. /\ {"buffer", "authority", "seed"} \subseteq DOMAIN f
      /\ Instruction(q) = {ix}
  BY <1>1 DEF AllocateBuilder, Built
<1>3. AskedAllocate(f)
  BY DEF Asked
<1>4. f.authority \in Signer
  <2> DEFINE named == <<Writable(f.buffer), Signing(f.authority),
                        Optional(f, "program"), Optional(f, "program_data"),
                        Optional(f, "system")>>
  <2>1. Vector(named) /\ ix.accounts = named \o q.remaining /\ Len(named) = 5
    BY DEF AllocateInstruction, Vector
  <2>2. Vector(q.remaining)
    BY Fields
  <2>3. \A i \in 1 .. 5 : i \in DOMAIN ix.accounts /\ ix.accounts[i] = named[i]
    BY <2>1, <2>2, AccountsOf
  <2>4. Signable(ix)
    BY <1>2 DEF Complete
  <2> QED
    BY <2>3, <2>4 DEF Signable, Account, Signing
<1>5. HandleAllocate(ix)
  <2> HIDE DEF f
  <2> QED
    BY <1>1, <1>2, <1>3, <1>4, AllocateAccepted, Fields DEF Complete, Followed, f
<1> HIDE DEF f
<1>6. ix.tag = 7
  BY DEF AllocateInstruction
<1> QED
  BY <1>2, <1>5, <1>6 DEF Accepted, ProcessInstruction

LEMMA AllocateHandsOver ==
  ASSUME NEW q \in Request, q.name = "allocate", CompleteCpi(q)
  PROVE  HandsOver(q)
<1> DEFINE f == q.fields
           ix == AllocateInstruction(f, <<>>)
           cpi == AllocateCpi(f, <<>>)
           named == <<Writable(f.buffer), Signing(f.authority),
                      Optional(f, "program"), Optional(f, "program_data"),
                      Optional(f, "system")>>
<1>1. /\ Instruction(q) = AllocateBuilder(f, <<>>)
      /\ Invocation(q) = AllocateCpiBuilder(f, <<>>)
      /\ Instruction(q) # {} /\ f.invoked = Id
  BY DEF Instruction, Invocation, CompleteCpi, Complete, Gives
<1>2. Instruction(q) = {ix} /\ Invocation(q) = {cpi}
  BY <1>1 DEF AllocateBuilder, AllocateCpiBuilder, Built
<1>3. cpi.instruction = ix
  <2>1. FromTuples(<<>>) = <<>>
    BY DEF FromTuples
  <2> QED
    BY <2>1 DEF AllocateCpi
<1>4. Vector(named) /\ ix.accounts = named \o <<>> /\ Len(named) = 5 /\ Vector(<<>>)
  BY DEF AllocateInstruction, Vector
<1>5. /\ DOMAIN ix.accounts = 1 .. 5
      /\ \A i \in 1 .. 5 : ix.accounts[i] = named[i]
  BY <1>4, AccountsOf, Len(<<>>) = 0
<1>6. \A i \in 1 .. 5 : named[i].key \in cpi.infos
  BY <1>1 DEF AllocateCpi, Present, Writable, Signing, Readonly, Optional
<1>7. Id \in cpi.infos
  BY <1>1 DEF AllocateCpi
<1> HIDE DEF ix, cpi, named, f
<1> QED
  BY <1>2, <1>3, <1>5, <1>6, <1>7 DEF HandsOver, Account

LEMMA ExtendAcceptedOf ==
  ASSUME Shaped, NEW q \in Request, q.name = "extend", Complete(q), Asked(q)
  PROVE  Accepted(q)
<1> DEFINE f == q.fields
           ix == ExtendInstruction(f, q.remaining)
<1>1. Instruction(q) = ExtendBuilder(f, q.remaining) /\ Instruction(q) # {} /\ Followed(q)
  BY DEF Instruction, Complete
<1>2. /\ {"account", "authority", "length"} \subseteq DOMAIN f
      /\ Instruction(q) = {ix}
  BY <1>1 DEF ExtendBuilder, Built
<1>3. Extend(f.authority, f.account, f.length)
  BY DEF Asked
<1>4. HandleExtend(ix)
  <2> HIDE DEF f
  <2> QED
    BY <1>1, <1>2, <1>3, ExtendAccepted, Fields DEF Complete, Followed, f
<1> HIDE DEF f
<1>5. ix.tag = 8
  BY DEF ExtendInstruction
<1> QED
  BY <1>2, <1>4, <1>5 DEF Accepted, ProcessInstruction

LEMMA ExtendHandsOver ==
  ASSUME NEW q \in Request, q.name = "extend", CompleteCpi(q)
  PROVE  HandsOver(q)
<1> DEFINE f == q.fields
           ix == ExtendInstruction(f, <<>>)
           cpi == ExtendCpi(f, <<>>)
           named == <<Writable(f.account), Signing(f.authority),
                      Optional(f, "program"), Optional(f, "program_data")>>
<1>1. /\ Instruction(q) = ExtendBuilder(f, <<>>)
      /\ Invocation(q) = ExtendCpiBuilder(f, <<>>)
      /\ Instruction(q) # {} /\ f.invoked = Id
  BY DEF Instruction, Invocation, CompleteCpi, Complete, Gives
<1>2. Instruction(q) = {ix} /\ Invocation(q) = {cpi}
  BY <1>1 DEF ExtendBuilder, ExtendCpiBuilder, Built
<1>3. cpi.instruction = ix
  <2>1. FromTuples(<<>>) = <<>>
    BY DEF FromTuples
  <2> QED
    BY <2>1 DEF ExtendCpi
<1>4. Vector(named) /\ ix.accounts = named \o <<>> /\ Len(named) = 4 /\ Vector(<<>>)
  BY DEF ExtendInstruction, Vector
<1>5. /\ DOMAIN ix.accounts = 1 .. 4
      /\ \A i \in 1 .. 4 : ix.accounts[i] = named[i]
  BY <1>4, AccountsOf, Len(<<>>) = 0
<1>6. \A i \in 1 .. 4 : named[i].key \in cpi.infos
  BY <1>1 DEF ExtendCpi, Present, Writable, Signing, Readonly, Optional
<1>7. Id \in cpi.infos
  BY <1>1 DEF ExtendCpi
<1> HIDE DEF ix, cpi, named, f
<1> QED
  BY <1>2, <1>3, <1>5, <1>6, <1>7 DEF HandsOver, Account

LEMMA CompleteIsAccepted ==
  ASSUME Shaped, NEW q \in Request, Complete(q), Asked(q)
  PROVE  Submit(q)
<1>1. Accepted(q)
  BY RequestAssumption, WriteAcceptedOf, InitializeAcceptedOf, SetAuthorityAcceptedOf,
     SetDataAcceptedOf, SetImmutableAcceptedOf, TrimAcceptedOf, CloseAcceptedOf,
     AllocateAcceptedOf, ExtendAcceptedOf DEF Name
<1> QED
  BY <1>1 DEF Accepted, Submit, Complete

LEMMA CompleteIsInvoked ==
  ASSUME NEW q \in Request, CompleteCpi(q), Submit(q)
  PROVE  Invoke(q)
<1>1. HandsOver(q)
  BY RequestAssumption, WriteHandsOver, InitializeHandsOver, SetAuthorityHandsOver,
     SetDataHandsOver, SetImmutableHandsOver, TrimHandsOver, CloseHandsOver,
     AllocateHandsOver, ExtendHandsOver DEF Name
<1>2. PICK ix \in Instruction(q) : Signable(ix) /\ ProcessInstruction(ix)
  BY DEF Submit
<1>3. PICK cpi \in Invocation(q) :
        /\ cpi.instruction = ix /\ Id \in cpi.infos
        /\ \A i \in DOMAIN ix.accounts : Account(ix, i) \in cpi.infos
  BY <1>1 DEF HandsOver
<1>4. Invocable(cpi, ix)
  BY <1>3 DEF Invocable, IsSigner, IsWritable, Account
<1> QED
  BY <1>2, <1>3, <1>4 DEF Invoke

LEMMA ShapedKept == Shaped /\ [ClientNext]_clientVars => Shaped'
<1> SUFFICES ASSUME Shaped, [ClientNext]_clientVars PROVE Shaped'
  OBVIOUS
<1>1. CASE Next
  BY <1>1, NextShaped
<1>2. ASSUME NEW q \in Request, Submit(q) \/ Invoke(q) PROVE Shaped'
  BY <1>2, ServedIsAsked, AskedShaped
<1>3. CASE UNCHANGED clientVars
  BY <1>3 DEF Shaped, Vacant, Zeroed, clientVars, vars
<1> QED
  BY <1>1, <1>2, <1>3 DEF ClientNext

LEMMA InitShaped == ClientInit => Shaped
<1> QED
  BY DEF ClientInit, Init, Shaped, Vacant, Zeroed

\* What the program does for anybody, but for a change of the codec alone, can be asked of
\* it through the generated client, sent or invoked: for any accounts, programs, seeds and
\* data, no request that is Complete, a SetData with data or a buffer, is refused for a
\* want of accounts, data or privileges (generated/instructions/*.rs against
\* processor/*.rs).
THEOREM NoCompleteRequestIsRefused == ClientSpec => NothingRefused
<1> DEFINE Possible ==
      served' = None =>
        \A q \in Request :
          Asked(q) => (Complete(q) => Submit(q)) /\ (CompleteCpi(q) => Invoke(q))
<1>1. Shaped => Possible
  <2> SUFFICES ASSUME Shaped, NEW q \in Request, Asked(q)
               PROVE  (Complete(q) => Submit(q)) /\ (CompleteCpi(q) => Invoke(q))
    OBVIOUS
  <2>1. Complete(q) => Submit(q)
    BY CompleteIsAccepted
  <2>2. CompleteCpi(q) => Complete(q)
    BY DEF CompleteCpi
  <2> QED
    BY <2>1, <2>2, CompleteIsInvoked
<1>2. Shaped /\ [ClientNext]_clientVars => [Possible]_clientVars
  BY <1>1
<1> QED
  BY <1>2, InitShaped, ShapedKept, PTL DEF ClientSpec, NothingRefused
===============================================================================
