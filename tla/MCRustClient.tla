------------------------------ MODULE MCRustClient ------------------------------
(* A small instance of RustClient for TLC, and what its docs and comments claim. *)
EXTENDS RustClientProperties, TLC

CONSTANTS k1, p1, x, data1, stray

FlatRent(n) == 1
LivePrograms == [Program -> {[kind |-> "live", upgrade |-> k1]}]
OneByteLength(n) == <<x>>
DataAccounts == [p \in Program |-> data1]

\* These fields, with each choice of an optional one.
Optionally(fields, name, values) ==
  {f @@ o : f \in fields, o \in {<<>>} \cup [{name} -> values]}

\* The program and its program data are given, neither is, or a wrong account is.
WithProgram(fields) ==
  {f @@ o : f \in fields,
            o \in {<<>>} \cup [program : {p1}, program_data : {data1, stray}]}

\* No additional accounts, or one that is writable.
NoMore == {<<>>}
OneMore == {<<>>} \cup {<<Writable(CanonicalPda(p1, s))>> : s \in Seed}

Requests(name, fields, remaining) ==
  [name : {name}, fields : fields, remaining : remaining]

\* RemainderOptionBytes: None, or Some of one byte.
Options == {<<>>, << <<x>> >>}

\* For each instruction, the accounts and data that may be asked for: the optional
\* accounts given, left out or wrong, data given both ways or neither.
SmallRequests ==
  UNION
    {Requests("write",
       Optionally([invoked : {Id}, buffer : Address, authority : Key, offset : {0, 1},
                   data : Options], "source_buffer", Address), NoMore),
     Requests("initialize",
       Optionally(Optionally([invoked : {Id}, metadata : Pda, authority : Key,
                              program : {p1}, seed : Seed, codec : Codec,
                              data_source : {"Direct"}, data : Options],
                             "program_data", {data1, stray}),
                  "system", {SystemId}), OneMore),
     Requests("set_authority",
       WithProgram(Optionally([invoked : {Id}, account : Pda, authority : Key],
                              "new_authority", Key)), OneMore),
     Requests("set_data",
       WithProgram(Optionally([invoked : {Id}, metadata : Pda, authority : Key,
                               codec : Codec, data_source : {"Direct"}, data : Options],
                              "buffer", Pda)), NoMore),
     Requests("set_immutable",
       WithProgram([invoked : {Id, stray}, metadata : Pda, authority : Key]), NoMore),
     Requests("trim",
       WithProgram(Optionally([invoked : {Id}, account : Pda, authority : Key,
                               destination : Address], "rent", {RentId})), NoMore),
     Requests("close",
       WithProgram([invoked : {Id}, account : Address, authority : Key,
                    destination : Address]), NoMore),
     Requests("allocate",
       Optionally(WithProgram([invoked : {Id}, buffer : Address, authority : Key,
                               seed : {<<>>} \cup {<<s>> : s \in Seed}]),
                  "system", {SystemId}), NoMore),
     Requests("extend",
       WithProgram([invoked : {Id}, account : Pda, authority : Key,
                    length : Extension]), OneMore)}

\* Other clients send what the requests carry.
SmallPayload == {Carried(o) : o \in Options \ {<<>>}}

-----------------------------------------------------------------------------
(* Claims.  Each run on one of them is expected to find what contradicts it. *)

\* "`[u8]`: (optional) bytes to write" (instruction.rs, the data of Initialize): the
\* bytes given to the builder are the ones in the account.
BytesAsGiven ==
  [][served' # None /\ served'.name = "initialize" /\ served'.fields.data # <<>> =>
       acct'[served'.fields.metadata].body = served'.fields.data[1]]_clientVars

\* "`[u8]`: (optional) bytes to write" and "There are 2 optional accounts: - `buffer`: used
\* to specify the data to be copied." (instruction.rs, SetData): both may be left out when
\* only the codec is to change, as another client does.
CodecAloneCanBeSet ==
  [][served' = None =>
       \A q \in Request :
         q.name = "set_data" /\ q.fields.data = <<>> /\ ~Has(q.fields, "buffer")
           /\ ProgramDataFits(q.fields) /\ NamesProgramOf(q.fields, q.fields.metadata)
           /\ Asked(q) => Submit(q)]_clientVars

\* "4. `[optional]` system (default to `11111111111111111111111111111111`)"
\* (generated/instructions/initialize.rs, InitializeBuilder): what another client
\* initializes, a request that leaves the system program out could have initialized.
SystemHasDefault ==
  [][served' = None =>
       \A q \in Request :
         q.name = "initialize" /\ "system" \notin DOMAIN q.fields
           /\ ProgramDataFits(q.fields) /\ Asked(q) => Submit(q)]_clientVars

\* "Each account is represented by a tuple of the `AccountInfo`, a `bool` indicating
\* whether the account is writable or not, and a `bool` indicating whether the account
\* is a signer or not." (generated/instructions/initialize.rs, InitializeCpiBuilder):
\* an additional account makes no difference to what can be invoked.
AdditionalAccountsPassed ==
  [][served' # None /\ served'.name = "initialize" /\ Submit(served') =>
       Invoke(served')]_clientVars
===============================================================================
