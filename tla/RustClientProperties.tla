-------------------------- MODULE RustClientProperties --------------------------
(***************************************************************************)
(* What users of the generated Rust client may rely on: the two sides of   *)
(* the wire agree on every instruction.                                    *)
(***************************************************************************)
EXTENDS RustClient

-----------------------------------------------------------------------------
(* Vocabulary.                                                             *)

\* The request gives this field this value.
Gives(f, name, value) == name \in DOMAIN f /\ f[name] = value

\* The accounts by which the program recognises an upgrade authority are given for the
\* account a, if it is one that such an authority may manage.
NamesProgramOf(f, a) ==
  acct[a].canonical =>
    Gives(f, "program", acct[a].program) /\ Gives(f, "program_data", ProgramData[f.program])

\* A program data account is given only with its program.
ProgramDataFits(f) ==
  "program_data" \in DOMAIN f =>
    /\ "program" \in DOMAIN f /\ f.program \in Program
    /\ f.program_data = ProgramData[f.program]

\* What the request is about is followed here: its accounts, its program and its seed;
\* and it asks for no zero address as the new authority, which the wire cannot say.
Followed(q) ==
  LET f == q.fields
  IN  /\ \A name \in {"metadata", "account", "buffer", "source_buffer", "destination"} :
           name \in DOMAIN f => f[name] \in Address
      /\ "program" \in DOMAIN f => f.program \in Program
      /\ q.name = "initialize" => f.seed \in Seed
      /\ q.name = "allocate" => f.seed \in {<<>>} \cup {<<s>> : s \in Seed}
      /\ "new_authority" \in DOMAIN f => f.new_authority # None

\* The instructions that take no account beyond their own.
TakesNoMore == {"set_authority", "set_immutable", "trim", "close"}

\* Every optional account this request may need is given, and whoever has to sign can.
\* A SetData brings data, in the instruction or in a buffer: the program can change the
\* codec alone, but not for this client, which always sends a data source and then is
\* refused unless data goes with it (set_data.rs:88, CodecAloneCanBeSet).
Complete(q) ==
  LET f == q.fields
  IN  /\ Instruction(q) # {}
      /\ \A ix \in Instruction(q) : Signable(ix)
      /\ Followed(q)
      /\ ProgramDataFits(f)
      /\ q.name \in TakesNoMore => q.remaining = <<>>
      /\ q.name \in {"initialize", "allocate"} => Gives(f, "system", SystemId)
      /\ q.name = "set_data" => f.data # <<>> \/ Has(f, "buffer")
      /\ q.name \in {"set_data", "set_immutable"} => NamesProgramOf(f, f.metadata)
      /\ q.name \in {"set_authority", "trim", "close", "extend"} =>
           NamesProgramOf(f, f.account)
      /\ "rent" \in DOMAIN f => f.rent = RentId

\* The same for a program that makes the request.
CompleteCpi(q) ==
  /\ Complete(q)
  /\ q.remaining = <<>>
  /\ Gives(q.fields, "invoked", Id)
  /\ q.name = "trim" => "rent" \in DOMAIN q.fields

-----------------------------------------------------------------------------
\* An instruction the client builds, sent or invoked with whatever optional accounts
\* left out or wrong, does what was asked of the client or nothing: no placeholder,
\* place or discriminator makes the program take it for something else
\* (generated/instructions/*.rs against entrypoint.rs and processor/*.rs).
OnlyWhatWasAsked == [][served' # None => Asked(served')]_clientVars

\* What the program does for another client can be asked of it through this one, but for
\* a change of the codec alone: it refuses no request for a want of accounts, data or
\* privileges that is Complete, which takes new data or a buffer in a SetData
\* (generated/instructions/*.rs against processor/*.rs; set_data.rs:88).
NothingRefused ==
  [][served' = None =>
       \A q \in Request :
         Asked(q) => (Complete(q) => Submit(q)) /\ (CompleteCpi(q) => Invoke(q))]_clientVars
===============================================================================
