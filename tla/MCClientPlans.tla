----------------------------- MODULE MCClientPlans -----------------------------
(* Small instances of ClientPlans for TLC: canonical metadata of one program. *)
EXTENDS UploadRent, TLC

CONSTANTS k1, b1, b2, p1, idl, old, new, newer, w, x, y, c1, c2, c3

LivePrograms == [Program -> {[kind |-> "live", upgrade |-> k1]}]

\* Rent is linear in the length of the account, with the overhead of an account.
LinearRent(n) == n + 2

Pda1 == CanonicalPda(p1, idl)

Times(byte, n) == [i \in 1 .. n |-> byte]

Input(op, data, codec, buffer, fresh, close) ==
  [op |-> op, authority |-> k1, program |-> p1, canonical |-> TRUE, seed |-> idl,
   codec |-> codec, dataSource |-> "Direct", data |-> data, buffer |-> buffer,
   newBuffer |-> fresh, target |-> None, closeBuffer |-> close]

Targeting(op, b, data, buffer, close) ==
  [Input(op, data, old, buffer, None, close) EXCEPT !.target = b]

\* Metadata and a keypair buffer as earlier clients left them.
Metadata(data) ==
  MetadataHeader(Zeroed("self", LinearRent(HeaderLen + Len(data)), HeaderLen, data),
                 k1, p1, idl, TRUE, old, "Direct")

Buffer(data) ==
  [Zeroed("self", LinearRent(HeaderLen + Len(data)), HeaderLen, data)
     EXCEPT !.discriminator = "Buffer", !.authority = k1]

\* n bytes, no two neighbours the same.
Data(n) == [i \in 1 .. n |-> IF i % 2 = 1 THEN y ELSE x]

-----------------------------------------------------------------------------
\* One client: every job, with data on each side of every limit, on an account that
\* is absent, or holds metadata that is shorter, as long or longer.
Sizes == {1, 3, 4, 8}

Idle == Input("none", <<w>>, old, None, None, "no")

Alone(input, accounts) ==
  [inputs |-> [c \in Client |-> IF c = c1 THEN input ELSE Idle], accounts |-> accounts]

FormerContents == {[codec |-> old, data |-> Times(w, n)] : n \in Sizes}

NoAccounts == [a \in {} |-> Vacant(0)]
Existing(n) == Pda1 :> Metadata(Times(w, n))
Uploaded(n) == b1 :> Buffer(Data(n))

LoneUploads ==
  {Alone(Input(op, Data(n), new, None, None, close), NoAccounts) :
     op \in {"create", "write"}, n \in Sizes, close \in {"yes", "no"}}
  \cup
  {Alone([Input(op, Data(n), new, None, None, "no") EXCEPT !.canonical = FALSE], NoAccounts) :
     op \in {"create", "write"}, n \in Sizes}
  \cup
  {Alone(Input(op, Data(n), new, b1, None, close), Uploaded(n)) :
     op \in {"create", "write"}, n \in Sizes, close \in {"yes", "no"}}
  \cup
  {Alone(Input(op, Data(n), new, None, b2, close), Existing(l)) :
     op \in {"update", "write"}, n \in Sizes, l \in Sizes, close \in {"yes", "no"}}
  \cup
  {Alone(Input(op, Data(n), new, b1, None, close), Existing(l) @@ Uploaded(n)) :
     op \in {"update", "write"}, n \in Sizes, l \in Sizes, close \in {"yes", "no"}}

LoneBuffers ==
  {Alone(Input("create-buffer", Data(n), old, None, b, "no"), NoAccounts) :
     n \in Sizes, b \in {None, b2}}
  \cup
  {Alone(Input("create-buffer", Data(n), old, b1, b2, close), Uploaded(n)) :
     n \in Sizes, close \in {"yes", "no"}}
  \cup
  {Alone(Targeting("update-buffer", b1, Data(n), None, "no"), Uploaded(l)) :
     n \in Sizes, l \in Sizes}
  \cup
  {Alone(Targeting("update-buffer", b2, Data(n), b1, close),
         Uploaded(n) @@ b2 :> Buffer(Times(x, l))) :
     n \in Sizes, l \in Sizes, close \in {"yes", "no"}}
  \cup
  {Alone(Targeting("close-buffer", b1, Data(1), None, "no"), Uploaded(n)) : n \in Sizes}

\* Jobs that are refused: there is nothing to read.
LoneRefusals ==
  {Alone(Input(op, Data(n), new, b1, None, "yes"), NoAccounts) :
     op \in {"create", "update"}, n \in {1, 3}}
  \cup {Alone(Input("create-buffer", Data(1), old, b1, b2, "yes"), NoAccounts),
         Alone(Targeting("update-buffer", b1, Data(1), None, "no"), NoAccounts),
         Alone(Targeting("close-buffer", b1, Data(1), None, "no"), NoAccounts),
         Alone(Input("create", Data(1), new, None, None, "yes"), Existing(1))}

LoneJobs == LoneUploads \cup LoneBuffers \cup LoneRefusals

-----------------------------------------------------------------------------
\* Two clients upload different data to one account at once, the second as much as the
\* first or more: they are told apart by their data alone.
Mine(c) == IF c = c1 THEN new ELSE newer
Byte1(c) == IF c = c1 THEN x ELSE y
BufferOf(c) == IF c = c1 THEN b1 ELSE b2

Race(n, accounts) ==
  [accounts |-> accounts,
   inputs |-> [c \in Client |->
                 Input("write", Times(Byte1(c), n[c]), Mine(c), None, BufferOf(c), "yes")]]

Lengths(sizes) == {n \in [Client -> sizes] : n[c1] <= n[c2]}

RacingUpdates == {Race(n, Existing(l)) : n \in Lengths({1, 2, 4}), l \in {1, 3}}

\* With an account that has to be created.
RacingWrites ==
  RacingUpdates \cup {Race(n, NoAccounts) : n \in Lengths({1, 2, 3})}

\* An upload that may be killed, somebody who closes what it leaves, and another upload.
Recovery(n, last) ==
  [accounts |-> NoAccounts,
   inputs |-> [c \in Client |->
                 IF c = c2 THEN Targeting("close-buffer", Pda1, <<w>>, None, "no")
                 ELSE Input(IF c = c3 THEN last ELSE "create", Times(Byte1(c), n[c]),
                            Mine(c), None, BufferOf(c), "yes")]]

Recoveries ==
  {Recovery(n, last) : n \in [Client -> {1, ReallocLimit}], last \in {"create", "write"}}

JobsAndRecoveries == LoneJobs \cup Recoveries

-----------------------------------------------------------------------------
(* What comments and tests of the repository say, and the code does not do. *)

\* writeMetadata.ts:27 "Creates or updates a metadata account.": nothing refuses a write
\* that no other client disturbs, on an account of its own authority.
CreatesOrUpdates ==
  \A c \in Client :
    job[c].input.op = "write" /\ job[c].status = "refused" => ~job[c].alone

\* utils.ts:63 "When using a buffer, whether to close the buffer account after the
\* operation. [...] Defaults to `true`.": a buffer is closed unless the user said no.
ClosesByDefault ==
  \A c \in Client :
    LET j == job[c].input
    IN  job[c].status = "done" /\ Publishing(c) /\ j.closeBuffer # "no" =>
          \A b \in {j.buffer, j.newBuffer} \ {None} : ~Exists(b)

\* update-buffer.ts:12 "Update an existing buffer account.": the buffer then holds the
\* new data, as after create-buffer.
UpdatedBufferIsNewData ==
  \A c \in Client :
    LET j == job[c].input
    IN  job[c].status = "done" /\ j.op = "update-buffer" => acct[j.target].body = j.data

\* createMetadata.test.ts:75 "Then we expect the following metadata account to be
\* created. [...] dataLength: largeData.length, data: largeData": an upload that found no
\* account and reports success has published what it was given, and no more.
CreatedAsAsked ==
  [][\A c \in Client :
       (/\ Running(c) /\ job'[c].status = "done"
        /\ job[c].input.op \in {"create", "write"} /\ job[c].found = "nothing")
       => Stands(c)']_planVars

LeftoverThenWrite ==
  {Race(n, NoAccounts) : n \in [Client -> {1, ReallocLimit}]}

OmittedClose ==
  {Alone(Input("update", Data(3), new, None, b2, "omitted"), Existing(1))}

ShorterUpdate ==
  {Alone(Targeting("update-buffer", b1, Data(1), None, "no"), Uploaded(3))}

\* One client creates, another writes to the account that it finds by then.
LargeRace ==
  {[Race([c \in Client |-> 4], NoAccounts) EXCEPT !.inputs[c1].op = "create"]}
===============================================================================
