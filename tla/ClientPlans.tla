------------------------------ MODULE ClientPlans ------------------------------
(***************************************************************************)
(* The JavaScript client's plans over the program.  A user asks for one    *)
(* job: the client fetches the accounts it names, decides how to go about  *)
(* it, and sends the plan's instructions in transactions, while other      *)
(* users of the same authority do the same.                                *)
(*                                                                         *)
(* A plan is a sequence of stages, a stage a set of instructions that may  *)
(* run in any order.  The planner packs a plan into as many transactions   *)
(* as it needs, so a transaction may end after any instruction; a plan     *)
(* that was found to fit in one transaction ends with its last.            *)
(***************************************************************************)
EXTENDS ProgramMetadata, FiniteSets

CONSTANTS
  Client,       \* the runs of the client, each for one job
  Scenario,     \* [inputs, accounts]: a job for each client, the accounts there are
  InlineLimit,  \* the longest data that fits in a transaction with what it needs
  ChunkLen,     \* the data of one Write
  MaxCrashes    \* clients that may be killed

ASSUME PlanAssumption ==
  /\ InlineLimit \in Nat /\ MaxCrashes \in Nat
  /\ ChunkLen \in Nat \ {0} /\ ReallocLimit > 0
  /\ \A s \in Scenario, c \in Client :
       /\ DOMAIN s.accounts \subseteq Address
       /\ s.inputs[c].data # <<>>

VARIABLES
  job,    \* per client: its input and how far it is
  open    \* the accounts, and the plan, before the transaction that is running; None
          \* between two

planVars == <<vars, job, open>>

\* found and alone are history, read by properties only: what the client's account
\* was when it looked, and whether no other client ran at the same time.
Waiting(input) ==
  [input |-> input, status |-> "waiting", plan |-> <<>>, whole |-> FALSE,
   found |-> None, alone |-> FALSE]

Running(c) == job[c].status = "running"
Ended(c) == job[c].status \in {"done", "rejected", "refused", "crashed"}

-----------------------------------------------------------------------------
(* What clients read.                                                      *)

\* resolveMetadataPda.
MetadataPda(j) == DerivedPda(j.canonical, j.program, j.authority, j.seed)

Exists(a) == acct[a].lamports > 0
Decodable(a) == Exists(a) /\ acct[a].head = HeaderLen

\* Where metadata says whether it is mutable, a buffer says whether it is canonical.
DecodedMutable(r) == IF r.discriminator = "Metadata" THEN r.mutable ELSE r.canonical

Found(a) ==
  IF ~Exists(a) THEN "nothing"
  ELSE IF ValidMetadata(acct[a]) THEN "metadata" ELSE "other"

Rent(n) == MinBalance(HeaderLen + n)
ExtraRent(n) == IF n > 0 THEN MinBalance(n) - MinBalance(0) ELSE 0

-----------------------------------------------------------------------------
(* Instructions and how they run.                                          *)

\* The system program creates an account that holds nothing yet, at its full length.
CreateAccount(k, a, n) ==
  /\ IsVacant(acct[k]) /\ IsVacant(acct[a]) /\ acct[a].lamports = 0
  /\ Rent(n) <= acct[k].lamports
  /\ acct' = [acct EXCEPT
                ![k].lamports = @ - Rent(n),
                ![a] = Zeroed("self", Rent(n), HeaderLen, Fit(<<>>, n))]
  /\ Commit(k, {k, a})

Run(j, i) ==
  LET k == j.authority
  IN  \/ i.do = "transfer" /\ Transfer(k, i.account, i.amount)
      \/ i.do = "createAccount" /\ CreateAccount(k, i.account, i.length)
      \/ i.do = "allocateKeypair" /\ AllocateKeypair(i.account)
      \/ i.do = "allocate" /\ AllocatePda(k, j.program, j.seed, j.canonical)
      \/ i.do = "setAuthority" /\ SetBufferAuthority(i.account, i.account, k)
      \/ i.do = "extend" /\ Extend(k, i.account, i.length)
      \/ i.do = "write" /\ WriteData(k, i.account, i.offset, i.data)
      \/ i.do = "writeFrom" /\ WriteFromBuffer(k, i.account, 0, i.source)
      \/ i.do = "initialize"
         /\ Initialize(k, j.program, j.seed, j.canonical, j.codec, j.dataSource, i.data)
      \/ i.do = "setData" /\ SetData(k, i.account, j.codec, j.dataSource, i.data)
      \/ i.do = "setDataFrom"
         /\ SetDataFromBuffer(k, i.account, j.codec, j.dataSource, i.source)
      \/ i.do = "trim" /\ Trim(k, i.account, k)
      \/ i.do = "close" /\ Close(k, i.account, k)

-----------------------------------------------------------------------------
(* Plans.                                                                  *)

\* closeBuffer may be left out, which does not close.
Closes(j) == j.closeBuffer = "yes"

Stage(i) == <<{i}>>
Unless(skip, plan) == IF skip THEN <<>> ELSE plan

TransferPlan(a, n) == Stage([do |-> "transfer", account |-> a, amount |-> n])
ClosePlan(a) == Stage([do |-> "close", account |-> a])
TrimPlan(a) == Stage([do |-> "trim", account |-> a])

\* Mutant of ExtendPlan: one instruction, whatever the length.
ExtendPlanAtOnce(a, total) ==
  Stage([do |-> "extend", account |-> a, length |-> total])

\* Instructions of ReallocLimit bytes, the last one of what remains.
ExtendPlan(a, total) ==
  LET n == (total + ReallocLimit - 1) \div ReallocLimit
  IN  [i \in 1 .. n |->
         {[do |-> "extend", account |-> a,
           length |-> IF i < n THEN ReallocLimit ELSE total - (n - 1) * ReallocLimit]}]

\* Mutant of GrowPlan: the limit is taken to be one more than it is.
GrowPlanLate(a, n) == Unless(n <= ReallocLimit + 1, ExtendPlan(a, n))

GrowPlan(a, n) == Unless(n <= ReallocLimit, ExtendPlan(a, n))

\* Mutant of WritePlan: what does not fill a chunk is left out.
WritePlanFullChunks(b, data) ==
  <<{[do |-> "write", account |-> b, offset |-> o,
      data |-> SubSeq(data, o + 1, o + ChunkLen)]
     : o \in {o \in 0 .. Len(data) - ChunkLen : o % ChunkLen = 0}}>>

\* The chunks of the data, in parallel.
WritePlan(b, data) ==
  LET end(o) == IF o + ChunkLen < Len(data) THEN o + ChunkLen ELSE Len(data)
  IN  <<{[do |-> "write", account |-> b, offset |-> o,
          data |-> SubSeq(data, o + 1, end(o))]
         : o \in {o \in 0 .. Len(data) - 1 : o % ChunkLen = 0}}>>

WriteFromPlan(b, source) ==
  Stage([do |-> "writeFrom", account |-> b, source |-> source])

InitializePlan(data) == Stage([do |-> "initialize", data |-> data])

\* Mutant of AllocatePlan: the rent leaves out the header.
AllocatePlanUnderfunded(j, n) ==
  LET a == MetadataPda(j)
  IN  TransferPlan(a, MinBalance(n)) \o Stage([do |-> "allocate"]) \o GrowPlan(a, n)

\* A buffer at the PDA, funded and long enough for n bytes.
AllocatePlan(j, n) ==
  LET a == MetadataPda(j)
  IN  TransferPlan(a, Rent(n)) \o Stage([do |-> "allocate"]) \o GrowPlan(a, n)

\* getCreateMetadataInstructionPlan...
CreateUsingInstructionData(j) ==
  TransferPlan(MetadataPda(j), Rent(Len(j.data))) \o InitializePlan(j.data)

\* Mutant of CreateUsingNewBuffer: Initialize is sent along with the writes.
CreateUsingNewBufferInParallel(j) ==
  AllocatePlan(j, Len(j.data))
    \o <<WritePlan(MetadataPda(j), j.data)[1] \cup InitializePlan(<<>>)[1]>>

CreateUsingNewBuffer(j) ==
  AllocatePlan(j, Len(j.data))
    \o WritePlan(MetadataPda(j), j.data) \o InitializePlan(<<>>)

\* Mutant of CreateUsingExistingBuffer: the copy is taken for the publication.
CreateUsingExistingBufferUnpublished(j, n) ==
  AllocatePlan(j, n) \o WriteFromPlan(MetadataPda(j), j.buffer)
    \o Unless(~Closes(j), ClosePlan(j.buffer))

CreateUsingExistingBuffer(j, n) ==
  AllocatePlan(j, n) \o WriteFromPlan(MetadataPda(j), j.buffer)
    \o InitializePlan(<<>>) \o Unless(~Closes(j), ClosePlan(j.buffer))

\* getCreateBufferInstructionPlan: into a new keypair's account, from the data or
\* from another buffer.
CreateBuffer(j, b, source, n) ==
  Stage([do |-> "createAccount", account |-> b, length |-> n])
    \o Stage([do |-> "allocateKeypair", account |-> b])
    \o Stage([do |-> "setAuthority", account |-> b])
    \o IF source = None THEN WritePlan(b, j.data)
       ELSE WriteFromPlan(b, source) \o Unless(~Closes(j), ClosePlan(source))

\* getPdaBufferInstructionPlan.
CreatePdaBuffer(j) ==
  AllocatePlan(j, Len(j.data)) \o WritePlan(MetadataPda(j), j.data)
    \o Unless(~Closes(j), ClosePlan(MetadataPda(j)))

\* Pays for what account a grows.
FundPlan(a, extra) == Unless(extra <= 0, TransferPlan(a, ExtraRent(extra)))

\* Mutant of ShrinkPlan: an update never gives back what it no longer needs.
ShrinkPlanNever(a, extra) == <<>>

ShrinkPlan(a, extra) == Unless(extra >= 0, TrimPlan(a))

SetDataFromPlan(a, b) == Stage([do |-> "setDataFrom", account |-> a, source |-> b])

\* getUpdateMetadataInstructionPlan..., where extra is the size difference to what
\* the client fetched.
UpdateUsingInstructionData(j, extra) ==
  LET a == MetadataPda(j)
  IN  FundPlan(a, extra)
        \o Stage([do |-> "setData", account |-> a, data |-> j.data])
        \o ShrinkPlan(a, extra)

\* Mutant of UpdateUsingNewBuffer: the buffer is closed before it is used.
UpdateUsingNewBufferClosedEarly(j, extra) ==
  LET a == MetadataPda(j)
  IN  FundPlan(a, extra) \o GrowPlan(a, extra)
        \o CreateBuffer(j, j.newBuffer, None, Len(j.data))
        \o Unless(~Closes(j), ClosePlan(j.newBuffer))
        \o SetDataFromPlan(a, j.newBuffer) \o ShrinkPlan(a, extra)

UpdateUsingNewBuffer(j, extra) ==
  LET a == MetadataPda(j)
  IN  FundPlan(a, extra) \o GrowPlan(a, extra)
        \o CreateBuffer(j, j.newBuffer, None, Len(j.data))
        \o SetDataFromPlan(a, j.newBuffer)
        \o Unless(~Closes(j), ClosePlan(j.newBuffer)) \o ShrinkPlan(a, extra)

UpdateUsingExistingBuffer(j, extra) ==
  LET a == MetadataPda(j)
  IN  FundPlan(a, extra) \o GrowPlan(a, extra) \o SetDataFromPlan(a, j.buffer)
        \o Unless(~Closes(j), ClosePlan(j.buffer)) \o ShrinkPlan(a, extra)

\* getUpdateBufferInstructionPlan.
UpdateBuffer(j, b, source, extra) ==
  FundPlan(b, extra) \o GrowPlan(b, extra)
    \o (IF source = None THEN WritePlan(b, j.data) ELSE WriteFromPlan(b, source))
    \o ShrinkPlan(b, extra)
    \o Unless(source = None \/ ~Closes(j), ClosePlan(source))

-----------------------------------------------------------------------------
(* A client begins: it fetches accounts, and sends a plan or throws.       *)

StartedWith(c, a, status, plan, whole) ==
  LET others == \E d \in Client \ {c} : Running(d)
  IN  [d \in Client |->
         IF d = c THEN [job[c] EXCEPT !.status = status, !.plan = plan,
                                      !.whole = whole, !.found = Found(a),
                                      !.alone = ~others]
         ELSE IF Running(d) THEN [job[d] EXCEPT !.alone = FALSE] ELSE job[d]]

Start(c, a, plan, whole) ==
  /\ job' = StartedWith(c, a, "running", plan, whole)
  /\ UNCHANGED <<vars, open>>

Reject(c, a) ==
  /\ job' = StartedWith(c, a, "rejected", <<>>, FALSE)
  /\ UNCHANGED <<vars, open>>

FromExisting(j) == j.buffer # None
Inline(j) == ~FromExisting(j) /\ Len(j.data) <= InlineLimit
BodyLen(a) == Len(acct[a].body)

\* getCreateMetadataInstructionPlan.
StartCreate(c) ==
  LET j == job[c].input
      a == MetadataPda(j)
  IN  \/ FromExisting(j) /\ ~Decodable(j.buffer) /\ Reject(c, a)
      \/ /\ FromExisting(j) /\ Decodable(j.buffer)
         /\ Start(c, a, CreateUsingExistingBuffer(j, BodyLen(j.buffer)), FALSE)
      \/ Inline(j) /\ Start(c, a, CreateUsingInstructionData(j), TRUE)
      \/ /\ ~FromExisting(j) /\ ~Inline(j)
         /\ Start(c, a, CreateUsingNewBuffer(j), FALSE)

\* getUpdateMetadataInstructionPlan.
StartUpdate(c) ==
  LET j == job[c].input
      a == MetadataPda(j)
      readable == Decodable(a) /\ (FromExisting(j) => Decodable(j.buffer))
      allowed == readable /\ DecodedMutable(acct[a])
  IN  \/ ~allowed /\ Reject(c, a)
      \/ /\ allowed /\ FromExisting(j)
         /\ Start(c, a, UpdateUsingExistingBuffer(j, BodyLen(j.buffer) - BodyLen(a)), FALSE)
      \/ /\ allowed /\ Inline(j)
         /\ Start(c, a, UpdateUsingInstructionData(j, Len(j.data) - BodyLen(a)), TRUE)
      \/ /\ allowed /\ ~FromExisting(j) /\ ~Inline(j)
         /\ Start(c, a, UpdateUsingNewBuffer(j, Len(j.data) - BodyLen(a)), FALSE)

\* getWriteMetadataInstructionPlan.
StartWrite(c) ==
  IF Exists(MetadataPda(job[c].input)) THEN StartUpdate(c) ELSE StartCreate(c)

\* The create-buffer command, and createCanonicalBuffer / createNonCanonicalBuffer.
StartCreateBuffer(c) ==
  LET j == job[c].input
      b == j.newBuffer
  IN  \/ /\ b = None
         /\ Start(c, MetadataPda(j), CreatePdaBuffer(j), FALSE)
      \/ /\ b # None /\ ~FromExisting(j)
         /\ Start(c, b, CreateBuffer(j, b, None, Len(j.data)), FALSE)
      \/ /\ b # None /\ FromExisting(j) /\ Decodable(j.buffer)
         /\ Start(c, b, CreateBuffer(j, b, j.buffer, BodyLen(j.buffer)), FALSE)
      \/ b # None /\ FromExisting(j) /\ ~Decodable(j.buffer) /\ Reject(c, b)

\* The update-buffer command.
StartUpdateBuffer(c) ==
  LET j == job[c].input
      b == j.target
      n == IF FromExisting(j) THEN BodyLen(j.buffer) ELSE Len(j.data)
  IN  IF Decodable(b) /\ (FromExisting(j) => Decodable(j.buffer))
      THEN Start(c, b, UpdateBuffer(j, b, j.buffer, n - BodyLen(b)), FALSE)
      ELSE Reject(c, b)

\* The close-buffer command.  Users close what a killed client left behind once its
\* last transactions have landed or expired.
StartCloseBuffer(c) ==
  LET b == job[c].input.target
  IN  /\ \A d \in Client : ~Running(d)
      /\ IF Decodable(b) THEN Start(c, b, ClosePlan(b), TRUE) ELSE Reject(c, b)

Begin(c) ==
  /\ job[c].status = "waiting"
  /\ open = None
  /\ \/ job[c].input.op = "create" /\ StartCreate(c)
     \/ job[c].input.op = "update" /\ StartUpdate(c)
     \/ job[c].input.op = "write" /\ StartWrite(c)
     \/ job[c].input.op = "create-buffer" /\ StartCreateBuffer(c)
     \/ job[c].input.op = "update-buffer" /\ StartUpdateBuffer(c)
     \/ job[c].input.op = "close-buffer" /\ StartCloseBuffer(c)

-----------------------------------------------------------------------------
(* A client goes on.                                                       *)

\* The client whose transaction is running is the only one that runs.
Turn(c) == Running(c) /\ (open # None => open.client = c)

\* The next instruction runs; the transaction ends with it or goes on.
Step(c) ==
  /\ Turn(c)
  /\ \E i \in Head(job[c].plan) :
       LET stage == Head(job[c].plan) \ {i}
           plan  == (IF stage = {} THEN <<>> ELSE <<stage>>) \o Tail(job[c].plan)
       IN  /\ Run(job[c].input, i)
           /\ job' = [job EXCEPT ![c].plan = plan,
                                 ![c].status = IF plan = <<>> THEN "done" ELSE @]
           /\ \/ ~job[c].whole /\ open' = None
              \/ plan = <<>> /\ open' = None
              \/ plan # <<>> /\ open' = IF open # None THEN open
                                        ELSE [client |-> c, acct |-> acct, plan |-> job[c].plan]

\* Instruction i cannot run now.
Fails(j, i) == ~ENABLED Run(j, i)

\* The next instruction fails: its transaction changes nothing and the client stops.
Refuse(c) ==
  /\ Turn(c)
  /\ \E i \in Head(job[c].plan) : Fails(job[c].input, i)
  /\ acct' = IF open = None THEN acct ELSE open.acct
  /\ open' = None
  /\ job' = [job EXCEPT ![c].status = "refused", ![c].plan = <<>>]
  /\ UNCHANGED <<prog, signer>>

\* The client is killed, or gives up; what it sent has landed.
Crash(c) ==
  /\ Running(c) /\ open = None
  /\ Cardinality({d \in Client : job[d].status = "crashed"}) < MaxCrashes
  /\ job' = [job EXCEPT ![c].status = "crashed", ![c].plan = <<>>]
  /\ UNCHANGED <<vars, open>>

PlanInit ==
  /\ prog \in InitialPrograms
  /\ signer = None
  /\ open = None
  /\ \E s \in Scenario :
       /\ acct = [a \in Address |->
                    IF a \in DOMAIN s.accounts THEN s.accounts[a]
                    ELSE Vacant(IF a \in Wallet THEN Supply ELSE 0)]
       /\ job = [c \in Client |-> Waiting(s.inputs[c])]

PlanNext == \E c \in Client : Begin(c) \/ Step(c) \/ Refuse(c) \/ Crash(c)

PlanSpec == PlanInit /\ [][PlanNext]_planVars

\* A client that runs goes on until its plan ends or is refused.
FairPlanSpec == PlanSpec /\ \A c \in Client : WF_planVars(Step(c) \/ Refuse(c))
===============================================================================
