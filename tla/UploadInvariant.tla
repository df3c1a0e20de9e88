----------------------------- MODULE UploadInvariant -----------------------------
(***************************************************************************)
(* Why uploads that race never tear metadata: the inductive invariant of   *)
(* ClientPlans under NeverTorn and BufferHoldsUpload.                      *)
(*                                                                         *)
(* An upload is put together in one buffer: at the PDA, when the metadata  *)
(* is created, or at a keypair of the client's own.  From the instruction  *)
(* that makes the buffer to the one that takes it, the buffer belongs to   *)
(* one plan, and each byte of the data is there or still to be written.    *)
(*                                                                         *)
(* Operators take the accounts A and the jobs J they speak of, since a     *)
(* transaction that fails puts former accounts back.                       *)
(***************************************************************************)
EXTENDS ClientPlanProperties, ProgramMetadataProperties

-----------------------------------------------------------------------------
(* Jobs.                                                                   *)

\* The job works on the account at its PDA.
AtPlace(j) ==
  \/ j.op \in {"create", "update", "write"}
  \/ j.op = "create-buffer" /\ j.newBuffer = None

Place(j) == IF AtPlace(j) THEN {MetadataPda(j)} ELSE {}
Fresh(j) == {j.newBuffer} \ {None}
Given(j) == {j.buffer} \ {None}

\* Where the job publishes its data, and what it may close.
Target(j) == IF j.op = "create-buffer" THEN {} ELSE Place(j)
Closable(j) ==
  Given(j)
    \cup (IF j.op = "create-buffer" THEN Place(j) ELSE Fresh(j))
    \cup (IF j.op = "close-buffer" THEN {j.target} ELSE {})

\* A job that a user can ask for, with data that fits in an account; update-buffer,
\* which writes into a buffer that may be somebody else's, is not among them.
JobOK(j) ==
  /\ j.op # "update-buffer"
  /\ j.authority \in Wallet /\ j.program \in Program /\ j.seed \in Seed
  /\ j.codec \in Codec /\ j.dataSource \in DataSource /\ j.canonical \in BOOLEAN
  /\ j.data \in Seq(Byte) \ {<<>>} /\ HeaderLen + Len(j.data) <= MaxLen
  /\ Fresh(j) \subseteq BufferKey /\ Given(j) \subseteq Address
  /\ j.op \in {"update", "write"} /\ Len(j.data) > InlineLimit => Fresh(j) \cup Given(j) # {}
  /\ j.op = "close-buffer" => j.target \in Address /\ Fresh(j) = {} /\ Given(j) = {}

\* The client has found out whether its authority speaks for the program.
Informed(j) ==
  \A yes \in IsProgramAuthority(j.program, j.canonical, j.authority) : yes = j.canonical

\* Keypairs are fresh: no two jobs have one in common, and none is a given buffer.
Disjoint(J) ==
  \A c, d \in Client :
    /\ c # d => Fresh(J[c].input) \cap Fresh(J[d].input) = {}
    /\ Given(J[c].input) \cap (Fresh(J[d].input) \cup Place(J[d].input)) = {}

-----------------------------------------------------------------------------
(* Plans.                                                                  *)

\* What a plan for job j may consist of.
Piece(j, i) ==
  /\ i.offset + Len(i.data) <= Len(j.data)
  /\ \A p \in DOMAIN i.data : i.data[p] = j.data[i.offset + p]

Instructions(j) ==
       {[do |-> "allocate"] : a \in Place(j)}
  \cup {[do |-> "initialize", data |-> data] : data \in {<<>>, j.data}, a \in Target(j)}
  \cup [do : {"transfer"}, account : Place(j), amount : Nat]
  \cup [do : {"extend"}, account : Place(j), length : Nat]
  \cup [do : {"trim"}, account : Target(j)]
  \cup [do : {"setData"}, account : Target(j), data : {j.data}]
  \cup [do : {"setDataFrom"}, account : Target(j), source : Fresh(j) \cup Given(j)]
  \cup [do : {"createAccount"}, account : Fresh(j), length : {Len(j.data)}]
  \cup [do : {"allocateKeypair", "setAuthority"}, account : Fresh(j)]
  \cup {i \in [do : {"write"}, account : Place(j) \cup Fresh(j), offset : Nat, data : Seq(Byte)] :
          Piece(j, i)}
  \cup [do : {"writeFrom"}, account : Place(j) \cup Fresh(j), source : Given(j)]
  \cup [do : {"close"}, account : Closable(j)]

\* The order in which instructions come in every plan.
Rank ==
  [transfer |-> 1, allocate |-> 2, extend |-> 3,
   createAccount |-> 4, allocateKeypair |-> 5, setAuthority |-> 6,
   write |-> 7, writeFrom |-> 7,
   initialize |-> 8, setData |-> 8, setDataFrom |-> 8, close |-> 9, trim |-> 10]

Sorted(P) ==
  \A s, t \in DOMAIN P : \A i \in P[s], k \in P[t] :
    /\ s < t => Rank[i.do] < Rank[k.do] \/ (i.do = "extend" /\ k.do = "extend")
    /\ s = t => i = k \/ (i.do = "write" /\ k.do = "write")

\* What remains to be done.
Remaining(P) == UNION {P[s] : s \in DOMAIN P}

Has(P, do) == \E i \in Remaining(P) : i.do = do

Covers(i, t, p) ==
  /\ i.do \in {"write", "writeFrom"} /\ i.account = t
  /\ i.do = "write" => p - i.offset \in DOMAIN i.data

\* Each byte of data is in body or will be written to account t by plan P, and nothing
\* but zeros is behind it.
Partly(body, P, t, data) ==
  /\ \A p \in DOMAIN data :
       \/ p \in DOMAIN body /\ body[p] = data[p]
       \/ \E i \in Remaining(P) : Covers(i, t, p)
  /\ \A p \in DOMAIN body : p > Len(data) => body[p] = Zero

\* The plan is to put an upload together at its PDA...
Building(j, P) ==
  /\ AtPlace(j)
  /\ \/ j.op = "create-buffer"
     \/ \E i \in Remaining(P) :
          \/ i.do \in {"write", "writeFrom"} /\ i.account \in Place(j)
          \/ i.do = "initialize" /\ i.data = <<>>

\* ...or in its keypair's account.
Filling(j, P) ==
  /\ Fresh(j) # {}
  /\ \/ j.op = "create-buffer"
     \/ \E i \in Remaining(P) :
          \/ i.do \in {"write", "writeFrom", "close"} /\ i.account \in Fresh(j)
          \/ i.do = "setDataFrom" /\ i.source \in Fresh(j)

\* The buffer is made, and is this plan's.
HoldsPlace(j, P) == Building(j, P) /\ ~Has(P, "allocate")
HoldsFresh(j, P) == Filling(j, P) /\ ~Has(P, "createAccount")

\* The Extends that remain make n bytes at most of a buffer of len bytes.
Growing(P, len, n) ==
  \A s \in DOMAIN P : \A i \in P[s] :
    i.do = "extend" => P[s] = {i} /\ len + (s - 1) * ReallocLimit + i.length <= n

\* The same of a buffer that is yet to be allocated, by the stage before.
GrowingAfterAllocate(P, n) ==
  \A d, s \in DOMAIN P : \A i \in P[s] :
    [do |-> "allocate"] \in P[d] /\ i.do = "extend" =>
      P[s] = {i} /\ (s - d - 1) * ReallocLimit + i.length <= n

-----------------------------------------------------------------------------
(* The parts of the invariant that speak of accounts.                      *)

Sound(A) ==
  /\ A \in [Address -> AccountRecord]
  /\ \A a \in Address : WellFormed(a, A[a])

\* What there was to begin with, and what clients were given to publish.
Wanted(J) ==
  Former \cup {[codec |-> J[c].input.codec, data |-> J[c].input.data] :
                c \in {c \in Client : J[c].input.op \in {"create", "update", "write"}}}

\* NeverTorn, of any address.
Whole(J, a, r) ==
  IsMetadata(r) =>
    \E u \in Wanted(J) : Holds(r, u) /\ (r.dataLength = Len(u.data) \/ Misled(J, a))

\* The buffer a user uploads from holds the data, until it is closed.
GivenHolds(j, A) ==
  \A b \in Given(j) : IsVacant(A[b]) \/ (ValidBuffer(A[b]) /\ A[b].body = j.data)

\* The buffer is no longer than the data, unless somebody was misled into extending it.
PlaceHolds(J, j, P, A) ==
  Building(j, P) =>
    LET a == MetadataPda(j)
    IN  IF Has(P, "allocate")
        THEN Partly(<<>>, P, a, j.data) /\ GrowingAfterAllocate(P, Len(j.data))
        ELSE /\ ValidBuffer(A[a])
             /\ Partly(A[a].body, P, a, j.data)
             /\ \/ Misled(J, a)
                \/ /\ Len(A[a].body) <= Len(j.data)
                   /\ Growing(P, Len(A[a].body), Len(j.data))

FreshHolds(j, P, A) ==
  Filling(j, P) =>
    LET b == j.newBuffer
    IN  IF Has(P, "createAccount") THEN Partly(<<>>, P, b, j.data)
        ELSE /\ A[b].owner = "self"
             /\ Partly(A[b].body, P, b, j.data) /\ Len(A[b].body) <= Len(j.data)

\* The metadata that an update found is metadata still, unless a user closes it.
FoundOK(J, c, A) ==
  LET a == MetadataPda(J[c].input)
  IN  /\ J[c].input.op \in {"update", "write"} /\ J[c].found = "metadata"
      /\ \A d \in Client : J[d].input.op = "close-buffer" => J[d].input.target # a
      => IsMetadata(A[a])

\* What a user closes is there, and no plan is putting anything together in it.
ClosingOK(J, c, A) ==
  J[c].input.op = "close-buffer" =>
    \A d \in Client :
      LET j == J[c].input
          k == J[d].input
          P == J[d].plan
      IN  /\ j.target \in Place(k) \cup Fresh(k) => ~IsVacant(A[j.target])
          /\ J[d].status = "running" /\ HoldsPlace(k, P) => j.target \notin Place(k)
          /\ J[d].status = "running" /\ HoldsFresh(k, P) => j.target \notin Fresh(k)
          /\ J[d].status = "running" /\ k.op = "close-buffer" => c = d

\* The job leaves a buffer that is nobody else's.
OwnBuffer(J, c) ==
  /\ J[c].input.op = "create-buffer"
  /\ Fresh(J[c].input) = {} =>
       \A d \in Client : Place(J[c].input) \cap Place(J[d].input) # {} => c = d

LeftHolds(J, c, A) ==
  LET j == J[c].input
  IN  J[c].status = "done" /\ OwnBuffer(J, c) =>
        \A b \in Place(j) \cup Fresh(j) : ValidBuffer(A[b]) => A[b].body = j.data

AccountsOK(J, A) ==
  /\ Sound(A)
  /\ \A a \in Address : Whole(J, a, A[a])
  /\ \A c \in Client :
       /\ GivenHolds(J[c].input, A)
       /\ J[c].status = "running" =>
            /\ PlaceHolds(J, J[c].input, J[c].plan, A)
            /\ FreshHolds(J[c].input, J[c].plan, A)
            /\ FoundOK(J, c, A) /\ ClosingOK(J, c, A)
       /\ LeftHolds(J, c, A)

-----------------------------------------------------------------------------
(* The parts that speak of jobs.                                           *)

ClientJob == {"input", "status", "plan", "whole", "found", "alone"}

PlanOK(j, P) ==
  /\ P \in Seq((SUBSET Instructions(j)) \ {{}})
  /\ Sorted(P)
  /\ Len(j.data) <= ReallocLimit => ~Has(P, "extend")

\* Who extends an account in which it puts nothing together, updates what it found.
ExtendsFound(j, P, found) ==
  Has(P, "extend") /\ ~Building(j, P) =>
    j.op \in {"update", "write"} /\ found \in {"metadata", "other"}

\* Who is alone is the only one.
AloneOK(J) ==
  \A c, d \in Client :
    J[c].status = "running" /\ J[c].alone /\ J[d].status = "running" => c = d

JobsOK(J) ==
  /\ DOMAIN J = Client
  /\ \A c \in Client :
       /\ DOMAIN J[c] = ClientJob
       /\ JobOK(J[c].input) /\ Informed(J[c].input)
       /\ PlanOK(J[c].input, J[c].plan)
       /\ ExtendsFound(J[c].input, J[c].plan, J[c].found)
       /\ J[c].status = "running" <=> J[c].plan # <<>>
  /\ Disjoint(J) /\ AloneOK(J)

\* No two plans hold one PDA.
Exclusive(J) ==
  \A c, d \in Client :
    /\ J[c].status = "running" /\ HoldsPlace(J[c].input, J[c].plan)
    /\ J[d].status = "running" /\ HoldsPlace(J[d].input, J[d].plan)
    /\ Place(J[c].input) \cap Place(J[d].input) # {}
    => c = d

\* The jobs when the transaction of client c has failed.
Without(J, c) == [J EXCEPT ![c].status = "refused", ![c].plan = <<>>]

\* Nothing is lost when the transaction that is running fails.
OpenOK ==
  open # None =>
    /\ open.client \in Client
    /\ AccountsOK(Without(job, open.client), open.acct)

\* What keeps uploads apart while they race, fail and are killed: whoever has made the
\* buffer of an upload has each byte of the data in it or still to write; nobody else
\* closes it or writes into it, and who grows it was misled; and metadata is what one of
\* them was given (createMetadata.ts:113, updateMetadata.ts:149, createBuffer.ts:38).
UploadInv ==
  /\ prog \in [Program -> ProgramRecord] /\ signer \in Signer \cup {None}
  /\ JobsOK(job) /\ Exclusive(job)
  /\ AccountsOK(job, acct)
  /\ OpenOK

(***************************************************************************)
(* What the uploads start from: jobs of users who know their authority and *)
(* take new keypairs; accounts as the program leaves them, where metadata  *)
(* is whole and the buffers to upload from hold what they should.          *)
(***************************************************************************)
UploadScene ==
  /\ \A c \in Client : JobOK(job[c].input) /\ Informed(job[c].input)
  /\ Disjoint(job)
  /\ Sound(acct)
  /\ \A a \in Address : Whole(job, a, acct[a])
  /\ \A c \in Client : GivenHolds(job[c].input, acct)
===============================================================================
