-------------------------- MODULE ClientPlanProperties --------------------------
(* What the plans of the JavaScript client promise their users and readers. *)
EXTENDS ClientPlans

CONSTANT
  Former   \* the contents of the metadata there was at the start

ASSUME FormerAssumption == \A u \in Former : u.data \in Seq(Byte)

\* What an account's header says about its data, and the data it counts.
Content(r) == [codec |-> r.codec, data |-> SubSeq(r.body, 1, r.dataLength)]

\* The data of upload u, whole and under its codec, and zeros behind it.
Holds(r, u) ==
  /\ r.codec = u.codec
  /\ Len(u.data) <= r.dataLength /\ r.dataLength <= Len(r.body)
  /\ \A i \in DOMAIN r.body : r.body[i] = IF i <= Len(u.data) THEN u.data[i] ELSE Zero

Intent(c) == [codec |-> job[c].input.codec, data |-> job[c].input.data]

Publishing(c) == job[c].input.op \in {"create", "update", "write"}

Stands(c) ==
  LET r == acct[MetadataPda(job[c].input)]
  IN  r.discriminator = "Metadata" /\ Content(r) = Intent(c)

\* What the job needs to find.
Suitable(c) ==
  \/ job[c].input.op \in {"create", "create-buffer"} /\ job[c].found = "nothing"
  \/ job[c].input.op = "update" /\ job[c].found = "metadata"
  \/ job[c].input.op = "write" /\ job[c].found \in {"nothing", "metadata"}
  \/ job[c].input.op \in {"update-buffer", "close-buffer"} /\ job[c].found = "other"

\* A plan that did not meet another one.
Undisturbed(c) == job[c].alone /\ Suitable(c)

\* While another client ran, somebody updated the account at a with data so long that it
\* has to be extended first, and it was not metadata: the client had taken the buffer of
\* another upload for it (updateMetadata.ts:117), or a user was to close what it found.
Misled(J, a) ==
  \E c \in Client :
    LET j == J[c].input
    IN  /\ j.op \in {"update", "write"} /\ MetadataPda(j) = a
        /\ Len(j.data) > ReallocLimit
        /\ J[c].status \notin {"waiting", "rejected"} /\ ~J[c].alone
        /\ \/ J[c].found = "other"
           \/ /\ J[c].found = "metadata"
              /\ \E d \in Client : J[d].input.op = "close-buffer" /\ J[d].input.target = a

(***************************************************************************)
(* Whatever creates, updates and writes race, stop half way or are killed, *)
(* metadata holds the data of one of them, never a mixture, under the      *)
(* codec it came with, and zeros behind it (createMetadata.ts:113,         *)
(* updateMetadata.ts:149: the data is put together in a buffer and         *)
(* published by one instruction).  The length in the header is that of the *)
(* data; unless a client was misled into extending the buffer of another,  *)
(* when some of the zeros are published with it (CreatedAsAsked).          *)
(***************************************************************************)
NeverTorn ==
  \A a \in Pda :
    LET r == acct[a]
    IN  r.discriminator = "Metadata" =>
          \E u \in Former \cup {Intent(c) : c \in {c \in Client : Publishing(c)}} :
            /\ Holds(r, u)
            /\ r.dataLength = Len(u.data) \/ Misled(job, a)

(***************************************************************************)
(* When writers raced on one account and all have stopped: if none was     *)
(* killed, somebody was told of success, and what stands there is the data *)
(* of one of those that were.  If some were killed, it may be the data of  *)
(* one of them, who had published before; and where nobody was told of     *)
(* success, anything may stand (writeMetadata.ts:36).                      *)
(***************************************************************************)
SomebodyWins ==
  (\A c \in Client : Ended(c) /\ Publishing(c)) =>
    LET killed == {c \in Client : job[c].status = "crashed"}
        told   == {c \in Client : job[c].status = "done"}
    IN  /\ killed = {} => told # {}
        /\ told # {} =>
             \E c \in told \cup killed :
               LET r == acct[MetadataPda(job[c].input)]
               IN  r.discriminator = "Metadata" /\ Holds(r, Intent(c))

\* The rent, lengths and order of every plan are right: nothing refuses the plan of a
\* client that nobody disturbs and that finds an account fit for its job.
UndisturbedSucceeds ==
  \A c \in Client : job[c].status = "refused" => ~Undisturbed(c)

(***************************************************************************)
(* Users who come one after the other pay for what they keep: when all are *)
(* done, every account of the program is at exactly its rent, metadata     *)
(* holds its data and nothing more (a buffer may hold a tail of former     *)
(* data: UpdatedBufferIsNewData), and the buffers that were to be closed   *)
(* are gone (updateMetadata.ts:187-208, createMetadata.ts:205).            *)
(***************************************************************************)
NothingLeftOver ==
  (\A c \in Client : job[c].status = "waiting" \/ (job[c].status = "done" /\ Undisturbed(c)))
  => /\ \A a \in Address :
          acct[a].owner = "self" =>
            /\ acct[a].lamports = MinBalance(DataLen(acct[a]))
            /\ acct[a].discriminator = "Metadata" => Len(acct[a].body) = acct[a].dataLength
     /\ \A d \in Client :
          LET j == job[d].input
          IN  job[d].status = "done" /\ Publishing(d) /\ Closes(j) =>
                \A b \in {j.buffer, j.newBuffer} \ {None} : ~Exists(b)

\* What the upload of a client puts together in a buffer of its own is what it was
\* given, wherever the chunks landed first (createBuffer.ts:38, createBuffer.ts:161).
BufferHoldsUpload ==
  \A c \in Client :
    LET j == job[c].input
        b == IF j.newBuffer = None THEN MetadataPda(j) ELSE j.newBuffer
    IN  (j.op = "create-buffer" /\ job[c].status = "done" /\ ValidBuffer(acct[b]))
          => acct[b].body = j.data

\* An upload that nobody disturbs, of data of any length, is published in the end,
\* unless its client is killed (createMetadata.ts:59, updateMetadata.ts:66).
UploadPublishes ==
  \A c \in Client :
    (Running(c) /\ Publishing(c)) ~>
      (Stands(c) \/ ~Undisturbed(c) \/ job[c].status = "crashed")
===============================================================================
