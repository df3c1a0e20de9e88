--------------------------- MODULE UploadRefinement ---------------------------
(***************************************************************************)
(* The plans of the JavaScript client implement AtomicUploads.  What shows *)
(* is the metadata there is between two transactions: while one runs, the  *)
(* accounts and the plan are still those from before it.                   *)
(***************************************************************************)
EXTENDS UploadInvariant

\* Data up to its last byte that is not zero: what the races of clients leave the same
\* (ClientPlanProperties!Misled).
Stripped(data) ==
  [i \in {i \in DOMAIN data : \E k \in DOMAIN data : i <= k /\ data[k] # Zero} |-> data[i]]

Document(r) ==
  [codec |-> r.codec, source |-> r.dataSource,
   data |-> Stripped(SubSeq(r.body, 1, r.dataLength))]

\* The documents that the accounts A show.
Showing(A) == [a \in {a \in Pda : IsMetadata(A[a])} |-> Document(A[a])]

SettledAccounts == IF open = None THEN acct ELSE open.acct

SettledPlan(c) ==
  IF open # None /\ open.client = c THEN open.plan ELSE job[c].plan

Publication == {"initialize", "setData", "setDataFrom"}

\* The plan has yet to publish.
ToPublish(P) == \E i \in Remaining(P) : i.do \in Publication

StageOf(c) ==
  IF Running(c) /\ Publishing(c) /\ ~ToPublish(SettledPlan(c)) THEN "published"
  ELSE job[c].status

DocumentOf(j) ==
  [codec |-> j.codec, source |-> j.dataSource, data |-> Stripped(j.data)]

RequestOf(j) ==
  [goal     |-> CASE j.op = "close-buffer"                   -> "remove"
                  [] j.op \in {"create", "update", "write"} -> j.op
                  [] OTHER                                   -> "prepare",
   place    |-> IF j.op = "close-buffer" THEN j.target ELSE MetadataPda(j),
   document |-> DocumentOf(j)]

Atomic == INSTANCE AtomicUploads WITH
  shown   <- Showing(SettledAccounts),
  request <- [c \in Client |-> RequestOf(job[c].input)],
  stage   <- [c \in Client |-> StageOf(c)]

\* To its user an upload is atomic: in as many transactions as it is sent, and whatever
\* creates, updates and writes of the same account are sent in between, refused or
\* killed, it replaces what shows there by its own document at one moment between its
\* beginning and its end; a client that reports success has published, once, and
\* createMetadata replaces nothing, updateMetadata something (createMetadata.ts:59,
\* updateMetadata.ts:66).  A document is the data but for zeros at its end, of which
\* clients that extend the buffer of another may add some.
ImplementsAtomicUploads == Atomic!Spec

-----------------------------------------------------------------------------
(* Why, besides UploadInv.                                                 *)

\* A plan to create does not set the data of what is there, one to update does not
\* initialize.
Aims(j, P) ==
  /\ j.op = "create" => ~Has(P, "setData") /\ ~Has(P, "setDataFrom")
  /\ j.op = "update" => ~Has(P, "initialize")

\* Documents S, with the one of job j in its place.
WithDocument(S, j) ==
  [a \in DOMAIN S \cup {MetadataPda(j)} |-> IF a = MetadataPda(j) THEN DocumentOf(j) ELSE S[a]]

\* From plan P and accounts A to plan Q and accounts B, job j has published or not.
Progress(j, P, A, Q, B) ==
  \/ (ToPublish(P) <=> ToPublish(Q)) /\ Showing(B) = Showing(A)
  \/ /\ j.op \in {"create", "update", "write"}
     /\ ToPublish(P) /\ ~ToPublish(Q)
     /\ j.op = "create" => MetadataPda(j) \notin DOMAIN Showing(A)
     /\ j.op = "update" => MetadataPda(j) \in DOMAIN Showing(A)
     /\ Showing(B) = WithDocument(Showing(A), j)

AtomicInv ==
  /\ UploadInv
  /\ \A c \in Client : Running(c) => Aims(job[c].input, job[c].plan)
  /\ open # None =>
       LET j == job[open.client].input
       IN  /\ Running(open.client) /\ j.op # "close-buffer"
           /\ Progress(j, open.plan, open.acct, job[open.client].plan, acct)
===============================================================================
