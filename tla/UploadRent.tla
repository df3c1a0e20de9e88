------------------------------- MODULE UploadRent -------------------------------
(***************************************************************************)
(* Why users who come one after the other pay for what they keep: the      *)
(* inductive invariant under NothingLeftOver.  While a client runs, what   *)
(* its account holds and what its plan has still to transfer are together  *)
(* the rent of its data, unless the plan has still to trim; every other    *)
(* account is at its rent.                                                 *)
(***************************************************************************)
EXTENDS UploadRefinement

\* The account is at its rent, and holds nothing behind its data.
Neat(r) ==
  r.owner = "self" =>
    /\ r.lamports = MinBalance(DataLen(r))
    /\ IsMetadata(r) => Len(r.body) = r.dataLength

\* The client found what its job needs.
Expected(j, found) ==
  /\ j.op \in {"create", "create-buffer"} => found = "nothing"
  /\ j.op = "update" => found = "metadata"
  /\ j.op = "write" => found \in {"nothing", "metadata"}

\* Up to now nobody has disturbed, refused or killed anybody.
SoFar(J) ==
  \A c \in Client :
    \/ J[c].status = "waiting"
    \/ J[c].status \in {"running", "done"} /\ J[c].alone /\ Expected(J[c].input, J[c].found)

ClosesLater(P, b) == \E i \in Remaining(P) : i.do = "close" /\ i.account = b

\* What the account at the PDA has and is yet to get is the rent of the data; once the
\* data is published, the account holds just that.
PlaceRent(j, P, A) ==
  AtPlace(j) =>
    LET r == A[MetadataPda(j)]
    IN  /\ ~Has(P, "trim") =>
             /\ \A i \in Remaining(P) :
                  i.do = "transfer" => r.lamports + i.amount = Rent(Len(j.data))
             /\ ~Has(P, "transfer") => r.lamports = Rent(Len(j.data))
        /\ j.op # "create-buffer" /\ ~ToPublish(P) =>
             /\ IsMetadata(r) /\ r.dataLength = Len(j.data) /\ Len(r.body) = Len(j.data)
             /\ \A i \in Remaining(P) : i.do \in {"close", "trim"}

FreshRent(j, P, A) ==
  /\ HoldsFresh(j, P) => Len(A[j.newBuffer].body) = Len(j.data)
  /\ Has(P, "allocateKeypair") => Has(P, "createAccount") \/ A[j.newBuffer].owner = "self"
  /\ j.op # "create-buffer" /\ Closes(j) /\ Has(P, "createAccount") =>
       ClosesLater(P, j.newBuffer)

\* The buffers that the job is to close are not there, or are yet to be closed.
ClosedOK(J, A) ==
  \A c \in Client :
    LET j == J[c].input
    IN  j.op \in {"create", "update", "write"} /\ Closes(j) =>
          \A b \in Fresh(j) \cup Given(j) :
            \/ A[b].lamports = 0
            \/ J[c].status = "waiting" /\ b \in Given(j)
            \/ J[c].status = "running" /\ ClosesLater(J[c].plan, b)

\* The wallets are the users', and no buffers.
WalletsOK(J, A) ==
  /\ \A k \in Wallet : A[k].owner = "system"
  /\ \A c \in Client : Wallet \cap (Fresh(J[c].input) \cup Given(J[c].input)) = {}

RentOK(J, A) ==
  /\ \A a \in Address :
       Neat(A[a]) \/ \E c \in Client : J[c].status = "running" /\ a \in Place(J[c].input)
  /\ \A c \in Client :
       J[c].status = "running" =>
         PlaceRent(J[c].input, J[c].plan, A) /\ FreshRent(J[c].input, J[c].plan, A)
  /\ ClosedOK(J, A) /\ WalletsOK(J, A)

\* As long as nobody is disturbed, the account that a client works on holds the rent of
\* its data but for what its plan has still to transfer or to trim, every other account
\* is at its rent, and the buffers to be closed are gone or yet to be closed
\* (createMetadata.ts:205, updateMetadata.ts:187-208).
RentInv ==
  /\ UploadInv
  /\ SoFar(job) => RentOK(job, acct)

(***************************************************************************)
(* What it takes, besides UploadScene: the accounts there are, are at      *)
(* their rent; keypairs for buffers are new, and not those of wallets; and *)
(* rent is an amount for each byte and one for the account, as the runtime *)
(* has it and ExtraRent takes for granted (updateMetadata.ts:274).         *)
(***************************************************************************)
RentScene ==
  /\ \A a \in Address : Neat(acct[a])
  /\ \A c \in Client : \A b \in Fresh(job[c].input) : acct[b].lamports = 0
  /\ WalletsOK(job, acct)

RentIsLinear ==
  \A m, n \in 0 .. MaxLen :
    m + n <= MaxLen => MinBalance(m + n) = MinBalance(m) + MinBalance(n) - MinBalance(0)
===============================================================================
