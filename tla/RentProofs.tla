------------------------------- MODULE RentProofs -------------------------------
(***************************************************************************)
(* RentInv is inductive, so NothingLeftOver holds, for any number of       *)
(* clients and data of any length.  In the order of the module:            *)
(*   what an instruction of a plan does to balances (RunPays);             *)
(*   what the running client's account, its buffer, the accounts of others *)
(*   and the buffers to be closed are left with (PlaceRentStays,           *)
(*   FreshRentStays, OthersNeat, ClosedStays), and that the place is at    *)
(*   its rent when the plan ends (PlaceNeat);                              *)
(*   that every plan begins with the right transfers and closes (Planned); *)
(*   the actions of ClientPlans, one lemma each, and the theorems.         *)
(***************************************************************************)
EXTENDS UploadRent, AtomicUploadProofs

-----------------------------------------------------------------------------
(* Balances.                                                               *)

\* The wallet that pays apart, lamports change at the account the instruction is about.
Pays(j, i, A, A2) ==
  LET r == A[Spot(j, i)]
      s == A2[Spot(j, i)]
  IN  /\ \A b \in Address \ (Wallet \cup {Spot(j, i)}) : A2[b].lamports = A[b].lamports
      /\ Spot(j, i) \notin Wallet =>
           /\ i.do = "transfer" => s.lamports = r.lamports + i.amount
           /\ i.do = "createAccount" => s.lamports = Rent(i.length) /\ s.head = HeaderLen
           /\ i.do = "trim" => s.lamports = Rent(TrimmedLen(r))
           /\ i.do = "close" => s.lamports = 0
           /\ i.do \notin {"transfer", "createAccount", "trim", "close"} =>
                s.lamports = r.lamports
      /\ i.do = "allocateKeypair" /\ r.owner = "self" => s.head = r.head

\* How it is shown of an instruction that leaves r at its account.
LEMMA PutPays ==
  ASSUME IInv, NEW k, NEW j, NEW i, Spot(j, i) \in Address, NEW r, Put(k, Spot(j, i), r),
         r.lamports = acct[Spot(j, i)].lamports,
         i.do \notin {"transfer", "createAccount", "trim", "close"},
         i.do = "allocateKeypair" /\ acct[Spot(j, i)].owner = "self" =>
           r.head = acct[Spot(j, i)].head
  PROVE  Pays(j, i, acct, acct')
<1>1. DOMAIN acct = Address
  BY DEF IInv, TypeOK
<1>2. acct'[Spot(j, i)] = r /\ \A b \in Address \ {Spot(j, i)} : acct'[b] = acct[b]
  BY <1>1 DEF Put
<1> QED
  BY <1>2 DEF Pays

LEMMA PayOutPays ==
  ASSUME IInv, NEW k \in Wallet, NEW j, NEW i, Spot(j, i) \in Address, NEW r, NEW n,
         PayOut(k, Spot(j, i), r, k, n), i.do \in {"trim", "close"},
         i.do = "trim" => r.lamports = Rent(TrimmedLen(acct[Spot(j, i)])),
         i.do = "close" => r.lamports = 0
  PROVE  Pays(j, i, acct, acct')
<1>1. DOMAIN acct = Address
  BY DEF IInv, TypeOK
<1>2. acct'[Spot(j, i)] = r
  BY <1>1 DEF PayOut
<1>3. \A b \in Address \ (Wallet \cup {Spot(j, i)}) : acct'[b] = acct[b]
  BY <1>1 DEF PayOut
<1> QED
  BY <1>2, <1>3 DEF Pays

LEMMA TransferPays ==
  ASSUME IInv, NEW j, JobOK(j), NEW i, Fitting(j, i), i.do = "transfer", Run(j, i)
  PROVE  Pays(j, i, acct, acct')
<1> DEFINE k == j.authority
           a == i.account
<1>1. k \in Wallet /\ k \in Address /\ a \in Address /\ Spot(j, i) = a /\ i.amount \in Nat
  BY JobAddresses DEF JobOK, Fitting, Spot
<1>2. Transfer(k, a, i.amount)
  BY DEF Run
<1>3. DOMAIN acct = Address /\ acct[a] \in AccountRecord /\ a # k
  BY <1>1, <1>2 DEF IInv, TypeOK, Transfer
<1>4. \A b \in Address \ (Wallet \cup {a}) : acct'[b] = acct[b]
  BY <1>1, <1>2, <1>3 DEF Transfer
<1>5. acct'[a].lamports = acct[a].lamports + i.amount
  BY <1>1, <1>2, <1>3 DEF Transfer, AccountRecord
<1> QED
  BY <1>1, <1>4, <1>5 DEF Pays

LEMMA CreateAccountPays ==
  ASSUME IInv, NEW j, JobOK(j), NEW i, Fitting(j, i), i.do = "createAccount", Run(j, i)
  PROVE  Pays(j, i, acct, acct')
<1> DEFINE k == j.authority
           a == i.account
           made == Zeroed("self", Rent(i.length), HeaderLen, Fit(<<>>, i.length))
<1>1. k \in Wallet /\ k \in Address /\ a \in Address /\ Spot(j, i) = a
  BY JobAddresses DEF JobOK, Fitting, Spot
<1>2. CreateAccount(k, a, i.length)
  BY DEF Run
<1>3. DOMAIN acct = Address
  BY DEF IInv, TypeOK
<1>4. acct'[a] = made /\ \A b \in Address \ (Wallet \cup {a}) : acct'[b] = acct[b]
  BY <1>1, <1>2, <1>3 DEF CreateAccount
<1>5. made.lamports = Rent(i.length) /\ made.head = HeaderLen
  BY DEF Zeroed
<1> HIDE DEF made
<1> QED
  BY <1>1, <1>4, <1>5 DEF Pays

LEMMA AllocateKeypairPays ==
  ASSUME IInv, NEW j, JobOK(j), NEW i, Fitting(j, i), i.do = "allocateKeypair", Run(j, i)
  PROVE  Pays(j, i, acct, acct')
<1> DEFINE b == i.account
           r == [Claimed(acct[b]) EXCEPT !.discriminator = "Buffer", !.authority = b]
<1>1. b \in Address /\ Spot(j, i) = b
  BY JobAddresses DEF Fitting, Spot
<1>2. Put(b, b, r)
  BY DEF Run, AllocateKeypair
<1>3. acct[b] \in AccountRecord
  BY <1>1, Contents
<1>4. r.lamports = acct[b].lamports /\ (acct[b].owner = "self" => r.head = acct[b].head)
  <2>1. CASE IsVacant(acct[b])
    BY <2>1 DEF Claimed, Zeroed, IsVacant
  <2>2. CASE ~IsVacant(acct[b])
    BY <1>3, <2>2 DEF Claimed, AccountRecord
  <2> QED
    BY <2>1, <2>2
<1> HIDE DEF r
<1> QED
  BY <1>1, <1>2, <1>4, PutPays

LEMMA AllocatePdaPays ==
  ASSUME IInv, NEW j, JobOK(j), Informed(j), NEW i, Fitting(j, i), i.do = "allocate", Run(j, i)
  PROVE  Pays(j, i, acct, acct')
<1> DEFINE k == j.authority
           b == MetadataPda(j)
           r == [Claimed(acct[b]) EXCEPT !.discriminator = "Buffer",
                                         !.authority = k,
                                         !.program = j.program,
                                         !.canonical = j.canonical,
                                         !.seed = j.seed]
<1>1. b \in Address /\ Spot(j, i) = b
  BY JobAddresses DEF Spot
<1>2. AllocatePda(k, j.program, j.seed, j.canonical)
  BY DEF Run
<1>3. Put(k, b, r)
  BY <1>2 DEF AllocatePda, Informed, MetadataPda
<1>4. acct[b] \in AccountRecord
  BY <1>1, Contents
<1>5. r.lamports = acct[b].lamports
  <2>1. CASE IsVacant(acct[b])
    BY <2>1 DEF Claimed, Zeroed
  <2>2. CASE ~IsVacant(acct[b])
    BY <1>4, <2>2 DEF Claimed, AccountRecord
  <2> QED
    BY <2>1, <2>2
<1> HIDE DEF r
<1> QED
  BY <1>1, <1>3, <1>5, PutPays

\* Instructions that change data only.
LEMMA DataPays ==
  ASSUME IInv, NEW j, JobOK(j), Informed(j), NEW i, Fitting(j, i), Run(j, i),
         i.do \in {"setAuthority", "extend", "write", "writeFrom", "initialize",
                   "setData", "setDataFrom"}
  PROVE  Pays(j, i, acct, acct')
<1> DEFINE a == Spot(j, i)
<1>1. a \in Address /\ acct[a] \in AccountRecord
  <2>1. a \in Address
    BY JobAddresses DEF Fitting, Spot
  <2> QED
    BY <2>1, Contents
<1>2. ASSUME NEW k, NEW r, Put(k, a, r), r.lamports = acct[a].lamports
      PROVE  Pays(j, i, acct, acct')
  BY <1>1, <1>2, PutPays
<1> HIDE DEF a
<1>3. CASE i.do = "setAuthority"
  <2>1. Put(a, a, [acct[a] EXCEPT !.authority = j.authority])
    BY <1>3 DEF Run, SetBufferAuthority, Spot, a
  <2> QED
    BY <1>1, <1>2, <2>1 DEF AccountRecord
<1>4. CASE i.do = "extend"
  <2>1. Put(j.authority, a, Resized(acct[a], Len(acct[a].body) + i.length))
    BY <1>4 DEF Run, Extend, Spot, a
  <2> QED
    BY <1>1, <1>2, <2>1 DEF AccountRecord, Resized
<1>5. CASE i.do \in {"write", "writeFrom"}
  <2> DEFINE after == Overwrite(acct[a].body, IF i.do = "write" THEN i.offset ELSE 0,
                                IF i.do = "write" THEN i.data ELSE acct[i.source].body)
  <2>1. Put(j.authority, a, [acct[a] EXCEPT !.body = after])
    BY <1>5 DEF Run, WriteData, WriteFromBuffer, WriteBytes, Spot, a
  <2> HIDE DEF after
  <2> QED
    BY <1>1, <1>2, <2>1 DEF AccountRecord
<1>6. CASE i.do = "initialize"
  <2> DEFINE body == IF IsVacant(acct[a]) THEN i.data ELSE acct[a].body
             r == MetadataHeader([acct[a] EXCEPT !.body = body], j.authority, j.program, j.seed,
                                 j.canonical, j.codec, j.dataSource)
  <2>1. Put(j.authority, a, r)
    BY <1>6 DEF Run, Initialize, Informed, MetadataPda, Spot, a
  <2> HIDE DEF body
  <2>2. r.lamports = acct[a].lamports
    BY <1>1 DEF MetadataHeader, AccountRecord
  <2> HIDE DEF r
  <2> QED
    BY <1>2, <2>1, <2>2
<1>7. CASE i.do \in {"setData", "setDataFrom"}
  <2> DEFINE data == IF i.do = "setData" THEN i.data ELSE acct[i.source].body
  <2>1. Put(j.authority, a, [acct[a] EXCEPT !.codec = j.codec, !.dataSource = j.dataSource,
                                            !.dataLength = Len(data), !.body = data])
    BY <1>7 DEF Run, SetData, SetDataFromBuffer, SetBytes, Spot, a
  <2> HIDE DEF data
  <2> QED
    BY <1>1, <1>2, <2>1 DEF AccountRecord
<1> QED
  BY <1>3, <1>4, <1>5, <1>6, <1>7

LEMMA TrimAndClosePay ==
  ASSUME IInv, NEW j, JobOK(j), NEW i, Fitting(j, i), i.do \in {"trim", "close"}, Run(j, i)
  PROVE  Pays(j, i, acct, acct')
<1> DEFINE k == j.authority
           a == i.account
           n == TrimmedLen(acct[a])
           min == MinBalance(HeaderLen + n)
           r == [Resized(acct[a], n) EXCEPT !.lamports = min]
<1>1. k \in Wallet /\ a \in Address /\ Spot(j, i) = a /\ acct[a] \in AccountRecord
  <2>1. k \in Wallet /\ a \in Address /\ Spot(j, i) = a
    BY JobAddresses DEF JobOK, Fitting, Spot
  <2> QED
    BY <2>1, Contents
<1>2. CASE i.do = "trim"
  <2>1. PayOut(k, a, r, k, acct[a].lamports - min)
    BY <1>2 DEF Run, Trim
  <2>2. r.lamports = Rent(n)
    BY <1>1 DEF Resized, AccountRecord, Rent
  <2> HIDE DEF r, n, min
  <2> QED
    BY <1>1, <1>2, <2>1, <2>2, PayOutPays DEF n
<1>3. CASE i.do = "close"
  <2>1. PayOut(k, a, Vacant(0), k, acct[a].lamports)
    BY <1>3 DEF Run, Close
  <2>2. Vacant(0).lamports = 0
    BY DEF Vacant, Zeroed
  <2> QED
    BY <1>1, <1>3, <2>1, <2>2, PayOutPays
<1> QED
  BY <1>2, <1>3

LEMMA RunPays ==
  ASSUME IInv, NEW j, JobOK(j), Informed(j), NEW i, Fitting(j, i), Run(j, i)
  PROVE  Pays(j, i, acct, acct')
BY TransferPays, CreateAccountPays, AllocateKeypairPays, AllocatePdaPays, DataPays,
   TrimAndClosePay DEF Fitting

-----------------------------------------------------------------------------
(* What the running client's account is left with.                         *)

\* The account at a PDA is no wallet, no new keypair and not given.
LEMMA PlaceApart ==
  ASSUME NEW J, NEW A, NEW c, NEW i, NEW J2, NEW A2, Stepped(J, A, c, i, J2, A2)
  PROVE  LET j == J[c].input
         IN  /\ MetadataPda(j) \in Address \ Wallet /\ Place(j) \subseteq {MetadataPda(j)}
             /\ Place(j) \cap (Fresh(j) \cup Given(j)) = {}
             /\ Target(j) \subseteq Place(j)
<1> DEFINE j == J[c].input
<1>1. c \in Client /\ Disjoint(J)
  BY DEF Stepped, JobsOK
<1>2. JobOK(j)
  BY <1>1, SteppedJobs
<1>3. MetadataPda(j) \in Address \ Wallet
  BY <1>2, JobAddresses, PdaAssumption, KeyAssumption
<1>4. Place(j) \cap Fresh(j) = {}
  BY <1>2, JobAddresses
<1>5. Place(j) \cap Given(j) = {}
  BY <1>1 DEF Disjoint
<1> QED
  BY <1>2, <1>3, <1>4, <1>5, JobAddresses DEF Place

LEMMA LaterFits ==
  ASSUME NEW J, NEW A, NEW c, NEW i, NEW J2, NEW A2, Stepped(J, A, c, i, J2, A2),
         NEW k \in Remaining(J2[c].plan)
  PROVE  Fitting(J[c].input, k) /\ k \in Remaining(J[c].plan)
<1>1. k \in Remaining(J[c].plan) /\ PlanOK(J[c].input, J[c].plan)
  BY SteppedJobs DEF Stepped, Leaves
<1>2. k \in Instructions(J[c].input)
  BY <1>1 DEF PlanOK, Remaining
<1> QED
  BY <1>1, <1>2, InstructionsFit

\* Nobody took the buffer of another for metadata.
NobodyMisled(J) == \A a : ~Misled(J, a)

LEMMA PlaceRentStays ==
  ASSUME NEW J, NEW A, NEW c, NEW i, NEW J2, NEW A2, Stepped(J, A, c, i, J2, A2),
         NobodyMisled(J),
         Pays(J[c].input, i, A, A2), PlaceRent(J[c].input, J[c].plan, A),
         ~(i.do = "close" /\ i.account \in Place(J[c].input))
  PROVE  PlaceRent(J[c].input, J2[c].plan, A2)
<1> DEFINE j == J[c].input
           P == J[c].plan
           Q == J2[c].plan
           a == MetadataPda(j)
           r == A[a]
           s == A2[a]
           n == Len(j.data)
<1> SUFFICES ASSUME AtPlace(j) PROVE PlaceRent(j, Q, A2)
  BY DEF PlaceRent
<1>1. /\ c \in Client /\ Fitting(j, i) /\ Changes(j, i, A, A2) /\ i \in Remaining(P)
      /\ Remaining(Q) \subseteq Remaining(P) /\ Remaining(P) \subseteq Remaining(Q) \cup {i}
      /\ Leaves(P, i, Q)
  BY DEF Stepped, Leaves
<1>2. /\ a \in Address \ Wallet /\ Place(j) = {a} /\ Target(j) \subseteq {a}
      /\ a \notin Fresh(j) /\ a \notin Given(j)
  BY PlaceApart DEF Place
<1>3. r \in AccountRecord /\ s \in AccountRecord /\ r.body \in Seq(Byte)
  BY <1>1, <1>2, SteppedJobs DEF AccountRecord
<1>4. Spot(j, i) # a =>
        s.lamports = r.lamports /\ Alike(r, s) /\ i.do \notin Publication \cup {"transfer", "trim"}
  <2>1. Spot(j, i) # a => i.do \notin Publication
    BY PublicationPublishes
  <2>2. Spot(j, i) # a => i.do \notin {"transfer", "trim"}
    BY <1>1, <1>2 DEF Fitting, Spot
  <2> QED
    BY <1>1, <1>2, <2>1, <2>2 DEF Changes, Pays
<1>5. Spot(j, i) = a =>
        /\ Outcome(j, i, A, s) /\ i.do \notin {"createAccount", "close"}
        /\ i.do = "transfer" => s.lamports = r.lamports + i.amount
        /\ i.do = "trim" => s.lamports = Rent(TrimmedLen(r))
        /\ i.do \notin {"transfer", "trim"} => s.lamports = r.lamports
  <2> SUFFICES ASSUME Spot(j, i) = a
               PROVE  /\ Outcome(j, i, A, s) /\ i.do \notin {"createAccount", "close"}
                      /\ i.do = "transfer" => s.lamports = r.lamports + i.amount
                      /\ i.do = "trim" => s.lamports = Rent(TrimmedLen(r))
                      /\ i.do \notin {"transfer", "trim"} => s.lamports = r.lamports
    OBVIOUS
  <2>1. i.do \notin {"createAccount", "close"}
    BY <1>1, <1>2 DEF Spot, Fitting
  <2> QED
    BY <1>1, <1>2, <2>1 DEF Changes, Pays
<1>6. j.op # "create-buffer" /\ ~ToPublish(P) =>
        /\ IsMetadata(r) /\ r.dataLength = n /\ Len(r.body) = n
        /\ \A k \in Remaining(P) : k.do \in {"close", "trim"}
  BY DEF PlaceRent
<1>7. ASSUME ~Has(Q, "trim")
      PROVE  /\ \A k \in Remaining(Q) : k.do = "transfer" => s.lamports + k.amount = Rent(n)
             /\ ~Has(Q, "transfer") => s.lamports = Rent(n)
  <2>1. CASE i.do = "trim"
    <3>1. Remaining(Q) = {}
      BY <1>1, <2>1, LaterFits DEF Leaves, Rank, Fitting
    <3>2. ~ToPublish(P)
      BY <1>1, <2>1, <3>1 DEF ToPublish, Publication
    <3>3. j.op # "create-buffer"
      BY <1>1, <2>1 DEF Fitting, Target
    <3>4. TrimmedLen(r) = n
      BY <1>6, <3>2, <3>3 DEF TrimmedLen, IsMetadata
    <3> QED
      BY <1>4, <1>5, <2>1, <3>1, <3>4
  <2>2. ~Has(P, "trim") \/ i.do = "trim"
    BY <1>1, <1>7 DEF Has
  <2>3. ~Has(P, "trim") =>
          /\ \A k \in Remaining(P) : k.do = "transfer" => r.lamports + k.amount = Rent(n)
          /\ ~Has(P, "transfer") => r.lamports = Rent(n)
    BY DEF PlaceRent
  <2>4. CASE i.do = "transfer"
    <3>1. \A k \in Remaining(Q) : k.do # "transfer"
      BY <1>1, <2>4 DEF Leaves, Rank
    <3>2. s.lamports = Rent(n)
      BY <1>1, <1>4, <1>5, <2>2, <2>3, <2>4
    <3> QED
      BY <3>1, <3>2
  <2>5. CASE i.do \notin {"transfer", "trim"}
    <3>1. s.lamports = r.lamports
      BY <1>4, <1>5, <2>5
    <3>2. ~Has(Q, "transfer") => ~Has(P, "transfer")
      BY <1>1, <2>5 DEF Has
    <3> QED
      BY <1>1, <2>2, <2>3, <2>5, <3>1, <3>2
  <2> QED
    BY <2>1, <2>4, <2>5
<1>8. ASSUME j.op # "create-buffer", ~ToPublish(Q)
      PROVE  /\ IsMetadata(s) /\ s.dataLength = n /\ Len(s.body) = n
             /\ \A k \in Remaining(Q) : k.do \in {"close", "trim"}
  <2>1. CASE i.do \in Publication
    <3>1. Publishes(j, s, j.data)
      BY <2>1, PublicationPublishes DEF NobodyMisled
    <3>2. \A k \in Remaining(Q) : k.do \in {"close", "trim"}
      BY <1>1, <2>1, LaterFits DEF Leaves, Rank, Fitting, Publication
    <3> QED
      BY <3>1, <3>2 DEF Publishes
  <2>2. CASE i.do \notin Publication
    <3>1. ~ToPublish(P)
      BY <1>1, <1>8, <2>2 DEF ToPublish
    <3>2. i.do \in {"close", "trim"} /\ \A k \in Remaining(Q) : k.do \in {"close", "trim"}
      BY <1>1, <1>6, <1>8, <3>1
    <3>3. CASE Spot(j, i) # a
      BY <1>4, <1>6, <1>8, <3>1, <3>2, <3>3 DEF Alike, SameKind, IsMetadata
    <3>4. CASE Spot(j, i) = a
      <4>1. SameKind(r, s) /\ s.body = Fit(r.body, TrimmedLen(r))
        BY <1>5, <3>2, <3>4 DEF Outcome
      <4>2. TrimmedLen(r) = n /\ n \in Nat
        BY <1>1, <1>6, <1>8, <3>1, SteppedJobs, JobData DEF TrimmedLen, IsMetadata
      <4>3. Len(s.body) = n
        BY <1>3, <4>1, <4>2, FitType
      <4> QED
        BY <1>6, <1>8, <3>1, <3>2, <4>1, <4>3 DEF SameKind, IsMetadata
    <3> QED
      BY <3>3, <3>4
  <2> QED
    BY <2>1, <2>2
<1> QED
  BY <1>7, <1>8 DEF PlaceRent

-----------------------------------------------------------------------------
(* ...and its buffer.                                                      *)

\* Writes keep the length of a buffer that is as long as the data.
LEMMA WritesKeepLength ==
  ASSUME NEW J, NEW A, NEW c, NEW i, NEW J2, NEW A2, Stepped(J, A, c, i, J2, A2),
         i.do \in {"write", "writeFrom"},
         Len(A[i.account].body) = Len(J[c].input.data)
  PROVE  Len(A2[i.account].body) = Len(J[c].input.data)
<1> DEFINE j == J[c].input
           b == i.account
           n == Len(j.data)
           r == A[b]
           s == A2[b]
<1>1. /\ c \in Client /\ Fitting(j, i) /\ Changes(j, i, A, A2) /\ Spot(j, i) = b
  BY DEF Stepped, Spot
<1>2. /\ JobOK(j) /\ GivenHolds(j, A) /\ n \in Nat /\ j.data \in Seq(Byte)
      /\ A \in [Address -> AccountRecord]
  BY <1>1, SteppedJobs, JobData
<1>3. b \in Address /\ r.body \in Seq(Byte)
  BY <1>1, <1>2, JobAddresses DEF Fitting, AccountRecord
<1>4. Outcome(j, i, A, s)
  BY <1>1 DEF Changes
<1>5. CASE i.do = "write"
  <2>1. s.body = Overwrite(r.body, i.offset, i.data) /\ i.offset \in Nat
        /\ i.data \in Seq(Byte) /\ i.offset + Len(i.data) <= n
    BY <1>1, <1>4, <1>5 DEF Outcome, Fitting, Piece
  <2>2. Len(s.body) = IF i.offset + Len(i.data) > Len(r.body) THEN i.offset + Len(i.data)
                      ELSE Len(r.body)
    <3>1. /\ r.body \in Seq(Byte) /\ i.offset \in Nat /\ i.data \in Seq(Byte)
          /\ s.body = Overwrite(r.body, i.offset, i.data)
      BY <1>3, <2>1
    <3> HIDE DEF r, s
    <3> QED
      BY <3>1, OverwriteType
  <2>3. Len(i.data) \in Nat
    BY <2>1
  <2> QED
    BY <1>2, <2>1, <2>2, <2>3
<1>6. CASE i.do = "writeFrom"
  <2>1. s.body = Overwrite(r.body, 0, A[i.source].body) /\ ValidBuffer(A[i.source])
        /\ i.source \in Given(j) /\ i.source \in Address
    BY <1>1, <1>2, <1>4, <1>6, JobAddresses DEF Outcome, Fitting
  <2>2. A[i.source].body = j.data
    BY <1>2, <2>1, VacantEmpty DEF GivenHolds
  <2>3. Len(s.body) = IF 0 + n > Len(r.body) THEN 0 + n ELSE Len(r.body)
    BY <1>2, <1>3, <2>1, <2>2, OverwriteType
  <2> QED
    BY <1>2, <2>3
<1> QED
  BY <1>5, <1>6

\* The buffer is as long as the data from the moment it is created.
LEMMA FreshLength ==
  ASSUME NEW J, NEW A, NEW c, NEW i, NEW J2, NEW A2, Stepped(J, A, c, i, J2, A2),
         HoldsFresh(J[c].input, J2[c].plan),
         HoldsFresh(J[c].input, J[c].plan) =>
           Len(A[J[c].input.newBuffer].body) = Len(J[c].input.data)
  PROVE  Len(A2[J[c].input.newBuffer].body) = Len(J[c].input.data)
<1> DEFINE j == J[c].input
           P == J[c].plan
           Q == J2[c].plan
           b == j.newBuffer
           n == Len(j.data)
           r == A[b]
           s == A2[b]
<1>1. /\ c \in Client /\ Fitting(j, i) /\ Changes(j, i, A, A2) /\ Leaves(P, i, Q)
      /\ i \in Remaining(P) /\ Remaining(Q) \subseteq Remaining(P)
      /\ Remaining(P) \subseteq Remaining(Q) \cup {i}
  BY DEF Stepped, Leaves
<1>2. JobOK(j) /\ n \in Nat /\ A \in [Address -> AccountRecord]
  BY <1>1, SteppedJobs, JobData
<1>3. /\ Filling(j, P) /\ Fresh(j) = {b} /\ b \in Address /\ b \notin Place(j)
      /\ b \notin Target(j) /\ b # MetadataPda(j)
  BY <1>1, <1>2, JobAddresses DEF HoldsFresh, Filling, Fresh
<1>4. b \notin Given(j)
  BY <1>1, <1>3 DEF Stepped, JobsOK, Disjoint
<1>5. CASE i.do = "createAccount"
  <2>1. Spot(j, i) = b /\ i.length = n
    BY <1>1, <1>3, <1>5 DEF Spot, Fitting
  <2>2. s.body = Fit(<<>>, n)
    BY <1>1, <1>5, <2>1 DEF Changes, Outcome
  <2>3. <<>> \in Seq(Byte) /\ n \in Nat
    BY <1>2
  <2>4. Len(Fit(<<>>, n)) = n
    BY <2>3, FitType
  <2> QED
    BY <2>2, <2>4
<1>6. CASE i.do # "createAccount"
  <2>1. ~Has(P, "createAccount")
    BY <1>1, <1>6 DEF HoldsFresh, Has
  <2>2. Len(r.body) = n /\ r \in AccountRecord /\ r.body \in Seq(Byte)
    BY <1>2, <1>3, <2>1 DEF HoldsFresh, AccountRecord
  <2>3. CASE Spot(j, i) # b
    BY <1>1, <1>3, <2>2, <2>3 DEF Changes, Alike
  <2>4. CASE Spot(j, i) = b
    <3>1. Outcome(j, i, A, s)
      BY <1>1, <2>4 DEF Changes
    <3>2. i.account = b /\ i.do \in {"allocateKeypair", "setAuthority", "write", "writeFrom", "close"}
      BY <1>1, <1>3, <1>6, <2>4 DEF Spot, Fitting
    <3>3. i.do # "close"
      <4> SUFFICES ASSUME i.do = "close" PROVE FALSE
        OBVIOUS
      <4>1. j.op # "create-buffer"
        BY <1>1, <1>3, <1>4, <3>2 DEF Fitting, Closable
      <4>2. PICK k \in Remaining(Q) : k.do \in {"write", "writeFrom", "close", "setDataFrom"}
        BY <4>1 DEF HoldsFresh, Filling
      <4> QED
        BY <1>1, <4>2, Behind
    <3>4. CASE i.do = "allocateKeypair"
      BY <2>2, <2>4, <3>1, <3>4 DEF Outcome
    <3>5. CASE i.do = "setAuthority"
      BY <2>2, <2>4, <3>1, <3>5 DEF Outcome, Alike
    <3>6. CASE i.do \in {"write", "writeFrom"}
      BY <2>2, <3>2, <3>6, WritesKeepLength
    <3> QED
      BY <3>2, <3>3, <3>4, <3>5, <3>6
  <2> QED
    BY <2>3, <2>4
<1> QED
  BY <1>5, <1>6

LEMMA FreshRentStays ==
  ASSUME NEW J, NEW A, NEW c, NEW i, NEW J2, NEW A2, Stepped(J, A, c, i, J2, A2),
         FreshRent(J[c].input, J[c].plan, A)
  PROVE  FreshRent(J[c].input, J2[c].plan, A2)
<1> DEFINE j == J[c].input
           P == J[c].plan
           Q == J2[c].plan
           b == j.newBuffer
<1>1. /\ c \in Client /\ Fitting(j, i) /\ Changes(j, i, A, A2) /\ Leaves(P, i, Q)
      /\ i \in Remaining(P) /\ Remaining(Q) \subseteq Remaining(P)
      /\ Remaining(P) \subseteq Remaining(Q) \cup {i}
  BY DEF Stepped, Leaves
<1>2. JobOK(j)
  BY <1>1, SteppedJobs
<1>3. HoldsFresh(j, Q) => Len(A2[b].body) = Len(j.data)
  BY FreshLength DEF FreshRent
<1>4. ASSUME Has(Q, "allocateKeypair"), ~Has(Q, "createAccount")
      PROVE  A2[b].owner = "self"
  <2>1. PICK k \in Remaining(Q) : k.do = "allocateKeypair"
    BY <1>4 DEF Has
  <2>2. Fresh(j) = {b} /\ b \in Address /\ b \notin Place(j) /\ b # MetadataPda(j)
    BY <1>2, <2>1, LaterFits, JobAddresses DEF Fitting, Fresh
  <2>3. CASE i.do = "createAccount"
    <3>1. Spot(j, i) = b
      BY <1>1, <2>2, <2>3 DEF Spot, Fitting
    <3> QED
      BY <1>1, <2>3, <3>1 DEF Changes, Outcome
  <2>4. CASE i.do # "createAccount"
    <3>1. Has(P, "allocateKeypair") /\ ~Has(P, "createAccount")
      BY <1>1, <1>4, <2>1, <2>4 DEF Has
    <3>2. A[b].owner = "self"
      BY <3>1 DEF FreshRent
    <3>3. i.do \in {"transfer", "allocate", "extend"}
      BY <1>1, <2>1, <2>4 DEF Leaves, Rank, Fitting
    <3>4. Spot(j, i) # b
      BY <1>1, <2>2, <3>3 DEF Spot, Fitting
    <3> QED
      BY <1>1, <2>2, <3>2, <3>4 DEF Changes, Alike, SameKind
  <2> QED
    BY <2>3, <2>4
<1>5. ASSUME j.op # "create-buffer", Closes(j), Has(Q, "createAccount")
      PROVE  ClosesLater(Q, b)
  <2>1. Has(P, "createAccount")
    BY <1>1, <1>5 DEF Has
  <2>2. PICK k \in Remaining(P) : k.do = "close" /\ k.account = b
    BY <1>5, <2>1 DEF FreshRent, ClosesLater
  <2>3. i.do # "close"
    BY <1>1, <2>1, Before
  <2> QED
    BY <1>1, <2>2, <2>3 DEF ClosesLater
<1> QED
  BY <1>3, <1>4, <1>5 DEF FreshRent

-----------------------------------------------------------------------------
(* The accounts of others.                                                 *)

\* Nothing but a close is about an account that the job does not work on.
LEMMA ElsewhereCloses ==
  ASSUME NEW J, NEW A, NEW c, NEW i, NEW J2, NEW A2, Stepped(J, A, c, i, J2, A2),
         LET j == J[c].input IN Spot(j, i) \notin Place(j) \cup Fresh(j)
  PROVE  i.do = "close" /\ IsVacant(A2[Spot(J[c].input, i)])
<1> DEFINE j == J[c].input
<1>1. Fitting(j, i) /\ Changes(j, i, A, A2)
  BY DEF Stepped
<1>2. Target(j) \subseteq Place(j)
  BY PlaceApart
<1>3. i.do = "close"
  BY <1>1, <1>2 DEF Spot, Fitting, Place, Target
<1> QED
  BY <1>1, <1>3 DEF Changes, Outcome

LEMMA WalletsStay ==
  ASSUME NEW J, NEW A, NEW c, NEW i, NEW J2, NEW A2, Stepped(J, A, c, i, J2, A2),
         WalletsOK(J, A)
  PROVE  WalletsOK(J2, A2)
<1> DEFINE j == J[c].input
<1>1. /\ c \in Client /\ Changes(j, i, A, A2)
      /\ \A d \in Client : J2[d].input = J[d].input
  BY DEF Stepped, SameJobs
<1>2. ASSUME NEW k \in Wallet PROVE A2[k].owner = "system"
  <2>1. k \in Address /\ A[k].owner = "system"
    BY DEF WalletsOK, Address
  <2>2. CASE Spot(j, i) # k
    BY <1>1, <2>1, <2>2 DEF Changes, Alike, SameKind
  <2>3. CASE Spot(j, i) = k
    <3>1. k \notin Place(j) \cup Fresh(j)
      BY <1>1, PlaceApart DEF WalletsOK
    <3> QED
      BY <2>3, <3>1, ElsewhereCloses DEF IsVacant
  <2> QED
    BY <2>2, <2>3
<1> QED
  BY <1>1, <1>2 DEF WalletsOK

LEMMA OthersNeat ==
  ASSUME NEW J, NEW A, NEW c, NEW i, NEW J2, NEW A2, Stepped(J, A, c, i, J2, A2),
         Pays(J[c].input, i, A, A2), WalletsOK(J, A), FreshRent(J[c].input, J[c].plan, A),
         NEW b \in Address \ Place(J[c].input), Neat(A[b])
  PROVE  Neat(A2[b])
<1> DEFINE j == J[c].input
           P == J[c].plan
           r == A[b]
           s == A2[b]
<1>1. c \in Client /\ Fitting(j, i) /\ Changes(j, i, A, A2) /\ Leaves(P, i, J2[c].plan)
      /\ i \in Remaining(P)
  BY DEF Stepped, Leaves
<1>2. JobOK(j) /\ r \in AccountRecord /\ s \in AccountRecord
  BY <1>1, SteppedJobs
<1>3. CASE b \in Wallet
  <2>1. s.owner = "system"
    BY <1>3, WalletsStay DEF WalletsOK
  <2> QED
    BY <2>1 DEF Neat
<1>4. CASE b \notin Wallet /\ Spot(j, i) # b
  <2>1. Alike(r, s) /\ s.lamports = r.lamports
    BY <1>1, <1>4 DEF Changes, Pays
  <2> QED
    BY <2>1 DEF Neat, Alike, SameKind, DataLen, IsMetadata
<1>5. CASE Spot(j, i) = b /\ b \notin Fresh(j)
  BY <1>5, ElsewhereCloses DEF Neat, IsVacant
<1>6. CASE Spot(j, i) = b /\ b \in Fresh(j) /\ b \notin Wallet
  <2>1. Outcome(j, i, A, s) /\ b = j.newBuffer
    BY <1>1, <1>6 DEF Changes, Fresh
  <2>2. /\ i.do = "createAccount" => s.lamports = Rent(i.length) /\ s.head = HeaderLen
        /\ i.do = "allocateKeypair" /\ r.owner = "self" => s.head = r.head
        /\ i.do \notin {"transfer", "createAccount", "trim", "close"} =>
             s.lamports = r.lamports
    BY <1>6 DEF Pays
  <2>3. i.account = b
        /\ i.do \in {"createAccount", "allocateKeypair", "setAuthority", "write", "writeFrom", "close"}
    BY <1>1, <1>6, PlaceApart DEF Spot, Fitting, Place
  <2>4. CASE i.do = "createAccount"
    <3>1. s.body = Fit(<<>>, i.length) /\ s.discriminator = "Empty" /\ i.length = Len(j.data)
      BY <1>1, <2>1, <2>4 DEF Outcome, Fitting
    <3>2. Len(s.body) = i.length
      <4>1. <<>> \in Seq(Byte) /\ i.length \in Nat
        BY <1>2, <3>1, JobData
      <4> QED
        BY <3>1, <4>1, FitType
    <3> QED
      BY <2>2, <2>4, <3>1, <3>2 DEF Neat, DataLen, Rent, IsMetadata
  <2>5. CASE i.do = "allocateKeypair"
    <3>1. Has(P, "allocateKeypair") /\ ~Has(P, "createAccount")
      BY <1>1, <2>5, Before DEF Has
    <3>2. r.owner = "self"
      BY <2>1, <3>1 DEF FreshRent
    <3>3. ~IsMetadata(s) /\ s.body = r.body
      BY <2>1, <2>5, <1>6 DEF Outcome, ValidBuffer, IsMetadata
    <3> QED
      BY <2>2, <2>5, <3>2, <3>3 DEF Neat, DataLen
  <2>6. CASE i.do = "setAuthority"
    <3>1. Alike(r, s) /\ s.lamports = r.lamports
      BY <1>6, <2>1, <2>2, <2>6 DEF Outcome
    <3> QED
      BY <3>1 DEF Neat, Alike, SameKind, DataLen, IsMetadata
  <2>7. CASE i.do \in {"write", "writeFrom"}
    <3>1. HoldsFresh(j, P)
      BY <1>1, <1>2, <1>6, <2>3, <2>7, HoldsWhatItWrites
    <3>2. Len(r.body) = Len(j.data)
      BY <2>1, <3>1 DEF FreshRent
    <3>3. Len(s.body) = Len(j.data)
      BY <2>3, <2>7, <3>2, WritesKeepLength
    <3>4. SameKind(r, s) /\ ValidBuffer(r) /\ s.lamports = r.lamports
      BY <1>6, <2>1, <2>2, <2>7 DEF Outcome
    <3> QED
      BY <3>2, <3>3, <3>4 DEF Neat, SameKind, ValidBuffer, DataLen, IsMetadata
  <2>8. CASE i.do = "close"
    BY <2>1, <2>8 DEF Outcome, IsVacant, Neat
  <2> QED
    BY <2>3, <2>4, <2>5, <2>6, <2>7, <2>8
<1> QED
  BY <1>3, <1>4, <1>5, <1>6

-----------------------------------------------------------------------------
(* The buffers to be closed.                                               *)

LEMMA ClosedStays ==
  ASSUME NEW J, NEW A, NEW c, NEW i, NEW J2, NEW A2, Stepped(J, A, c, i, J2, A2),
         Pays(J[c].input, i, A, A2), WalletsOK(J, A), FreshRent(J[c].input, J[c].plan, A),
         ClosedOK(J, A)
  PROVE  ClosedOK(J2, A2)
<1> DEFINE j == J[c].input
           P == J[c].plan
           Q == J2[c].plan
<1>1. /\ c \in Client /\ J[c].status = "running" /\ Fitting(j, i)
      /\ i \in Remaining(P) /\ Remaining(P) \subseteq Remaining(Q) \cup {i}
      /\ Leaves(P, i, Q) /\ SameJobs(J, J2, c) /\ Disjoint(J)
      /\ J2[c].status = IF Q = <<>> THEN "done" ELSE "running"
  BY DEF Stepped, Leaves, JobsOK
<1>2. JobOK(j)
  BY <1>1, SteppedJobs
<1> SUFFICES ASSUME NEW d \in Client, J[d].input.op \in {"create", "update", "write"},
                    Closes(J[d].input), NEW b \in Fresh(J[d].input) \cup Given(J[d].input)
             PROVE  \/ A2[b].lamports = 0
                    \/ J2[d].status = "waiting" /\ b \in Given(J[d].input)
                    \/ J2[d].status = "running" /\ ClosesLater(J2[d].plan, b)
  BY <1>1 DEF ClosedOK, SameJobs
<1> DEFINE k == J[d].input
<1>3. JobOK(k)
  BY SteppedJobs
<1>4. b \in Address \ Wallet /\ b \notin Place(j)
  <2>1. b \in Address \ Wallet
    BY <1>3, JobAddresses DEF WalletsOK
  <2>2. b \notin Place(j)
    BY <1>1, <1>2, <1>3, JobAddresses DEF Disjoint
  <2> QED
    BY <2>1, <2>2
<1>5. \/ A[b].lamports = 0
      \/ J[d].status = "waiting" /\ b \in Given(k)
      \/ J[d].status = "running" /\ ClosesLater(J[d].plan, b)
  BY DEF ClosedOK
<1>6. ASSUME d = c, ClosesLater(Q, b)
      PROVE  J2[d].status = "running" /\ ClosesLater(J2[d].plan, b)
  <2>1. Q # <<>>
    BY <1>6 DEF ClosesLater, Remaining
  <2> QED
    BY <1>1, <1>6, <2>1
<1>7. CASE A[b].lamports = 0
  <2>1. CASE Spot(j, i) # b
    BY <1>4, <1>7, <2>1 DEF Pays
  <2>2. CASE Spot(j, i) = b /\ b \notin Fresh(j)
    <3>1. i.do = "close"
      BY <1>4, <2>2, ElsewhereCloses
    <3> QED
      BY <1>4, <2>2, <3>1 DEF Pays
  <2>3. CASE Spot(j, i) = b /\ b \in Fresh(j)
    <3>1. d = c
      <4>1. b \notin Given(k)
        BY <1>1, <2>3 DEF Disjoint
      <4> QED
        BY <1>1, <2>3, <4>1 DEF Disjoint
    <3>2. i.do \notin {"transfer", "trim"}
      BY <1>1, <1>4, <2>3, PlaceApart DEF Spot, Fitting
    <3>3. CASE i.do = "createAccount"
      <4>1. Has(P, "createAccount") /\ b = j.newBuffer
        BY <1>1, <2>3, <3>3 DEF Has, Fresh
      <4>2. ClosesLater(P, b)
        BY <3>1, <4>1 DEF FreshRent
      <4>3. ClosesLater(Q, b)
        BY <1>1, <3>3, <4>2 DEF ClosesLater
      <4> QED
        BY <1>6, <3>1, <4>3
    <3>4. CASE i.do # "createAccount"
      BY <1>4, <1>7, <2>3, <3>2, <3>4 DEF Pays
    <3> QED
      BY <3>3, <3>4
  <2> QED
    BY <2>1, <2>2, <2>3
<1>8. CASE J[d].status = "waiting" /\ b \in Given(k)
  BY <1>1, <1>8 DEF SameJobs
<1>9. CASE J[d].status = "running" /\ ClosesLater(J[d].plan, b)
  <2>1. CASE d # c
    BY <1>1, <1>9, <2>1 DEF SameJobs
  <2>2. CASE d = c
    <3>1. PICK e \in Remaining(P) : e.do = "close" /\ e.account = b
      BY <1>9, <2>2 DEF ClosesLater
    <3>2. CASE e = i
      BY <1>4, <3>1, <3>2 DEF Spot, Pays
    <3>3. CASE e # i
      <4>1. ClosesLater(Q, b)
        BY <1>1, <3>1, <3>3 DEF ClosesLater
      <4> QED
        BY <1>6, <2>2, <4>1
    <3> QED
      BY <3>2, <3>3
  <2> QED
    BY <2>1, <2>2
<1> QED
  BY <1>5, <1>7, <1>8, <1>9

-----------------------------------------------------------------------------
(* All of it.                                                              *)

\* When the plan ends, the place is at its rent.
LEMMA PlaceNeat ==
  ASSUME NEW J, NEW A, NEW c, NEW i, NEW J2, NEW A2, Stepped(J, A, c, i, J2, A2),
         Pays(J[c].input, i, A, A2), PlaceRent(J[c].input, J[c].plan, A),
         J2[c].plan = <<>>, NEW a \in Place(J[c].input),
         NobodyMisled(J), NobodyMisled(J2)
  PROVE  Neat(A2[a])
<1> DEFINE j == J[c].input
           Q == J2[c].plan
           s == A2[a]
           n == Len(j.data)
<1>1. /\ c \in Client /\ Changes(j, i, A, A2) /\ J2[c].input = j
      /\ Remaining(Q) = {} /\ ~Has(Q, "trim") /\ ~Has(Q, "transfer") /\ ~Has(Q, "allocate")
      /\ ~ToPublish(Q)
  BY DEF Stepped, SameJobs, Remaining, Has, ToPublish
<1>2. JobOK(j) /\ a = MetadataPda(j) /\ a \in Address /\ AtPlace(j)
  BY <1>1, SteppedJobs, PlaceApart DEF Place
<1>3. s \in AccountRecord /\ WellFormed(a, s) /\ j.data \in Seq(Byte) /\ n \in Nat
  BY <1>1, <1>2, SteppedJobs, JobData
<1>4. CASE i.do = "close" /\ i.account \in Place(j)
  <2>1. Spot(j, i) = a
    BY <1>2, <1>4 DEF Spot, Place
  <2> QED
    BY <1>1, <1>4, <2>1 DEF Changes, Outcome, IsVacant, Neat
<1>5. CASE ~(i.do = "close" /\ i.account \in Place(j))
  <2>1. PlaceRent(j, Q, A2)
    BY <1>5, PlaceRentStays
  <2>2. s.lamports = Rent(n)
    BY <1>1, <1>2, <2>1 DEF PlaceRent
  <2>3. CASE j.op # "create-buffer"
    <3>1. IsMetadata(s) /\ s.dataLength = n /\ Len(s.body) = n
      BY <1>1, <1>2, <2>1, <2>3 DEF PlaceRent
    <3>2. s.head = HeaderLen
      BY <1>3, <3>1 DEF WellFormed, HeaderOwned, IsMetadata
    <3> QED
      BY <2>2, <3>1, <3>2 DEF Neat, DataLen, Rent
  <2>4. CASE j.op = "create-buffer"
    <3>1. Building(j, Q)
      BY <1>2, <2>4 DEF Building
    <3>2. ValidBuffer(s) /\ Partly(s.body, Q, a, j.data) /\ Len(s.body) <= n
      BY <1>1, <1>2, <1>5, <3>1, OwnPlaceStays DEF PlaceHolds, NobodyMisled
    <3>3. s.body = j.data
      BY <1>1, <1>3, <3>2, PartlyWhole DEF AccountRecord
    <3> QED
      BY <2>2, <3>2, <3>3 DEF Neat, DataLen, Rent, ValidBuffer, IsMetadata
  <2> QED
    BY <2>3, <2>4
<1> QED
  BY <1>4, <1>5

LEMMA RentStays ==
  ASSUME NEW J, NEW A, NEW c, NEW i, NEW J2, NEW A2, Stepped(J, A, c, i, J2, A2),
         Pays(J[c].input, i, A, A2), RentOK(J, A), NobodyMisled(J), NobodyMisled(J2),
         \A d \in Client : J[d].status = "running" => d = c
  PROVE  RentOK(J2, A2)
<1> DEFINE j == J[c].input
           P == J[c].plan
           Q == J2[c].plan
<1>1. /\ c \in Client /\ J[c].status = "running" /\ SameJobs(J, J2, c) /\ J2[c].input = j
      /\ J2[c].status = IF Q = <<>> THEN "done" ELSE "running"
  BY DEF Stepped, SameJobs
<1>2. PlaceRent(j, P, A) /\ FreshRent(j, P, A) /\ WalletsOK(J, A) /\ ClosedOK(J, A)
  BY <1>1 DEF RentOK
<1>3. ASSUME NEW a \in Address
      PROVE  Neat(A2[a]) \/ \E d \in Client : J2[d].status = "running" /\ a \in Place(J2[d].input)
  <2>1. CASE a \in Place(j) /\ Q = <<>>
    BY <1>2, <2>1, PlaceNeat
  <2>2. CASE a \in Place(j) /\ Q # <<>>
    BY <1>1, <2>2
  <2>3. CASE a \notin Place(j)
    <3>1. Neat(A[a])
      BY <2>3 DEF RentOK
    <3> QED
      BY <1>2, <2>3, <3>1, OthersNeat
  <2> QED
    BY <2>1, <2>2, <2>3
<1>4. ASSUME NEW d \in Client, J2[d].status = "running"
      PROVE  PlaceRent(J2[d].input, J2[d].plan, A2) /\ FreshRent(J2[d].input, J2[d].plan, A2)
  <2>1. d = c /\ Q # <<>>
    BY <1>1, <1>4 DEF SameJobs
  <2>2. ~(i.do = "close" /\ i.account \in Place(j))
    BY <2>1, OwnClose
  <2> QED
    BY <1>1, <1>2, <2>1, <2>2, PlaceRentStays, FreshRentStays
<1>5. ClosedOK(J2, A2) /\ WalletsOK(J2, A2)
  BY <1>2, ClosedStays, WalletsStay
<1> QED
  BY <1>3, <1>4, <1>5 DEF RentOK

-----------------------------------------------------------------------------
(* A client goes on, is refused or is killed.                              *)

\* While nobody is disturbed, one client runs at most.
LEMMA RunsAlone ==
  ASSUME NEW J, AloneOK(J), SoFar(J), NEW c \in Client, J[c].status = "running"
  PROVE  \A d \in Client : J[d].status = "running" => d = c
BY DEF AloneOK, SoFar

LEMMA AloneNotMisled ==
  ASSUME NEW J, SoFar(J)
  PROVE  NobodyMisled(J)
BY DEF SoFar, NobodyMisled, Misled

\* What is remembered of a beginning stays.
LEMMA StepHistory ==
  ASSUME UploadInv, NEW c \in Client, Step(c)
  PROVE  /\ \A d \in Client \ {c} : job'[d] = job[d]
         /\ job[c].status = "running" /\ job'[c].status \in {"running", "done"}
         /\ job'[c].input = job[c].input
         /\ job'[c].alone = job[c].alone /\ job'[c].found = job[c].found
<1>1. DOMAIN job = Client /\ DOMAIN job[c] = ClientJob /\ job[c].status = "running"
  BY DEF UploadInv, JobsOK, Step, Turn, Running
<1>2. PICK plan : job' = [job EXCEPT ![c].plan = plan,
                                     ![c].status = IF plan = <<>> THEN "done" ELSE @]
  BY DEF Step
<1> QED
  BY <1>1, <1>2 DEF ClientJob

LEMMA StepKeepsRent ==
  ASSUME RentInv, NEW c \in Client, Step(c)
  PROVE  RentInv'
<1> DEFINE j == job[c].input
           J2 == job'
<1>1. UploadInv /\ AloneOK(job) /\ (SoFar(job) => RentOK(job, acct))
  BY DEF RentInv, UploadInv, JobsOK
<1>2. UploadInv'
  BY <1>1, StepKeepsUploads
<1>3. PICK i : Goes(c, i) /\ Run(j, i)
  BY <1>1, StepGoes
<1>4. Stepped(job, acct, c, i, J2, acct') /\ Fitting(j, i) /\ JobOK(j) /\ Informed(j)
  BY <1>3, SteppedJobs DEF Goes, Stepped
<1>5. IInv
  BY <1>1 DEF UploadInv, IInv, TypeOK, AccountsOK, Sound
<1>6. Pays(j, i, acct, acct')
  BY <1>3, <1>4, <1>5, RunPays
<1>7. /\ \A d \in Client \ {c} : J2[d] = job[d]
      /\ job[c].status = "running" /\ J2[c].status \in {"running", "done"} /\ J2[c].input = j
      /\ J2[c].alone = job[c].alone /\ J2[c].found = job[c].found
  BY <1>1, StepHistory
<1> HIDE DEF J2
<1>9. ASSUME SoFar(J2) PROVE RentOK(J2, acct')
  <2>1. SoFar(job)
    BY <1>7, <1>9 DEF SoFar
  <2> QED
    BY <1>1, <1>4, <1>6, <1>7, <1>9, <2>1, RunsAlone, AloneNotMisled, RentStays DEF J2
<1>10. (SoFar(job) => RentOK(job, acct))'
  BY <1>9 DEF J2
<1> QED
  BY <1>2, <1>10 DEF RentInv

\* Whoever is refused or killed ends the story.
LEMMA StopKeepsRent ==
  ASSUME RentInv, NEW c \in Client, Refuse(c) \/ Crash(c)
  PROVE  RentInv'
<1>1. UploadInv
  BY DEF RentInv
<1>2. UploadInv'
  BY <1>1, RefuseKeepsUploads, CrashKeepsUploads
<1>3. DOMAIN job = Client /\ DOMAIN job[c] = ClientJob
  BY <1>1 DEF UploadInv, JobsOK
<1>4. PICK status \in {"refused", "crashed"} :
        job' = [job EXCEPT ![c].status = status, ![c].plan = <<>>]
  BY DEF Refuse, Crash
<1>5. (\A d \in Client \ {c} : job'[d] = job[d]) /\ job'[c].status = status
  BY <1>3, <1>4 DEF ClientJob
<1>7. ~SoFar(job')
  BY <1>5 DEF SoFar
<1>8. (SoFar(job) => RentOK(job, acct))'
  BY <1>7
<1> QED
  BY <1>2, <1>8 DEF RentInv

-----------------------------------------------------------------------------
(* The plans that clients begin with.                                      *)

IsPlan(j, P) == P \in Seq((SUBSET Instructions(j)) \ {{}})

LEMMA BlockIsPlan ==
  ASSUME NEW j, NEW P, NEW lo, NEW hi, Block(j, P, lo, hi)
  PROVE  IsPlan(j, P)
BY DEF Block, PlanOK, IsPlan

\* R is plan P and then plan Q.
Joins(j, P, Q, R) == IsPlan(j, R) /\ Remaining(R) = Remaining(P) \cup Remaining(Q)

LEMMA JoinedPlan ==
  ASSUME NEW j, NEW P, NEW Q, IsPlan(j, P), IsPlan(j, Q)
  PROVE  Joins(j, P, Q, P \o Q)
<1> DEFINE S == (SUBSET Instructions(j)) \ {{}}
           R == P \o Q
<1>1. P \in Seq(S) /\ Q \in Seq(S)
  BY DEF IsPlan
<1> HIDE DEF S
<1>2. /\ R \in Seq(S) /\ Len(P) \in Nat /\ Len(Q) \in Nat
      /\ DOMAIN P = 1 .. Len(P) /\ DOMAIN Q = 1 .. Len(Q) /\ DOMAIN R = 1 .. Len(P) + Len(Q)
      /\ \A s \in 1 .. Len(P) : R[s] = P[s]
      /\ \A s \in Len(P) + 1 .. Len(P) + Len(Q) : R[s] = Q[s - Len(P)]
  BY <1>1
<1> HIDE DEF R
<1>3. ASSUME NEW i \in Remaining(R) PROVE i \in Remaining(P) \cup Remaining(Q)
  <2>1. PICK s \in DOMAIN R : i \in R[s]
    BY DEF Remaining
  <2>2. CASE s \in 1 .. Len(P)
    BY <1>2, <2>1, <2>2 DEF Remaining
  <2>3. CASE s \notin 1 .. Len(P)
    <3>1. s \in Len(P) + 1 .. Len(P) + Len(Q) /\ s - Len(P) \in 1 .. Len(Q)
      BY <1>2, <2>3
    <3> QED
      BY <1>2, <2>1, <3>1 DEF Remaining
  <2> QED
    BY <2>2, <2>3
<1>4. ASSUME NEW i \in Remaining(P) PROVE i \in Remaining(R)
  <2>1. PICK s \in 1 .. Len(P) : i \in P[s]
    BY <1>2 DEF Remaining
  <2>2. s \in DOMAIN R /\ R[s] = P[s]
    BY <1>2
  <2> QED
    BY <2>1, <2>2 DEF Remaining
<1>5. ASSUME NEW i \in Remaining(Q) PROVE i \in Remaining(R)
  <2>1. PICK s \in 1 .. Len(Q) : i \in Q[s]
    BY <1>2 DEF Remaining
  <2>2. s + Len(P) \in Len(P) + 1 .. Len(P) + Len(Q) /\ (s + Len(P)) - Len(P) = s
    BY <1>2
  <2>3. s + Len(P) \in DOMAIN R /\ R[s + Len(P)] = Q[s]
    BY <1>2, <2>2
  <2> QED
    BY <2>1, <2>3 DEF Remaining
<1> QED
  BY <1>2, <1>3, <1>4, <1>5 DEF Joins, IsPlan, R, S

LEMMA SinglePlan ==
  ASSUME NEW j, NEW i \in Instructions(j)
  PROVE  IsPlan(j, Stage(i)) /\ Remaining(Stage(i)) = {i}
<1> DEFINE S == (SUBSET Instructions(j)) \ {{}}
           P == Stage(i)
<1>1. {i} \in S
  OBVIOUS
<1> HIDE DEF S
<1>2. P \in Seq(S) /\ DOMAIN P = {1} /\ P[1] = {i}
  BY <1>1 DEF Stage
<1> QED
  BY <1>2 DEF IsPlan, Remaining, S

\* The plan pays the rent of the data to the account at the PDA.
Funds(j, P) ==
  /\ Has(P, "transfer")
  /\ \A i \in Remaining(P) : i.do = "transfer" => i.amount = Rent(Len(j.data))

LEMMA TransferFunds ==
  ASSUME NEW j, JobOK(j), AtPlace(j)
  PROVE  LET P == TransferPlan(MetadataPda(j), Rent(Len(j.data)))
         IN  /\ IsPlan(j, P) /\ Funds(j, P)
             /\ \A i \in Remaining(P) : i.do = "transfer"
<1> DEFINE pay == [do |-> "transfer", account |-> MetadataPda(j), amount |-> Rent(Len(j.data))]
<1>1. pay \in Instructions(j)
  <2>1. HeaderLen + Len(j.data) \in 0 .. MaxLen
    BY JobData, LengthAssumption DEF JobOK
  <2>2. Rent(Len(j.data)) \in Nat
    BY <2>1, RentAssumption DEF Rent
  <2> QED
    BY <2>2, OwnInstructions DEF Place
<1>2. pay.do = "transfer" /\ pay.amount = Rent(Len(j.data))
  OBVIOUS
<1>3. TransferPlan(MetadataPda(j), Rent(Len(j.data))) = Stage(pay)
  BY DEF TransferPlan
<1> HIDE DEF pay
<1> QED
  BY <1>1, <1>2, <1>3, SinglePlan DEF Funds, Has

LEMMA AllocatePlanFunds ==
  ASSUME NEW j, JobOK(j), AtPlace(j)
  PROVE  LET P == AllocatePlan(j, Len(j.data))
         IN  /\ IsPlan(j, P) /\ Funds(j, P)
             /\ \A i \in Remaining(P) : i.do \in {"transfer", "allocate", "extend"}
<1> DEFINE a == MetadataPda(j)
           n == Len(j.data)
           make == [do |-> "allocate"]
           X == TransferPlan(a, Rent(n))
           Y == Stage(make)
           G == GrowPlan(a, n)
<1>1. AllocatePlan(j, n) = (X \o Y) \o G
  BY DEF AllocatePlan
<1>2. IsPlan(j, X) /\ Funds(j, X) /\ \A i \in Remaining(X) : i.do = "transfer"
  BY TransferFunds
<1>3. make \in Instructions(j) /\ make.do = "allocate"
  BY DEF Instructions, Place
<1> HIDE DEF make
<1>4. IsPlan(j, Y) /\ Remaining(Y) = {make}
  BY <1>3, SinglePlan
<1>5. IsPlan(j, G) /\ \A i \in Remaining(G) : i.do = "extend"
  <2>1. n \in Int /\ n <= Len(j.data)
    BY JobData
  <2>2. Block(j, G, 3, 3) /\ \A i \in Remaining(G) : i.do = "extend"
    BY <2>1, GrowPlanFits
  <2> QED
    BY <2>2, BlockIsPlan
<1> HIDE DEF X, Y, G
<1>6. IsPlan(j, X \o Y) /\ Remaining(X \o Y) = Remaining(X) \cup Remaining(Y)
  <2>1. IsPlan(j, X) /\ IsPlan(j, Y)
    BY <1>2, <1>4
  <2>2. Joins(j, X, Y, X \o Y)
    BY <2>1, JoinedPlan
  <2> QED
    BY <2>2 DEF Joins
<1>7. /\ IsPlan(j, (X \o Y) \o G)
      /\ Remaining((X \o Y) \o G) = (Remaining(X) \cup Remaining(Y)) \cup Remaining(G)
  <2>1. Joins(j, X \o Y, G, (X \o Y) \o G)
    BY <1>5, <1>6, JoinedPlan
  <2> QED
    BY <1>6, <2>1 DEF Joins
<1>8. \A i \in Remaining((X \o Y) \o G) :
        i \in Remaining(X) \/ i.do \in {"allocate", "extend"}
  BY <1>3, <1>4, <1>5, <1>7
<1> QED
  BY <1>1, <1>2, <1>7, <1>8 DEF Funds, Has

\* Closing is left out unless it was asked for.
LEMMA ClosePlanCloses ==
  ASSUME NEW j, JobOK(j), NEW b \in Closable(j)
  PROVE  LET P == Unless(~Closes(j), ClosePlan(b))
         IN  /\ IsPlan(j, P) /\ (Closes(j) => ClosesLater(P, b))
             /\ \A i \in Remaining(P) : i.do = "close"
<1> DEFINE close == [do |-> "close", account |-> b]
           P == Unless(~Closes(j), ClosePlan(b))
<1>1. Block(j, P, 9, 9) /\ \A i \in Remaining(P) : i.do = "close"
  BY ClosePlanFits
<1>2. ASSUME Closes(j) PROVE ClosesLater(P, b)
  <2>1. close \in Instructions(j) /\ close.do = "close" /\ close.account = b
    BY OwnInstructions
  <2>2. P = Stage(close)
    BY <1>2 DEF Unless, ClosePlan
  <2> HIDE DEF close
  <2>3. Remaining(P) = {close}
    BY <2>1, <2>2, SinglePlan
  <2> QED
    BY <2>1, <2>3 DEF ClosesLater
<1> QED
  BY <1>1, <1>2, BlockIsPlan

LEMMA ClosesJoined ==
  ASSUME NEW j, NEW P, NEW Q, IsPlan(j, P), IsPlan(j, Q), NEW b,
         ClosesLater(P, b) \/ ClosesLater(Q, b)
  PROVE  ClosesLater(P \o Q, b)
<1>1. Joins(j, P, Q, P \o Q)
  BY JoinedPlan
<1> QED
  BY <1>1 DEF ClosesLater, Joins

ClosesGiven(j, P) ==
  j.op # "create-buffer" /\ Closes(j) => \A b \in Given(j) : ClosesLater(P, b)

\* The plan begins with nothing and pays for the account at the PDA.
Opens(j, P) ==
  IsPlan(j, P) /\ Funds(j, P) /\ ~Has(P, "createAccount") /\ ~Has(P, "allocateKeypair")

LEMMA OpensOn ==
  ASSUME NEW j, NEW P, NEW Q, Opens(j, P), IsPlan(j, Q),
         \A i \in Remaining(Q) : i.do \notin {"transfer", "createAccount", "allocateKeypair"}
  PROVE  Opens(j, P \o Q)
<1> DEFINE R == P \o Q
<1>1. IsPlan(j, R) /\ Remaining(R) = Remaining(P) \cup Remaining(Q)
  <2>1. IsPlan(j, P) /\ IsPlan(j, Q)
    BY DEF Opens
  <2>2. Joins(j, P, Q, R)
    BY <2>1, JoinedPlan
  <2> QED
    BY <2>2 DEF Joins
<1> HIDE DEF R
<1>2. Funds(j, R)
  BY <1>1 DEF Opens, Funds, Has
<1>3. ~Has(R, "createAccount") /\ ~Has(R, "allocateKeypair")
  BY <1>1 DEF Opens, Has
<1> QED
  BY <1>1, <1>2, <1>3 DEF Opens, R

LEMMA AllocatePlanOpens ==
  ASSUME NEW j, JobOK(j), AtPlace(j)
  PROVE  Opens(j, AllocatePlan(j, Len(j.data)))
BY AllocatePlanFunds DEF Opens, Has

LEMMA InstructionDataOpens ==
  ASSUME NEW j, Ready(j), AtPlace(j), j.op # "create-buffer", Given(j) = {}
  PROVE  LET P == CreateUsingInstructionData(j) IN Opens(j, P) /\ ClosesGiven(j, P)
<1> DEFINE X == TransferPlan(MetadataPda(j), Rent(Len(j.data)))
           Y == InitializePlan(j.data)
<1>1. JobOK(j) /\ MetadataPda(j) \in Target(j)
  BY ReadyPlaces
<1>2. Opens(j, X)
  BY <1>1, TransferFunds DEF Opens, Has
<1>3. Block(j, Y, 8, 8) /\ \A i \in Remaining(Y) : i.do = "initialize"
  BY <1>1, PublishPlansFit
<1>4. CreateUsingInstructionData(j) = X \o Y
  BY DEF CreateUsingInstructionData
<1> HIDE DEF X, Y
<1>5. IsPlan(j, Y)
  BY <1>3, BlockIsPlan
<1>6. Opens(j, X \o Y)
  BY <1>2, <1>3, <1>5, OpensOn
<1> QED
  BY <1>4, <1>6 DEF ClosesGiven

LEMMA NewBufferOpens ==
  ASSUME NEW j, Ready(j), AtPlace(j), j.op # "create-buffer", Given(j) = {}
  PROVE  LET P == CreateUsingNewBuffer(j) IN Opens(j, P) /\ ClosesGiven(j, P)
<1> DEFINE A == AllocatePlan(j, Len(j.data))
           W == WritePlan(MetadataPda(j), j.data)
           X == InitializePlan(<<>>)
<1>1. JobOK(j) /\ MetadataPda(j) \in Target(j) /\ MetadataPda(j) \in Place(j)
  BY ReadyPlaces
<1>2. Opens(j, A)
  BY <1>1, AllocatePlanOpens
<1>3. Block(j, W, 7, 7) /\ \A i \in Remaining(W) : i.do = "write"
  BY <1>1, WritePlanFits
<1>4. Block(j, X, 8, 8) /\ \A i \in Remaining(X) : i.do = "initialize"
  BY <1>1, PublishPlansFit
<1>5. CreateUsingNewBuffer(j) = (A \o W) \o X
  BY DEF CreateUsingNewBuffer
<1> HIDE DEF A, W, X
<1>6. IsPlan(j, W) /\ IsPlan(j, X)
  BY <1>3, <1>4, BlockIsPlan
<1>7. Opens(j, A \o W)
  BY <1>2, <1>3, <1>6, OpensOn
<1>8. Opens(j, (A \o W) \o X)
  BY <1>4, <1>6, <1>7, OpensOn
<1> QED
  BY <1>5, <1>8 DEF ClosesGiven

LEMMA ExistingBufferOpens ==
  ASSUME NEW j, Ready(j), AtPlace(j), j.op # "create-buffer", Given(j) # {}
  PROVE  LET P == CreateUsingExistingBuffer(j, Len(j.data)) IN Opens(j, P) /\ ClosesGiven(j, P)
<1> DEFINE A == AllocatePlan(j, Len(j.data))
           W == WriteFromPlan(MetadataPda(j), j.buffer)
           X == InitializePlan(<<>>)
           C == Unless(~Closes(j), ClosePlan(j.buffer))
<1>1. /\ JobOK(j) /\ MetadataPda(j) \in Target(j) /\ MetadataPda(j) \in Place(j)
      /\ Given(j) = {j.buffer} /\ j.buffer \in Closable(j)
  BY ReadyPlaces DEF Given
<1>2. Opens(j, A)
  BY <1>1, AllocatePlanOpens
<1>3. Block(j, W, 7, 7) /\ \A i \in Remaining(W) : i.do = "writeFrom"
  BY <1>1, WriteFromPlanFits
<1>4. Block(j, X, 8, 8) /\ \A i \in Remaining(X) : i.do = "initialize"
  BY <1>1, PublishPlansFit
<1>5. /\ IsPlan(j, C) /\ \A i \in Remaining(C) : i.do = "close"
      /\ Closes(j) => ClosesLater(C, j.buffer)
  BY <1>1, ClosePlanCloses
<1>6. CreateUsingExistingBuffer(j, Len(j.data)) = ((A \o W) \o X) \o C
  BY DEF CreateUsingExistingBuffer
<1> HIDE DEF A, W, X, C
<1>7. IsPlan(j, W) /\ IsPlan(j, X)
  BY <1>3, <1>4, BlockIsPlan
<1>8. Opens(j, A \o W)
  BY <1>2, <1>3, <1>7, OpensOn
<1>9. Opens(j, (A \o W) \o X)
  BY <1>4, <1>7, <1>8, OpensOn
<1> DEFINE D == (A \o W) \o X
<1> HIDE DEF D
<1>10. Opens(j, D)
  BY <1>9 DEF D
<1>11. Opens(j, D \o C)
  BY <1>5, <1>10, OpensOn
<1>12. Closes(j) => ClosesLater(D \o C, j.buffer)
  BY <1>5, <1>10, ClosesJoined DEF Opens
<1>13. ClosesGiven(j, D \o C)
  BY <1>1, <1>12 DEF ClosesGiven
<1> QED
  BY <1>6, <1>11, <1>13 DEF D

LEMMA PdaBufferOpens ==
  ASSUME NEW j, Ready(j), j.op = "create-buffer", j.newBuffer = None
  PROVE  LET P == CreatePdaBuffer(j) IN Opens(j, P) /\ ClosesGiven(j, P)
<1> DEFINE a == MetadataPda(j)
           A == AllocatePlan(j, Len(j.data))
           W == WritePlan(a, j.data)
           C == Unless(~Closes(j), ClosePlan(a))
<1>1. JobOK(j) /\ AtPlace(j) /\ a \in Place(j) /\ a \in Closable(j)
  BY ReadyPlaces DEF AtPlace, Place, Closable
<1>2. Opens(j, A)
  BY <1>1, AllocatePlanOpens
<1>3. Block(j, W, 7, 7) /\ \A i \in Remaining(W) : i.do = "write"
  BY <1>1, WritePlanFits
<1>4. IsPlan(j, C) /\ \A i \in Remaining(C) : i.do = "close"
  BY <1>1, ClosePlanCloses
<1>5. CreatePdaBuffer(j) = (A \o W) \o C
  BY DEF CreatePdaBuffer
<1> HIDE DEF A, W, C
<1>6. IsPlan(j, W)
  BY <1>3, BlockIsPlan
<1>7. Opens(j, A \o W)
  BY <1>2, <1>3, <1>6, OpensOn
<1>8. Opens(j, (A \o W) \o C)
  BY <1>4, <1>7, OpensOn
<1> QED
  BY <1>5, <1>8 DEF ClosesGiven

\* The plan pays the rent of what the metadata grows, and trims what it no longer needs.
Adjusts(j, P, extra) ==
  /\ IsPlan(j, P)
  /\ \A i \in Remaining(P) : i.do = "transfer" => extra > 0 /\ i.amount = ExtraRent(extra)
  /\ extra > 0 => Has(P, "transfer")
  /\ Has(P, "allocateKeypair") => Has(P, "createAccount")

LEMMA AdjustsOn ==
  ASSUME NEW j, NEW P, NEW Q, NEW extra, Adjusts(j, P, extra), IsPlan(j, Q),
         \A i \in Remaining(Q) : i.do # "transfer",
         Has(Q, "allocateKeypair") => Has(Q, "createAccount")
  PROVE  Adjusts(j, P \o Q, extra)
<1> DEFINE R == P \o Q
<1>1. IsPlan(j, R) /\ Remaining(R) = Remaining(P) \cup Remaining(Q)
  <2>1. IsPlan(j, P) /\ IsPlan(j, Q)
    BY DEF Adjusts
  <2>2. Joins(j, P, Q, R)
    BY <2>1, JoinedPlan
  <2> QED
    BY <2>2 DEF Joins
<1> HIDE DEF R
<1>2. Has(R, "allocateKeypair") => Has(R, "createAccount")
  BY <1>1 DEF Adjusts, Has
<1>3. \A i \in Remaining(R) : i.do = "transfer" => i \in Remaining(P)
  BY <1>1
<1>4. Has(P, "transfer") => Has(R, "transfer")
  BY <1>1 DEF Has
<1> QED
  BY <1>1, <1>2, <1>3, <1>4 DEF Adjusts, R

LEMMA FundPlanAdjusts ==
  ASSUME NEW j, JobOK(j), AtPlace(j), NEW extra, Extra(j, extra)
  PROVE  Adjusts(j, FundPlan(MetadataPda(j), extra), extra)
<1> DEFINE a == MetadataPda(j)
           P == FundPlan(a, extra)
           pay == [do |-> "transfer", account |-> a, amount |-> ExtraRent(extra)]
<1>1. Block(j, P, 1, 1) /\ \A i \in Remaining(P) : i.do = "transfer"
  BY FundPlanFits DEF Extra
<1>2. IsPlan(j, P)
  BY <1>1, BlockIsPlan
<1>3. CASE extra <= 0
  <2>1. P = <<>>
    BY <1>3 DEF FundPlan, Unless
  <2>2. Remaining(P) = {}
    BY <2>1 DEF Remaining
  <2> QED
    BY <1>2, <1>3, <2>2 DEF Adjusts, Has, Extra
<1>4. CASE extra > 0
  <2>1. ~(extra <= 0)
    BY <1>4 DEF Extra
  <2>2. P = Stage(pay)
    BY <2>1 DEF FundPlan, Unless, TransferPlan
  <2>3. Remaining(P) = {pay}
    BY <2>2 DEF Stage, Remaining
  <2>4. pay.do = "transfer" /\ pay.amount = ExtraRent(extra)
    OBVIOUS
  <2> HIDE DEF pay, P
  <2> QED
    BY <1>2, <1>4, <2>3, <2>4 DEF Adjusts, Has, P
<1> QED
  BY <1>3, <1>4 DEF Extra

LEMMA ShrinkPlanTrims ==
  ASSUME NEW j, JobOK(j), NEW a \in Target(j), NEW extra, Extra(j, extra)
  PROVE  LET P == ShrinkPlan(a, extra)
         IN  /\ IsPlan(j, P) /\ \A i \in Remaining(P) : i.do = "trim"
             /\ extra < 0 => Has(P, "trim")
<1> DEFINE P == ShrinkPlan(a, extra)
           trim == [do |-> "trim", account |-> a]
<1>1. Block(j, P, 10, 10) /\ \A i \in Remaining(P) : i.do = "trim"
  BY ShrinkPlanFits
<1>2. ASSUME extra < 0 PROVE Has(P, "trim")
  <2>1. ~(extra >= 0)
    BY <1>2 DEF Extra
  <2>2. P = Stage(trim)
    BY <2>1 DEF ShrinkPlan, Unless, TrimPlan
  <2>3. Remaining(P) = {trim} /\ trim.do = "trim"
    BY <2>2 DEF Stage, Remaining
  <2> QED
    BY <2>3 DEF Has
<1> QED
  BY <1>1, <1>2, BlockIsPlan

\* A plan to update adjusts, trims when the data gets shorter, and closes what it should.
Amends(j, P, extra) ==
  /\ Adjusts(j, P, extra)
  /\ extra < 0 => Has(P, "trim")
  /\ Closes(j) /\ Has(P, "createAccount") => ClosesLater(P, j.newBuffer)
  /\ ClosesGiven(j, P)

LEMMA InstructionDataAmends ==
  ASSUME NEW j, Ready(j), AtPlace(j), j.op # "create-buffer", Given(j) = {},
         NEW extra, Extra(j, extra)
  PROVE  Amends(j, UpdateUsingInstructionData(j, extra), extra)
<1> DEFINE a == MetadataPda(j)
           F == FundPlan(a, extra)
           X == Stage([do |-> "setData", account |-> a, data |-> j.data])
           T == ShrinkPlan(a, extra)
<1>1. JobOK(j) /\ a \in Target(j)
  BY ReadyPlaces
<1>2. Adjusts(j, F, extra) /\ \A i \in Remaining(F) : i.do = "transfer"
  BY <1>1, FundPlanAdjusts, FundPlanFits DEF Extra
<1>3. Block(j, X, 8, 8) /\ \A i \in Remaining(X) : i.do = "setData"
  BY <1>1, PublishPlansFit
<1>4. /\ IsPlan(j, T) /\ \A i \in Remaining(T) : i.do = "trim"
      /\ extra < 0 => Has(T, "trim")
  BY <1>1, ShrinkPlanTrims
<1>5. UpdateUsingInstructionData(j, extra) = (F \o X) \o T
  BY DEF UpdateUsingInstructionData
<1> HIDE DEF F, X, T
<1>6. IsPlan(j, X)
  BY <1>3, BlockIsPlan
<1> DEFINE D == F \o X
<1>7. Adjusts(j, D, extra)
  BY <1>2, <1>3, <1>6, AdjustsOn DEF Has
<1>8. IsPlan(j, D) /\ Remaining(D) = Remaining(F) \cup Remaining(X)
  <2>1. IsPlan(j, F) /\ IsPlan(j, X)
    BY <1>2, <1>6 DEF Adjusts
  <2>2. Joins(j, F, X, D)
    BY <2>1, JoinedPlan
  <2> QED
    BY <2>2 DEF Joins
<1> HIDE DEF D
<1> DEFINE P == D \o T
<1>9. Adjusts(j, P, extra)
  BY <1>4, <1>7, AdjustsOn DEF Has
<1>10. IsPlan(j, P) /\ Remaining(P) = Remaining(D) \cup Remaining(T)
  <2>1. IsPlan(j, D) /\ IsPlan(j, T)
    BY <1>4, <1>8 DEF Adjusts
  <2>2. Joins(j, D, T, P)
    BY <2>1, JoinedPlan
  <2> QED
    BY <2>2 DEF Joins
<1> HIDE DEF P
<1>11. extra < 0 => Has(P, "trim")
  BY <1>4, <1>10 DEF Has
<1>12. ~Has(P, "createAccount")
  BY <1>2, <1>3, <1>4, <1>8, <1>10 DEF Has
<1> QED
  BY <1>5, <1>9, <1>11, <1>12 DEF Amends, ClosesGiven, P, D

\* An update's end closes its buffer and trims.
LEMMA EndAmends ==
  ASSUME NEW j, Ready(j), AtPlace(j), j.op # "create-buffer", NEW b \in Fresh(j) \cup Given(j),
         NEW extra, Extra(j, extra), NEW P, Adjusts(j, P, extra)
  PROVE  LET Q == EndPlan(j, b, extra, P)
         IN  /\ Adjusts(j, Q, extra) /\ (extra < 0 => Has(Q, "trim"))
             /\ Closes(j) => ClosesLater(Q, b)
             /\ Has(Q, "createAccount") => Has(P, "createAccount")
<1> DEFINE a == MetadataPda(j)
           S == SetDataFromPlan(a, b)
           C == Unless(~Closes(j), ClosePlan(b))
           T == ShrinkPlan(a, extra)
<1>1. JobOK(j) /\ a \in Target(j) /\ b \in Closable(j)
  BY ReadyPlaces DEF Closable
<1>2. Block(j, S, 8, 8) /\ \A i \in Remaining(S) : i.do = "setDataFrom"
  BY <1>1, PublishPlansFit, ZenonT(90)
<1>3. /\ IsPlan(j, C) /\ \A i \in Remaining(C) : i.do = "close"
      /\ Closes(j) => ClosesLater(C, b)
  BY <1>1, ClosePlanCloses
<1>4. /\ IsPlan(j, T) /\ \A i \in Remaining(T) : i.do = "trim"
      /\ extra < 0 => Has(T, "trim")
  BY <1>1, ShrinkPlanTrims
<1>5. EndPlan(j, b, extra, P) = ((P \o S) \o C) \o T
  BY DEF EndPlan
<1> HIDE DEF S, C, T
<1>6. IsPlan(j, S)
  BY <1>2, BlockIsPlan
<1> DEFINE X == P \o S
<1>7. Adjusts(j, X, extra)
  BY <1>2, <1>6, AdjustsOn DEF Has
<1>8. IsPlan(j, X) /\ Remaining(X) = Remaining(P) \cup Remaining(S)
  <2>1. IsPlan(j, P) /\ IsPlan(j, S)
    BY <1>6 DEF Adjusts
  <2>2. Joins(j, P, S, X)
    BY <2>1, JoinedPlan
  <2> QED
    BY <2>2 DEF Joins
<1> HIDE DEF X
<1> DEFINE Y == X \o C
<1>9. Adjusts(j, Y, extra)
  BY <1>3, <1>7, AdjustsOn DEF Has
<1>10. IsPlan(j, Y) /\ Remaining(Y) = Remaining(X) \cup Remaining(C)
  <2>1. IsPlan(j, X) /\ IsPlan(j, C)
    BY <1>3, <1>7 DEF Adjusts
  <2>2. Joins(j, X, C, Y)
    BY <2>1, JoinedPlan
  <2> QED
    BY <2>2 DEF Joins
<1> HIDE DEF Y
<1> DEFINE Q == Y \o T
<1>11. Adjusts(j, Q, extra)
  BY <1>4, <1>9, AdjustsOn DEF Has
<1>12. IsPlan(j, Q) /\ Remaining(Q) = Remaining(Y) \cup Remaining(T)
  <2>1. IsPlan(j, Y) /\ IsPlan(j, T)
    BY <1>4, <1>9 DEF Adjusts
  <2>2. Joins(j, Y, T, Q)
    BY <2>1, JoinedPlan
  <2> QED
    BY <2>2 DEF Joins
<1> HIDE DEF Q
<1>13. extra < 0 => Has(Q, "trim")
  BY <1>4, <1>12 DEF Has
<1>14. Closes(j) => ClosesLater(Q, b)
  BY <1>3, <1>10, <1>12 DEF ClosesLater
<1>15. Has(Q, "createAccount") => Has(P, "createAccount")
  BY <1>2, <1>3, <1>4, <1>8, <1>10, <1>12 DEF Has
<1> QED
  BY <1>5, <1>11, <1>13, <1>14, <1>15 DEF Q, Y, X

\* What pays for the metadata to grow and makes it grow.
LEMMA GrowthAdjusts ==
  ASSUME NEW j, Ready(j), AtPlace(j), NEW extra, Extra(j, extra)
  PROVE  LET P == FundPlan(MetadataPda(j), extra) \o GrowPlan(MetadataPda(j), extra)
         IN  Adjusts(j, P, extra) /\ ~Has(P, "createAccount")
<1> DEFINE F == FundPlan(MetadataPda(j), extra)
           G == GrowPlan(MetadataPda(j), extra)
<1>1. JobOK(j)
  BY ReadyPlaces
<1>2. Adjusts(j, F, extra)
  BY <1>1, FundPlanAdjusts
<1>3. Block(j, G, 3, 3) /\ \A i \in Remaining(G) : i.do = "extend"
  BY <1>1, GrowPlanFits DEF Extra
<1>4. \A i \in Remaining(F \o G) : i.do \in {"transfer", "extend"}
  BY GrowthFits
<1> HIDE DEF F, G
<1>5. IsPlan(j, G)
  BY <1>3, BlockIsPlan
<1>6. Adjusts(j, F \o G, extra)
  BY <1>2, <1>3, <1>5, AdjustsOn DEF Has
<1>7. ~Has(F \o G, "createAccount")
  BY <1>4 DEF Has
<1> QED
  BY <1>6, <1>7 DEF F, G

LEMMA ExistingBufferAmends ==
  ASSUME NEW j, Ready(j), AtPlace(j), j.op # "create-buffer", Given(j) # {},
         NEW extra, Extra(j, extra)
  PROVE  Amends(j, UpdateUsingExistingBuffer(j, extra), extra)
<1> DEFINE a == MetadataPda(j)
           P == FundPlan(a, extra) \o GrowPlan(a, extra)
           Q == EndPlan(j, j.buffer, extra, P)
<1>1. UpdateUsingExistingBuffer(j, extra) = Q
  BY DEF UpdateUsingExistingBuffer, EndPlan
<1>2. Given(j) = {j.buffer}
  BY DEF Given
<1>3. Adjusts(j, P, extra) /\ ~Has(P, "createAccount")
  BY GrowthAdjusts
<1> HIDE DEF P
<1>4. /\ Adjusts(j, Q, extra) /\ (extra < 0 => Has(Q, "trim"))
      /\ Closes(j) => ClosesLater(Q, j.buffer)
      /\ Has(Q, "createAccount") => Has(P, "createAccount")
  BY <1>2, <1>3, EndAmends
<1> HIDE DEF Q
<1>5. Amends(j, Q, extra)
  BY <1>2, <1>3, <1>4 DEF Amends, ClosesGiven
<1> QED
  BY <1>1, <1>5

LEMMA NewBufferAmends ==
  ASSUME NEW j, Ready(j), AtPlace(j), j.op # "create-buffer", Fresh(j) # {}, Given(j) = {},
         NEW extra, Extra(j, extra)
  PROVE  Amends(j, UpdateUsingNewBuffer(j, extra), extra)
<1> DEFINE a == MetadataPda(j)
           b == j.newBuffer
           G == FundPlan(a, extra) \o GrowPlan(a, extra)
           K == CreateBuffer(j, b, None, Len(j.data))
           P == G \o K
           Q == EndPlan(j, b, extra, P)
<1>1. UpdateUsingNewBuffer(j, extra) = Q
  BY DEF UpdateUsingNewBuffer, EndPlan
<1>2. JobOK(j) /\ b \in Fresh(j)
  BY ReadyPlaces DEF Fresh
<1>3. Adjusts(j, G, extra)
  BY GrowthAdjusts
<1>4. /\ Block(j, K, 4, 7) /\ Has(K, "createAccount")
      /\ \A i \in Remaining(K) :
           i.do \in {"createAccount", "allocateKeypair", "setAuthority", "write"}
  BY <1>2, CreateBufferFits
<1> HIDE DEF G, K
<1>5. IsPlan(j, K)
  BY <1>4, BlockIsPlan
<1>6. Adjusts(j, P, extra)
  BY <1>3, <1>4, <1>5, AdjustsOn
<1> HIDE DEF P
<1>7. /\ Adjusts(j, Q, extra) /\ (extra < 0 => Has(Q, "trim"))
      /\ Closes(j) => ClosesLater(Q, b)
  BY <1>2, <1>6, EndAmends
<1> HIDE DEF Q
<1>8. Amends(j, Q, extra)
  BY <1>7 DEF Amends, ClosesGiven
<1> QED
  BY <1>1, <1>8

-----------------------------------------------------------------------------
(* A client begins.                                                        *)

\* The plan brings the account to the rent of the data, and closes what it should.
Planned(j, P, A) ==
  PlaceRent(j, P, A) /\ FreshRent(j, P, A) /\ ClosesGiven(j, P)

LEMMA RentsOfLengths ==
  ASSUME NEW n \in Nat, HeaderLen + n <= MaxLen
  PROVE  Rent(n) \in Nat
<1>1. HeaderLen + n \in 0 .. MaxLen
  BY LengthAssumption
<1> QED
  BY <1>1, RentAssumption DEF Rent

\* What growth costs, as the client works it out, is what the rent grows by.
LEMMA RentGrows ==
  ASSUME RentIsLinear, NEW len \in Nat, NEW n \in Nat, n > 0, HeaderLen + (len + n) <= MaxLen
  PROVE  Rent(len) + ExtraRent(n) = Rent(len + n)
<1>1. /\ HeaderLen + len \in 0 .. MaxLen /\ n \in 0 .. MaxLen /\ 0 \in 0 .. MaxLen
      /\ (HeaderLen + len) + n <= MaxLen /\ HeaderLen + (len + n) \in 0 .. MaxLen
      /\ (HeaderLen + len) + n = HeaderLen + (len + n)
  BY LengthAssumption
<1> DEFINE x == MinBalance(HeaderLen + len)
           y == MinBalance(n)
           z == MinBalance(0)
           s == MinBalance(HeaderLen + (len + n))
<1>2. x \in Nat /\ y \in Nat /\ z \in Nat /\ s \in Nat
  BY <1>1, RentAssumption
<1>3. MinBalance((HeaderLen + len) + n) = x + y - z
  BY <1>1 DEF RentIsLinear
<1>4. s = x + y - z
  BY <1>1, <1>3
<1>5. Rent(len) = x /\ ExtraRent(n) = y - z /\ Rent(len + n) = s
  BY DEF Rent, ExtraRent
<1> HIDE DEF x, y, z, s
<1> QED
  BY <1>2, <1>4, <1>5

\* A plan to begin with holds no buffer of its keypair.
LEMMA PreparedHolds ==
  ASSUME NEW j, NEW P, Prepared(j, P)
  PROVE  ~HoldsFresh(j, P)
BY DEF Prepared, HoldsFresh

LEMMA OpensPlanned ==
  ASSUME NEW j, NEW P, NEW A, JobOK(j), Prepared(j, P), Opens(j, P), ClosesGiven(j, P),
         A[MetadataPda(j)].lamports = 0, j.op # "create-buffer" => ToPublish(P)
  PROVE  Planned(j, P, A)
<1>1. Rent(Len(j.data)) \in Nat
  BY JobData, RentsOfLengths DEF JobOK
<1>2. \A i \in Remaining(P) :
        i.do = "transfer" => A[MetadataPda(j)].lamports + i.amount = Rent(Len(j.data))
  BY <1>1 DEF Opens, Funds
<1>3. PlaceRent(j, P, A)
  BY <1>2 DEF PlaceRent, Opens, Funds
<1>4. FreshRent(j, P, A)
  BY PreparedHolds DEF FreshRent, Opens
<1> QED
  BY <1>3, <1>4 DEF Planned

LEMMA AmendsPlanned ==
  ASSUME RentIsLinear, NEW j, NEW P, NEW A, JobOK(j), Prepared(j, P), NEW len \in Nat,
         Amends(j, P, Len(j.data) - len), A[MetadataPda(j)].lamports = Rent(len), ToPublish(P)
  PROVE  Planned(j, P, A)
<1> DEFINE n == Len(j.data)
           extra == n - len
           r == A[MetadataPda(j)]
<1>1. n \in Nat /\ HeaderLen + n <= MaxLen /\ extra \in Int
  BY JobData DEF JobOK
<1>2. /\ \A i \in Remaining(P) : i.do = "transfer" => extra > 0 /\ i.amount = ExtraRent(extra)
      /\ extra > 0 => Has(P, "transfer")
      /\ extra < 0 => Has(P, "trim")
      /\ Has(P, "allocateKeypair") => Has(P, "createAccount")
      /\ Closes(j) /\ Has(P, "createAccount") => ClosesLater(P, j.newBuffer)
      /\ ClosesGiven(j, P)
  BY DEF Amends, Adjusts
<1>3. ASSUME extra > 0 PROVE Rent(len) + ExtraRent(extra) = Rent(n)
  <2>1. extra \in Nat /\ len + extra = n
    BY <1>1, <1>3
  <2> HIDE DEF extra
  <2>2. Rent(len) + ExtraRent(extra) = Rent(len + extra)
    BY <1>1, <1>3, <2>1, RentGrows
  <2> QED
    BY <2>1, <2>2
<1>4. \A i \in Remaining(P) : i.do = "transfer" => r.lamports + i.amount = Rent(n)
  BY <1>2, <1>3
<1>5. ~Has(P, "trim") /\ ~Has(P, "transfer") => r.lamports = Rent(n)
  BY <1>1, <1>2
<1>6. PlaceRent(j, P, A)
  BY <1>4, <1>5 DEF PlaceRent
<1>7. FreshRent(j, P, A)
  BY <1>2, PreparedHolds DEF FreshRent
<1> QED
  BY <1>2, <1>6, <1>7 DEF Planned

LEMMA AwayPlanned ==
  ASSUME NEW j, NEW P, NEW A, Prepared(j, P), ~AtPlace(j),
         j.op = "create-buffer" \/ Given(j) = {},
         \/ Has(P, "createAccount") /\ j.op = "create-buffer"
         \/ ~Has(P, "createAccount") /\ ~Has(P, "allocateKeypair")
  PROVE  Planned(j, P, A)
BY PreparedHolds DEF Planned, PlaceRent, FreshRent, ClosesGiven

\* What a client finds says what the account holds.
LEMMA FoundNothing ==
  ASSUME UploadInv, NEW a \in Address, Found(a) = "nothing"
  PROVE  acct[a].lamports = 0
<1>1. acct[a].lamports \in Nat
  BY DEF UploadInv, AccountsOK, Sound, AccountRecord
<1> QED
  BY <1>1 DEF Found, Exists

LEMMA FoundMetadata ==
  ASSUME UploadInv, NEW a \in Address, Neat(acct[a]), Found(a) = "metadata"
  PROVE  acct[a].lamports = Rent(BodyLen(a))
<1>1. acct[a] \in AccountRecord /\ WellFormed(a, acct[a])
  BY DEF UploadInv, AccountsOK, Sound
<1>2. ValidMetadata(acct[a])
  BY DEF Found
<1>3. acct[a].owner = "self" /\ acct[a].head = HeaderLen
  BY <1>1, <1>2 DEF ValidMetadata, WellFormed, HeaderOwned
<1> QED
  BY <1>3 DEF Neat, DataLen, Rent, BodyLen

\* A beginning goes on the record.
Recorded(c, a, J2) ==
  /\ J2[c].found = Found(a)
  /\ J2[c].alone <=> \A d \in Client \ {c} : job[d].status # "running"
  /\ \A d \in Client \ {c} :
       IF job[d].status = "running" THEN J2[d].alone = FALSE ELSE J2[d] = job[d]

LEMMA StartedHistory ==
  ASSUME DOMAIN job = Client, \A d \in Client : DOMAIN job[d] = ClientJob,
         NEW c \in Client, NEW a, NEW status, NEW plan, NEW whole
  PROVE  Recorded(c, a, StartedWith(c, a, status, plan, whole))
<1> DEFINE J2 == StartedWith(c, a, status, plan, whole)
<1>1. J2[c].found = Found(a) /\ J2[c].alone = ~(\E d \in Client \ {c} : Running(d))
  BY DEF StartedWith, ClientJob
<1>2. ASSUME NEW d \in Client \ {c}
      PROVE  IF job[d].status = "running" THEN J2[d].alone = FALSE ELSE J2[d] = job[d]
  <2>1. J2[d] = IF Running(d) THEN [job[d] EXCEPT !.alone = FALSE] ELSE job[d]
    BY DEF StartedWith
  <2> QED
    BY <2>1 DEF ClientJob, Running
<1> HIDE DEF J2
<1> QED
  BY <1>1, <1>2 DEF J2, Running, Recorded

LEMMA RejectKeepsRent ==
  ASSUME RentInv, open = None, NEW c \in Client, job[c].status = "waiting",
         NEW a, Reject(c, a)
  PROVE  RentInv'
<1> DEFINE J2 == job'
           none == <<>>
           no == FALSE
<1>1. UploadInv /\ DOMAIN job = Client /\ \A d \in Client : DOMAIN job[d] = ClientJob
  BY DEF RentInv, UploadInv, JobsOK
<1>2. UploadInv'
  BY <1>1, RejectKeeps
<1>3. J2 = StartedWith(c, a, "rejected", none, no)
  BY DEF Reject
<1> HIDE DEF J2, none, no
<1>4. J2[c].status = "rejected"
  BY <1>1, <1>3, StartedJobs
<1>6. ~SoFar(J2)
  BY <1>4 DEF SoFar
<1>7. (SoFar(job) => RentOK(job, acct))'
  BY <1>6 DEF J2
<1> QED
  BY <1>2, <1>7 DEF RentInv

\* Among users who come one after the other, a client that begins finds every account at
\* its rent, and its buffers not there.
LEMMA StartedRent ==
  ASSUME NEW J, NEW A, NEW c \in Client, NEW J2, SameJobs(J, J2, c), RentOK(J, A),
         \A d \in Client : J[d].status # "running",
         \A d \in Client \ {c} : J2[d] = J[d],
         J[c].status = "waiting", J2[c].status = "running",
         \A b \in Fresh(J[c].input) : b \notin Given(J[c].input),
         Planned(J[c].input, J2[c].plan, A)
  PROVE  RentOK(J2, A)
<1> DEFINE j == J[c].input
           P == J2[c].plan
<1>1. J2[c].input = j /\ \A d \in Client : J2[d].input = J[d].input
  BY DEF SameJobs
<1>2. /\ PlaceRent(j, P, A) /\ FreshRent(j, P, A)
      /\ j.op # "create-buffer" /\ Closes(j) => \A b \in Given(j) : ClosesLater(P, b)
  BY DEF Planned, ClosesGiven
<1>3. \A a \in Address : Neat(A[a])
  BY DEF RentOK
<1>4. \A d \in Client : J2[d].status = "running" => d = c
  OBVIOUS
<1>5. ClosedOK(J2, A)
  <2> SUFFICES ASSUME NEW d \in Client, J2[d].input.op \in {"create", "update", "write"},
                      Closes(J2[d].input), NEW b \in Fresh(J2[d].input) \cup Given(J2[d].input)
               PROVE  \/ A[b].lamports = 0
                      \/ J2[d].status = "waiting" /\ b \in Given(J2[d].input)
                      \/ J2[d].status = "running" /\ ClosesLater(J2[d].plan, b)
    BY DEF ClosedOK
  <2>1. \/ A[b].lamports = 0
        \/ J[d].status = "waiting" /\ b \in Given(J[d].input)
        \/ J[d].status = "running" /\ ClosesLater(J[d].plan, b)
    BY <1>1 DEF RentOK, ClosedOK
  <2>2. CASE d # c
    BY <2>1, <2>2
  <2>3. CASE d = c
    BY <1>1, <1>2, <2>1, <2>3
  <2> QED
    BY <2>2, <2>3
<1>6. WalletsOK(J2, A)
  BY <1>1 DEF RentOK, WalletsOK
<1> QED
  BY <1>1, <1>2, <1>3, <1>4, <1>5, <1>6 DEF RentOK

LEMMA StartKeepsRent ==
  ASSUME RentInv, UploadInv', open = None, NEW c \in Client, NEW a, NEW plan, NEW whole,
         job[c].status = "waiting", Start(c, a, plan, whole),
         (\A b \in Address : Neat(acct[b])) /\ Expected(job[c].input, Found(a)) =>
           Planned(job[c].input, plan, acct)
  PROVE  RentInv'
<1> DEFINE J2 == job'
           j == job[c].input
<1>1. /\ UploadInv /\ DOMAIN job = Client /\ \A d \in Client : DOMAIN job[d] = ClientJob
      /\ Given(j) \cap Fresh(j) = {}
  BY DEF RentInv, UploadInv, JobsOK, Disjoint
<1>2. J2 = StartedWith(c, a, "running", plan, whole) /\ acct' = acct
  BY DEF Start, vars
<1> HIDE DEF J2
<1>3. /\ SameJobs(job, J2, c) /\ J2[c].status = "running" /\ J2[c].plan = plan
      /\ J2[c].found = Found(a)
      /\ J2[c].alone <=> \A d \in Client \ {c} : job[d].status # "running"
      /\ \A d \in Client \ {c} :
           IF job[d].status = "running" THEN J2[d].alone = FALSE ELSE J2[d] = job[d]
  <2> DEFINE K == StartedWith(c, a, "running", plan, whole)
  <2>1. /\ DOMAIN K = Client /\ \A d \in Client : DOMAIN K[d] = ClientJob
        /\ SameJobs(job, K, c) /\ K[c].status = "running" /\ K[c].plan = plan
    BY <1>1, StartedJobs
  <2>2. Recorded(c, a, K)
    BY <1>1, StartedHistory
  <2>3. J2 = K
    BY <1>2
  <2> HIDE DEF K
  <2> QED
    BY <2>1, <2>2, <2>3 DEF Recorded
<1>5. ASSUME SoFar(J2) PROVE RentOK(J2, acct)
  <2>1. /\ J2[c].alone /\ Expected(J2[c].input, J2[c].found)
        /\ \A d \in Client \ {c} :
             \/ J2[d].status = "waiting"
             \/ /\ J2[d].status \in {"running", "done"} /\ J2[d].alone
                /\ Expected(J2[d].input, J2[d].found)
    BY <1>3, <1>5 DEF SoFar
  <2>2. \A d \in Client : job[d].status # "running"
    BY <1>3, <2>1
  <2>3. \A d \in Client \ {c} : J2[d] = job[d]
    BY <1>3, <2>2
  <2>4. SoFar(job)
    BY <2>1, <2>3 DEF SoFar
  <2>5. RentOK(job, acct)
    BY <2>4 DEF RentInv
  <2>6. \A b \in Address : Neat(acct[b])
    BY <2>2, <2>5 DEF RentOK
  <2>7. Expected(j, Found(a))
    BY <1>3, <2>1 DEF SameJobs
  <2>8. Planned(j, J2[c].plan, acct)
    BY <1>3, <2>6, <2>7
  <2> QED
    BY <1>1, <1>3, <2>2, <2>3, <2>5, <2>8, StartedRent
<1>6. (SoFar(job) => RentOK(job, acct))'
  BY <1>2, <1>5 DEF J2
<1> QED
  BY <1>6 DEF RentInv

\* A client that creates.
LEMMA CreateKeepsRent ==
  ASSUME RentInv, UploadInv', open = None, NEW c \in Client, job[c].status = "waiting",
         job[c].input.op \in {"create", "write"},
         Expected(job[c].input, Found(MetadataPda(job[c].input))) =>
           Found(MetadataPda(job[c].input)) = "nothing",
         StartCreate(c)
  PROVE  RentInv'
<1> DEFINE j == job[c].input
           a == MetadataPda(j)
<1>1. UploadInv /\ Ready(j) /\ JobOK(j) /\ AtPlace(j) /\ j.op # "create-buffer"
  BY JobReady DEF RentInv, UploadInv, AtPlace, Ready
<1>2. a \in Address
  BY <1>1, JobAddresses
<1>3. ASSUME NEW plan, NEW whole, Start(c, a, plan, whole), Prepared(j, plan), Creating(plan),
             Opens(j, plan), ClosesGiven(j, plan)
      PROVE  RentInv'
  <2>1. ASSUME Expected(j, Found(a)) PROVE Planned(j, plan, acct)
    <3>1. acct[a].lamports = 0
      BY <1>1, <1>2, <2>1, FoundNothing
    <3>2. ToPublish(plan)
      BY <1>3, CreatingAims
    <3> QED
      BY <1>1, <1>3, <3>1, <3>2, OpensPlanned
  <2> QED
    BY <1>3, <2>1, StartKeepsRent
<1>4. CASE FromExisting(j) /\ ~Decodable(j.buffer) /\ Reject(c, a)
  BY <1>4, RejectKeepsRent
<1>5. CASE /\ FromExisting(j) /\ Decodable(j.buffer)
           /\ Start(c, a, CreateUsingExistingBuffer(j, BodyLen(j.buffer)), FALSE)
  <2>1. j.buffer \in Given(j)
    BY <1>5 DEF FromExisting, Given
  <2>2. BodyLen(j.buffer) = Len(j.data)
    BY <1>1, <1>5, <2>1, GivenLength
  <2> DEFINE plan == CreateUsingExistingBuffer(j, Len(j.data))
  <2>3. Prepared(j, plan) /\ Creating(plan) /\ Opens(j, plan) /\ ClosesGiven(j, plan)
    BY <1>1, <2>1, ExistingBufferCreates, ExistingBufferOpens
  <2> HIDE DEF plan
  <2> QED
    BY <1>3, <1>5, <2>2, <2>3 DEF plan
<1>6. CASE Inline(j) /\ Start(c, a, CreateUsingInstructionData(j), TRUE)
  <2>1. Given(j) = {}
    BY <1>6 DEF Inline, FromExisting, Given
  <2> QED
    BY <1>1, <1>3, <1>6, <2>1, InstructionDataCreates, InstructionDataOpens
<1>7. CASE ~FromExisting(j) /\ Start(c, a, CreateUsingNewBuffer(j), FALSE)
  <2>1. Given(j) = {}
    BY <1>7 DEF FromExisting, Given
  <2> QED
    BY <1>1, <1>3, <1>7, <2>1, NewBufferCreates, NewBufferOpens
<1> QED
  BY <1>4, <1>5, <1>6, <1>7 DEF StartCreate

\* A client that updates.
LEMMA UpdateKeepsRent ==
  ASSUME RentIsLinear, RentInv, UploadInv', open = None, NEW c \in Client,
         job[c].status = "waiting", job[c].input.op \in {"update", "write"},
         Expected(job[c].input, Found(MetadataPda(job[c].input))) =>
           Found(MetadataPda(job[c].input)) = "metadata",
         StartUpdate(c)
  PROVE  RentInv'
<1> DEFINE j == job[c].input
           a == MetadataPda(j)
           len == BodyLen(a)
           extra == Len(j.data) - len
<1>1. /\ UploadInv /\ Ready(j) /\ JobOK(j) /\ AtPlace(j) /\ j.op # "create-buffer"
      /\ Len(j.data) \in Nat
  BY JobReady, JobData DEF RentInv, UploadInv, AtPlace, Ready
<1>2. a \in Address /\ len \in Nat
  BY <1>1, JobAddresses, BodyLengths
<1>3. Extra(j, extra)
  BY <1>1, <1>2 DEF Extra
<1>4. ASSUME NEW plan, NEW whole, Start(c, a, plan, whole), Prepared(j, plan), Updating(plan),
             Amends(j, plan, extra)
      PROVE  RentInv'
  <2>1. ASSUME \A b \in Address : Neat(acct[b]), Expected(j, Found(a))
        PROVE  Planned(j, plan, acct)
    <3>1. acct[a].lamports = Rent(len)
      BY <1>1, <1>2, <2>1, FoundMetadata
    <3>2. ToPublish(plan)
      BY <1>4, UpdatingAims
    <3> HIDE DEF len
    <3> QED
      BY <1>1, <1>2, <1>4, <3>1, <3>2, AmendsPlanned
  <2> QED
    BY <1>4, <2>1, StartKeepsRent
<1>5. CASE Reject(c, a)
  BY <1>5, RejectKeepsRent
<1>6. CASE /\ FromExisting(j) /\ Decodable(j.buffer)
           /\ Start(c, a, UpdateUsingExistingBuffer(j, BodyLen(j.buffer) - BodyLen(a)), FALSE)
  <2>1. j.buffer \in Given(j)
    BY <1>6 DEF FromExisting, Given
  <2>2. BodyLen(j.buffer) = Len(j.data)
    BY <1>1, <1>6, <2>1, GivenLength
  <2> DEFINE plan == UpdateUsingExistingBuffer(j, extra)
  <2>3. Start(c, a, plan, FALSE)
    BY <1>6, <2>2
  <2> HIDE DEF extra
  <2>4. Prepared(j, plan) /\ Updating(plan)
    BY <1>1, <1>3, <2>1, ExistingBufferUpdates
  <2>5. Amends(j, plan, extra)
    BY <1>1, <1>3, <2>1, ExistingBufferAmends
  <2> HIDE DEF plan
  <2> QED
    BY <1>4, <2>3, <2>4, <2>5
<1>7. CASE Inline(j) /\ Start(c, a, UpdateUsingInstructionData(j, extra), TRUE)
  <2>1. Given(j) = {}
    BY <1>7 DEF Inline, FromExisting, Given
  <2> DEFINE plan == UpdateUsingInstructionData(j, extra)
  <2> HIDE DEF extra
  <2>2. Prepared(j, plan) /\ Updating(plan)
    BY <1>1, <1>3, InstructionDataUpdates
  <2>3. Amends(j, plan, extra)
    BY <1>1, <1>3, <2>1, InstructionDataAmends
  <2> HIDE DEF plan
  <2> QED
    BY <1>4, <1>7, <2>2, <2>3 DEF plan
<1>8. CASE ~FromExisting(j) /\ ~Inline(j) /\ Start(c, a, UpdateUsingNewBuffer(j, extra), FALSE)
  <2>1. Given(j) = {} /\ Len(j.data) > InlineLimit
    BY <1>1, <1>8, PlanAssumption DEF FromExisting, Inline, Given
  <2>2. Fresh(j) # {}
    BY <1>1, <2>1 DEF JobOK
  <2> DEFINE plan == UpdateUsingNewBuffer(j, extra)
  <2> HIDE DEF extra
  <2>3. Prepared(j, plan) /\ Updating(plan)
    BY <1>1, <1>3, <2>2, NewBufferUpdates
  <2>4. Amends(j, plan, extra)
    BY <1>1, <1>3, <2>1, <2>2, NewBufferAmends
  <2> HIDE DEF plan
  <2> QED
    BY <1>4, <1>8, <2>3, <2>4 DEF plan
<1> QED
  BY <1>5, <1>6, <1>7, <1>8 DEF StartUpdate

\* A client that makes a buffer.
LEMMA CreateBufferKeepsRent ==
  ASSUME RentInv, UploadInv', open = None, NEW c \in Client, job[c].status = "waiting",
         job[c].input.op = "create-buffer", StartCreateBuffer(c)
  PROVE  RentInv'
<1> DEFINE j == job[c].input
           b == j.newBuffer
<1>1. UploadInv /\ Ready(j) /\ JobOK(j)
  BY JobReady DEF RentInv, UploadInv, Ready
<1>2. CASE b = None /\ Start(c, MetadataPda(j), CreatePdaBuffer(j), FALSE)
  <2> DEFINE a == MetadataPda(j)
             plan == CreatePdaBuffer(j)
  <2>1. Prepared(j, plan) /\ Opens(j, plan) /\ ClosesGiven(j, plan)
    BY <1>1, <1>2, PdaBufferCreates, PdaBufferOpens
  <2>2. a \in Address
    BY <1>1, JobAddresses
  <2> HIDE DEF plan
  <2>3. ASSUME Expected(j, Found(a)) PROVE Planned(j, plan, acct)
    <3>1. Found(a) = "nothing"
      BY <2>3 DEF Expected
    <3>2. acct[a].lamports = 0
      BY <1>1, <2>2, <3>1, FoundNothing
    <3> QED
      BY <1>1, <2>1, <3>2, OpensPlanned
  <2> QED
    BY <1>2, <2>3, StartKeepsRent DEF plan
<1>3. ASSUME b # None, NEW source, source = None \/ source \in Given(j),
             Start(c, b, CreateBuffer(j, b, source, Len(j.data)), FALSE)
      PROVE  RentInv'
  <2> DEFINE plan == CreateBuffer(j, b, source, Len(j.data))
  <2>1. Prepared(j, plan)
    BY <1>1, <1>3, KeypairBufferCreates
  <2>2. Has(plan, "createAccount")
    <3>1. b \in Fresh(j)
      BY <1>3 DEF Fresh
    <3>2. CASE source = None
      BY <1>1, <3>1, <3>2, CreateBufferFits
    <3>3. CASE source \in Given(j)
      BY <1>1, <3>1, <3>3, CreateBufferFromFits
    <3> QED
      BY <1>3, <3>2, <3>3
  <2> HIDE DEF plan
  <2>3. Planned(j, plan, acct)
    BY <1>3, <2>1, <2>2, AwayPlanned DEF AtPlace
  <2>4. Start(c, b, plan, FALSE)
    BY <1>3 DEF plan
  <2> QED
    BY <2>3, <2>4, StartKeepsRent
<1>4. CASE b # None /\ Start(c, b, CreateBuffer(j, b, None, Len(j.data)), FALSE)
  BY <1>3, <1>4
<1>5. CASE /\ b # None /\ FromExisting(j) /\ Decodable(j.buffer)
           /\ Start(c, b, CreateBuffer(j, b, j.buffer, BodyLen(j.buffer)), FALSE)
  <2>1. j.buffer \in Given(j)
    BY <1>5 DEF FromExisting, Given
  <2>2. BodyLen(j.buffer) = Len(j.data)
    BY <1>1, <1>5, <2>1, GivenLength
  <2> QED
    BY <1>3, <1>5, <2>1, <2>2
<1>6. CASE Reject(c, b)
  BY <1>6, RejectKeepsRent
<1> QED
  BY <1>2, <1>4, <1>5, <1>6 DEF StartCreateBuffer

\* A client that closes one.
LEMMA CloseBufferKeepsRent ==
  ASSUME RentInv, UploadInv', open = None, NEW c \in Client, job[c].status = "waiting",
         job[c].input.op = "close-buffer", StartCloseBuffer(c)
  PROVE  RentInv'
<1> DEFINE j == job[c].input
           b == j.target
           i == [do |-> "close", account |-> b]
           plan == ClosePlan(b)
<1>1. UploadInv /\ Ready(j) /\ JobOK(j) /\ Given(j) = {} /\ ~AtPlace(j)
  BY JobReady DEF RentInv, UploadInv, Ready, JobOK, AtPlace
<1>2. CASE Start(c, b, plan, TRUE)
  <2>1. Prepared(j, plan)
    BY <1>1, BufferCloses
  <2>2. Remaining(plan) = {i} /\ i.do = "close"
    BY DEF ClosePlan, Stage, Remaining
  <2> HIDE DEF plan, i
  <2>3. ~Has(plan, "createAccount") /\ ~Has(plan, "allocateKeypair")
    BY <2>2 DEF Has
  <2>4. Planned(j, plan, acct)
    BY <1>1, <2>1, <2>3, AwayPlanned
  <2> QED
    BY <1>2, <2>4, StartKeepsRent DEF plan
<1>3. CASE Reject(c, b)
  BY <1>3, RejectKeepsRent
<1> QED
  BY <1>2, <1>3 DEF StartCloseBuffer

LEMMA BeginKeepsRent ==
  ASSUME RentIsLinear, RentInv, NEW c \in Client, Begin(c)
  PROVE  RentInv'
<1> DEFINE j == job[c].input
           a == MetadataPda(j)
<1>1. /\ UploadInv /\ open = None /\ job[c].status = "waiting" /\ j.op # "update-buffer"
  BY DEF RentInv, Begin, UploadInv, JobsOK, JobOK
<1>2. UploadInv'
  BY <1>1, BeginKeeps
<1>3. CASE j.op = "create" /\ StartCreate(c)
  BY <1>1, <1>2, <1>3, CreateKeepsRent DEF Expected
<1>4. CASE j.op = "update" /\ StartUpdate(c)
  BY <1>1, <1>2, <1>4, UpdateKeepsRent DEF Expected
<1>5. CASE j.op = "write" /\ StartWrite(c)
  <2>1. CASE Exists(a)
    <3>1. StartUpdate(c) /\ (Expected(j, Found(a)) => Found(a) = "metadata")
      BY <1>5, <2>1 DEF StartWrite, Found, Expected
    <3> QED
      BY <1>1, <1>2, <1>5, <3>1, UpdateKeepsRent
  <2>2. CASE ~Exists(a)
    <3>1. StartCreate(c) /\ Found(a) = "nothing"
      BY <1>5, <2>2 DEF StartWrite, Found
    <3> QED
      BY <1>1, <1>2, <1>5, <3>1, CreateKeepsRent
  <2> QED
    BY <2>1, <2>2
<1>6. CASE j.op = "create-buffer" /\ StartCreateBuffer(c)
  BY <1>1, <1>2, <1>6, CreateBufferKeepsRent
<1>7. CASE j.op = "close-buffer" /\ StartCloseBuffer(c)
  BY <1>1, <1>2, <1>7, CloseBufferKeepsRent
<1> QED
  BY <1>1, <1>3, <1>4, <1>5, <1>6, <1>7 DEF Begin

-----------------------------------------------------------------------------
(* The theorems.                                                           *)

LEMMA RentInit ==
  ASSUME UploadScene, RentScene, PlanInit
  PROVE  RentInv
<1>1. UploadInv
  BY UploadInit
<1>2. \A c \in Client : job[c].status = "waiting"
  BY DEF PlanInit, Waiting
<1>4. ClosedOK(job, acct)
  BY <1>2 DEF RentScene, ClosedOK
<1>5. RentOK(job, acct)
  BY <1>2, <1>4 DEF RentScene, RentOK
<1> QED
  BY <1>1, <1>5 DEF RentInv

LEMMA RentNext ==
  ASSUME RentIsLinear, RentInv, [PlanNext]_planVars
  PROVE  RentInv'
<1>1. CASE UNCHANGED planVars
  <2>1. UploadInv'
    BY UploadNext DEF RentInv
  <2>2. UNCHANGED <<acct, job>>
    BY <1>1 DEF planVars, vars
  <2>3. SoFar(job') => RentOK(job', acct')
    BY <2>2 DEF RentInv
  <2> QED
    BY <2>1, <2>3 DEF RentInv
<1>2. ASSUME NEW c \in Client, Begin(c) PROVE RentInv'
  BY <1>2, BeginKeepsRent
<1>3. ASSUME NEW c \in Client, Step(c) PROVE RentInv'
  BY <1>3, StepKeepsRent
<1>4. ASSUME NEW c \in Client, Refuse(c) \/ Crash(c) PROVE RentInv'
  BY <1>4, StopKeepsRent
<1> QED
  BY <1>1, <1>2, <1>3, <1>4 DEF PlanNext

LEMMA NothingLeft ==
  ASSUME RentInv
  PROVE  NothingLeftOver
<1> SUFFICES ASSUME \A c \in Client :
                      job[c].status = "waiting" \/ (job[c].status = "done" /\ Undisturbed(c))
             PROVE  /\ \A a \in Address : Neat(acct[a])
                    /\ \A d \in Client :
                         LET j == job[d].input
                         IN  job[d].status = "done" /\ Publishing(d) /\ Closes(j) =>
                               \A b \in Fresh(j) \cup Given(j) : ~Exists(b)
  BY DEF NothingLeftOver, Neat, IsMetadata, Fresh, Given
<1>1. \A c \in Client : job[c].status # "running"
  OBVIOUS
<1>2. ASSUME NEW c \in Client, Suitable(c) PROVE Expected(job[c].input, job[c].found)
  BY <1>2 DEF Suitable, Expected
<1>3. SoFar(job)
  BY <1>2 DEF SoFar, Undisturbed
<1>4. RentOK(job, acct)
  BY <1>3 DEF RentInv
<1>5. \A a \in Address : Neat(acct[a])
  BY <1>1, <1>4 DEF RentOK
<1>6. ASSUME NEW d \in Client, job[d].status = "done", Publishing(d), Closes(job[d].input),
             NEW b \in Fresh(job[d].input) \cup Given(job[d].input)
      PROVE  ~Exists(b)
  <2>1. acct[b].lamports = 0
    BY <1>4, <1>6 DEF RentOK, ClosedOK, Publishing
  <2> QED
    BY <2>1 DEF Exists
<1> QED
  BY <1>5, <1>6

\* The invariant holds of any number of users, their jobs and lengths of data, from any
\* scene in which the accounts there are, are at their rent: as long as nobody is
\* disturbed, a client's account holds the rent of its data but for the transfer or the
\* trim that its plan has left.  That takes rent that is linear, as it is for
\* updateMetadata.ts:274.
THEOREM RentIsKept ==
  ASSUME RentIsLinear
  PROVE  UploadScene /\ RentScene /\ PlanSpec => []RentInv
<1>1. UploadScene /\ RentScene /\ PlanInit => RentInv
  BY RentInit
<1>2. RentInv /\ [PlanNext]_planVars => RentInv'
  BY RentNext
<1> QED
  BY <1>1, <1>2, PTL DEF PlanSpec

\* So users who come one after the other pay for what they keep: when they are done, every
\* account of the program is at the rent of its data, and the buffers that were to be
\* closed are gone (updateMetadata.ts:187-208, createMetadata.ts:205).
THEOREM NothingIsLeftOver ==
  ASSUME RentIsLinear
  PROVE  UploadScene /\ RentScene /\ PlanSpec => []NothingLeftOver
<1>1. UploadScene /\ RentScene /\ PlanSpec => []RentInv
  BY RentIsKept
<1>2. RentInv => NothingLeftOver
  BY NothingLeft
<1> QED
  BY <1>1, <1>2, PTL
===============================================================================
