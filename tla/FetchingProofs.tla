----------------------------- MODULE FetchingProofs -----------------------------
(***************************************************************************)
(* What a reader found immutable may be kept for good: immutability of the *)
(* account lasts (ProgramMetadataProofs), and here it meets what the       *)
(* client makes of the account, a buffer's header included.                *)
(*                                                                         *)
(* And each content that is returned belongs to the account it is returned *)
(* for, although the references are looked up in a shorter list than the   *)
(* accounts are.                                                           *)
(***************************************************************************)
EXTENDS Fetching, ProgramMetadataProofs, FiniteSetTheorems, SequenceTheorems

\* The reader's fields, and that it was answered about addresses only.
ReadOK ==
  /\ DOMAIN read = {"status", "input", "strict", "accounts", "result"}
  /\ read = [f \in DOMAIN read |-> read[f]]
  /\ read.status = "idle" => read.accounts = <<>>
  /\ \A i \in DOMAIN read.accounts : read.input[i] \in Address

FInv == IInv /\ ReadOK /\ ImmutableReadsLast

LEMMA InitReads == FetchInit => FInv
<1> SUFFICES ASSUME FetchInit PROVE FInv
  OBVIOUS
<1>1. IInv
  BY InitEstablishes DEF FetchInit
<1>2. read.accounts = <<>> /\ DOMAIN read.accounts = {}
  BY DEF FetchInit, Idle
<1>3. ReadOK
  BY <1>2 DEF FetchInit, Idle, ReadOK
<1> QED
  BY <1>1, <1>2, <1>3 DEF FInv, ImmutableReadsLast

\* A reader changes nothing, and at the moment of the answer the answer is right.
LEMMA ReaderKeeps ==
  ASSUME FInv, Read
  PROVE  FInv'
<1>1. UNCHANGED vars /\ IInv'
  BY StutterKeeps DEF FInv, Read, Unpack, FetchMetadata
<1>2. \A a : Exists(a)' = Exists(a) /\ Decoded(a)' = Decoded(a)
  BY <1>1 DEF Exists, Decoded, vars
<1>3. CASE Unpack
  <2>1. read'.accounts = read.accounts /\ read'.input = read.input
        /\ DOMAIN read' = DOMAIN read /\ read' = [f \in DOMAIN read' |-> read'[f]]
        /\ read'.status # "idle"
    BY <1>3 DEF Unpack, FInv, ReadOK
  <2> QED
    BY <1>1, <1>2, <2>1 DEF FInv, ReadOK, ImmutableReadsLast
<1>4. ASSUME NEW q \in Query, NEW strict \in BOOLEAN, FetchMetadata(q, strict)
      PROVE  FInv'
  <2>1. /\ DOMAIN read' = DOMAIN read
        /\ read' = [f \in DOMAIN read' |-> read'[f]]
        /\ read'.input = q /\ read'.status # "idle"
    BY <1>4 DEF FetchMetadata, FInv, ReadOK
  <2>2. \A i \in DOMAIN q : q[i] \in Address
    BY QueryAssumption DEF Address
  <2>3. CASE read'.accounts = [i \in DOMAIN q |-> IF Exists(q[i]) THEN Decoded(q[i]) ELSE None]
    <3>1. ImmutableReadsLast'
      <4> SUFFICES ASSUME NEW i \in DOMAIN q, read'.accounts[i] # None
                   PROVE  Exists(q[i])' /\ Decoded(q[i])' = read'.accounts[i]
        BY <2>1, <2>3 DEF ImmutableReadsLast
      <4> QED
        BY <1>2, <2>3
    <3> QED
      BY <1>1, <2>1, <2>2, <2>3, <3>1 DEF FInv, ReadOK
  <2>4. CASE read'.accounts = <<>>
    BY <1>1, <2>1, <2>4 DEF FInv, ReadOK, ImmutableReadsLast
  <2>5. read.accounts = <<>>
    BY <1>4 DEF FetchMetadata, FInv, ReadOK
  <2> QED
    BY <1>4, <2>3, <2>4, <2>5 DEF FetchMetadata, FInv, ReadOK
<1> QED
  BY <1>3, <1>4 DEF Read

\* The program goes on.
LEMMA ProgramKeeps ==
  ASSUME FInv, Next, UNCHANGED read
  PROVE  FInv'
<1>1. IInv'
  BY StepKeeps DEF FInv
<1>2. ASSUME NEW i \in DOMAIN read.accounts, NEW m, m = read.accounts[i], m # None,
             m.discriminator = "Metadata", ~m.mutable
      PROVE  Exists(read.input[i])' /\ Decoded(read.input[i])' = m
  <2> DEFINE a == read.input[i]
  <2>1. a \in Address /\ Exists(a) /\ Decoded(a) = m
    BY <1>2 DEF FInv, ReadOK, ImmutableReadsLast
  <2>2. IsMetadata(acct[a]) /\ ~acct[a].mutable
    BY <1>2, <2>1 DEF Decoded, IsMetadata
  <2>3. OnlyCredited(a)
    BY <2>1, <2>2, ImmutableIsKept DEF FInv
  <2>4. acct[a] \in AccountRecord /\ acct'[a] \in AccountRecord
    BY <1>1, <2>1 DEF FInv, IInv, TypeOK
  <2>5. /\ acct'[a].discriminator = acct[a].discriminator
        /\ acct'[a].mutable = acct[a].mutable
        /\ acct'[a].canonical = acct[a].canonical
        /\ acct'[a].codec = acct[a].codec
        /\ acct'[a].dataSource = acct[a].dataSource
        /\ acct'[a].body = acct[a].body
        /\ acct'[a].lamports >= acct[a].lamports
    BY <2>3, <2>4 DEF OnlyCredited, AccountRecord
  <2>6. read'.input[i] = a
    OBVIOUS
  <2>7. acct'[a].lamports > 0
    BY <2>1, <2>4, <2>5 DEF Exists, AccountRecord
  <2> QED
    BY <2>1, <2>5, <2>6, <2>7 DEF Decoded, Exists
<1>3. ImmutableReadsLast'
  BY <1>2 DEF ImmutableReadsLast
<1> QED
  BY <1>1, <1>3 DEF FInv, ReadOK

LEMMA FetchKeeps == FInv /\ [FetchNext]_fetchVars => FInv'
<1>1. CASE FInv /\ Read
  BY <1>1, ReaderKeeps
<1>2. CASE FInv /\ Next /\ UNCHANGED read
  BY <1>2, ProgramKeeps
<1>3. CASE FInv /\ UNCHANGED fetchVars
  <2>1. IInv'
    BY <1>3, StutterKeeps DEF FInv, fetchVars
  <2> QED
    BY <1>3, <2>1 DEF FInv, ReadOK, ImmutableReadsLast, fetchVars, vars, Exists, Decoded
<1> QED
  BY <1>1, <1>2, <1>3 DEF FetchNext

\* A reader may keep for good what it found immutable, for any accounts, readers' queries
\* and lengths (fetchMetadataContent.ts, against processor/set_immutable.rs and every
\* handler that asks for mutable metadata).
THEOREM ImmutableReadsStay == FetchSpec => []ImmutableReadsLast
<1>1. FInv => ImmutableReadsLast
  BY DEF FInv
<1> QED
  BY <1>1, InitReads, FetchKeeps, PTL DEF FetchSpec

-----------------------------------------------------------------------------
(* Filtered lists: the places that are kept, counted from the first.       *)

\* Nth runs through a set of places in order, without missing one.
LEMMA NthPlace ==
  ASSUME NEW n \in Nat, NEW I \in SUBSET (1 .. n)
  PROVE  /\ Cardinality(I) \in Nat
         /\ \A m \in 1 .. Cardinality(I) : Nth(I, m) \in I
         /\ \A l, m \in 1 .. Cardinality(I) : l < m => Nth(I, l) < Nth(I, m)
         /\ \A i \in I : \E m \in 1 .. Cardinality(I) : Nth(I, m) = i
<1> DEFINE UpTo(i) == {j \in I : j <= i}
           R == [i \in I |-> Cardinality(UpTo(i))]
           C == Cardinality(I)
<1>1. IsFiniteSet(I) /\ C \in Nat
  <2>1. IsFiniteSet(1 .. n)
    BY FS_Interval
  <2> QED
    BY <2>1, FS_Subset, FS_CardinalityType
<1>2. ASSUME NEW i \in I
      PROVE  IsFiniteSet(UpTo(i)) /\ R[i] = Cardinality(UpTo(i)) /\ R[i] \in 1 .. C
  <2>1. UpTo(i) \in SUBSET I /\ UpTo(i) # {}
    OBVIOUS
  <2> HIDE DEF UpTo
  <2>2. IsFiniteSet(UpTo(i)) /\ Cardinality(UpTo(i)) <= C
    BY <1>1, <2>1, FS_Subset
  <2>3. Cardinality(UpTo(i)) \in Nat /\ Cardinality(UpTo(i)) # 0
    BY <2>1, <2>2, FS_CardinalityType, FS_EmptySet
  <2> QED
    BY <1>1, <2>2, <2>3
<1>3. ASSUME NEW i \in I, NEW j \in I, i < j PROVE R[i] < R[j]
  <2>1. UpTo(i) \in SUBSET UpTo(j)
    <3>1. ASSUME NEW x \in I, x <= i PROVE x <= j
      BY <1>3, <3>1
    <3> QED
      BY <3>1
  <2>2. j \in UpTo(j) /\ j \notin UpTo(i)
    BY <1>3
  <2>3. /\ IsFiniteSet(UpTo(j)) /\ R[i] = Cardinality(UpTo(i)) /\ R[j] = Cardinality(UpTo(j))
        /\ R[i] \in Nat /\ R[j] \in Nat
    BY <1>1, <1>2
  <2> HIDE DEF UpTo, R
  <2>4. Cardinality(UpTo(i)) <= Cardinality(UpTo(j))
        /\ Cardinality(UpTo(i)) # Cardinality(UpTo(j))
    BY <2>1, <2>2, <2>3, FS_Subset
  <2> QED
    BY <2>3, <2>4
<1>4. ASSUME NEW i \in I, NEW j \in I, R[i] = R[j] PROVE i = j
  <2>1. R[i] \in Nat /\ i \in Int /\ j \in Int /\ (i < j => R[i] < R[j]) /\ (j < i => R[j] < R[i])
    BY <1>1, <1>2, <1>3
  <2> QED
    BY <1>4, <2>1
<1>5. ASSUME NEW m \in 1 .. C PROVE \E i \in I : R[i] = m
  <2>1. IsFiniteSet(1 .. C) /\ Cardinality(1 .. C) = C
    BY <1>1, FS_Interval
  <2>2. R \in Injection(I, 1 .. C)
    <3>1. R \in [I -> 1 .. C]
      BY <1>2
    <3> QED
      BY <1>4, <3>1 DEF Injection, IsInjective
  <2> HIDE DEF R, C
  <2>3. R \in Surjection(I, 1 .. C)
    BY <2>1, <2>2, FS_Injection DEF C
  <2> QED
    BY <2>3 DEF Surjection
<1>6. ASSUME NEW m \in 1 .. C PROVE Nth(I, m) \in I /\ R[Nth(I, m)] = m
  <2>1. \E i \in I : Cardinality({j \in I : j <= i}) = m
    BY <1>5
  <2>2. Nth(I, m) \in I /\ Cardinality({j \in I : j <= Nth(I, m)}) = m
    BY <2>1 DEF Nth
  <2> QED
    BY <2>2
<1>7. ASSUME NEW l \in 1 .. C, NEW m \in 1 .. C, l < m PROVE Nth(I, l) < Nth(I, m)
  <2> DEFINE x == Nth(I, l)
             y == Nth(I, m)
  <2>1. x \in I /\ y \in I /\ R[x] = l /\ R[y] = m
    BY <1>6
  <2> HIDE DEF x, y, R
  <2>2. x \in Int /\ y \in Int /\ x # y /\ (y < x => R[y] < R[x])
    BY <1>1, <1>3, <1>7, <2>1
  <2>3. x < y
    BY <1>1, <1>7, <2>1, <2>2
  <2> QED
    BY <2>3 DEF x, y
<1>8. ASSUME NEW i \in I PROVE \E m \in 1 .. C : Nth(I, m) = i
  <2>1. R[i] \in 1 .. C
    BY <1>2
  <2>2. Nth(I, R[i]) \in I /\ R[Nth(I, R[i])] = R[i]
    BY <1>6, <2>1
  <2>3. Nth(I, R[i]) = i
    BY <1>4, <2>2
  <2> QED
    BY <2>1, <2>3
<1> QED
  BY <1>1, <1>6, <1>7, <1>8

\* findIndex finds an account that is there.
LEMMA FoundIndex ==
  ASSUME NEW ms, NEW n \in Nat, DOMAIN ms = 1 .. n, NEW k \in 1 .. n
  PROVE  LET i == FindIndex(ms, ms[k].address)
         IN  i \in 1 .. n /\ ms[i].address = ms[k].address
<1> DEFINE a == ms[k].address
           I == {i \in 1 .. n : ms[i].address = a}
           C == Cardinality(I)
           f == Nth(I, 1)
<1>1. /\ C \in Nat
      /\ \A m \in 1 .. C : Nth(I, m) \in I
      /\ \A l, m \in 1 .. C : l < m => Nth(I, l) < Nth(I, m)
      /\ \A i \in I : \E m \in 1 .. C : Nth(I, m) = i
  <2>1. I \in SUBSET (1 .. n)
    OBVIOUS
  <2> HIDE DEF I
  <2> QED
    BY <2>1, NthPlace
<1>2. k \in I
  OBVIOUS
<1>3. 1 \in 1 .. C /\ f \in I
  <2> HIDE DEF I, C
  <2>1. \E m \in 1 .. C : TRUE
    BY <1>1, <1>2
  <2> QED
    BY <1>1, <2>1
<1>4. ASSUME NEW j \in 1 .. f - 1 PROVE ms[j].address # a
  <2> SUFFICES ASSUME ms[j].address = a PROVE FALSE
    OBVIOUS
  <2>1. f \in 1 .. n
    BY <1>3
  <2>2. j \in I /\ j < f
    BY <2>1
  <2> HIDE DEF I, C, f
  <2>3. PICK m \in 1 .. C : Nth(I, m) = j
    BY <1>1, <2>2
  <2>4. m # 1
    BY <2>1, <2>2, <2>3 DEF f
  <2>5. 1 < m
    BY <1>1, <2>4
  <2>6. f < j
    BY <1>1, <1>3, <2>3, <2>5 DEF f
  <2> QED
    BY <2>1, <2>2, <2>6
<1>5. f \in DOMAIN ms /\ ms[f].address = a /\ \A j \in 1 .. f - 1 : ms[j].address # a
  BY <1>3, <1>4
<1> HIDE DEF f, I, C, a
<1>6. FindIndex(ms, a) \in DOMAIN ms /\ ms[FindIndex(ms, a)].address = a
  BY <1>5 DEF FindIndex
<1> QED
  BY <1>6 DEF a

-----------------------------------------------------------------------------
(* Only metadata says where its data is: everything else is read as having *)
(* it in place.                                                            *)

Plain(r) == ~IsMetadata(r) => r.dataSource = "Direct"
AllPlain == \A a \in Address : Plain(acct[a])

LEMMA PutPlain ==
  ASSUME IInv, AllPlain, NEW k, NEW a \in Address, NEW r, Put(k, a, r), Plain(r)
  PROVE  AllPlain'
<1>1. acct' = [acct EXCEPT ![a] = r] /\ DOMAIN acct = Address
  BY DEF Put, IInv, TypeOK
<1>2. \A b \in Address : acct'[b] = IF b = a THEN r ELSE acct[b]
  BY <1>1
<1> QED
  BY <1>2 DEF AllPlain, Plain, IsMetadata

LEMMA PayOutPlain ==
  ASSUME IInv, AllPlain, NEW k, NEW a \in Address, NEW dest \in Address, NEW r, NEW amount,
         PayOut(k, a, r, dest, amount), Plain(r)
  PROVE  AllPlain'
<1>1. /\ acct' = [acct EXCEPT ![dest].lamports = @ + amount, ![a] = r]
      /\ DOMAIN acct = Address /\ acct[dest] \in AccountRecord
  BY Contents DEF PayOut, IInv, TypeOK
<1>2. acct'[a] = r /\ \A b \in Address \ {a, dest} : acct'[b] = acct[b]
  BY <1>1
<1>3. dest # a => /\ acct'[dest].discriminator = acct[dest].discriminator
                  /\ acct'[dest].dataSource = acct[dest].dataSource
  BY <1>1 DEF AccountRecord
<1> QED
  BY <1>2, <1>3 DEF AllPlain, Plain, IsMetadata

LEMMA ClaimedPlain ==
  ASSUME IInv, AllPlain, NEW b \in Address, NEW signs \in BOOLEAN, Claimable(acct[b], signs)
  PROVE  Claimed(acct[b]) \in AccountRecord /\ Claimed(acct[b]).dataSource = "Direct"
<1>1. acct[b] \in AccountRecord /\ acct[b].dataSource = "Direct"
  BY Contents, ClaimableIsEmpty DEF AllPlain, Plain, IsMetadata
<1>2. Claimed(acct[b]).dataSource = "Direct"
  BY <1>1 DEF Claimed, Zeroed, AccountRecord
<1> QED
  BY <1>1, <1>2, ClaimedType

LEMMA CreatePlain ==
  ASSUME IInv, AllPlain, NEW k \in Signer, Create(k)
  PROVE  AllPlain'
<1>1. CASE AllocateKeypair(k)
  <2> DEFINE r == [Claimed(acct[k]) EXCEPT !.discriminator = "Buffer", !.authority = k]
  <2>1. k \in Address /\ Put(k, k, r) /\ Claimable(acct[k], TRUE)
    BY <1>1 DEF AllocateKeypair, Address
  <2>2. Plain(r)
    BY <2>1, ClaimedPlain DEF Plain, AccountRecord
  <2> HIDE DEF r
  <2> QED
    BY <2>1, <2>2, PutPlain
<1>2. ASSUME NEW p \in Program, NEW s \in Seed, NEW supplied \in BOOLEAN,
             AllocatePda(k, p, s, supplied)
      PROVE  AllPlain'
  <2>1. PICK canonical \in BOOLEAN :
          LET b == DerivedPda(canonical, p, k, s)
          IN  /\ Claimable(acct[b], FALSE)
              /\ Put(k, b, [Claimed(acct[b]) EXCEPT !.discriminator = "Buffer",
                                                    !.authority = k,
                                                    !.program = p,
                                                    !.canonical = canonical,
                                                    !.seed = s])
    BY <1>2 DEF AllocatePda, IsProgramAuthority
  <2> DEFINE b == DerivedPda(canonical, p, k, s)
             r == [Claimed(acct[b]) EXCEPT !.discriminator = "Buffer",
                                           !.authority = k,
                                           !.program = p,
                                           !.canonical = canonical,
                                           !.seed = s]
  <2>2. b \in Address
    BY DerivedType
  <2>3. Claimable(acct[b], FALSE) /\ Put(k, b, r)
    BY <2>1
  <2>4. Plain(r)
    <3> HIDE DEF b
    <3> QED
      BY <2>2, <2>3, ClaimedPlain DEF Plain, AccountRecord
  <2> HIDE DEF b, r
  <2> QED
    BY <2>2, <2>3, <2>4, PutPlain
<1>3. ASSUME NEW p \in Program, NEW s \in Seed, NEW supplied \in BOOLEAN, NEW codec,
             NEW source, NEW payload, Initialize(k, p, s, supplied, codec, source, payload)
      PROVE  AllPlain'
  <2>1. PICK canonical \in BOOLEAN :
          \E body : LET m == DerivedPda(canonical, p, k, s)
                    IN  Put(k, m, MetadataHeader([acct[m] EXCEPT !.body = body],
                                                 k, p, s, canonical, codec, source))
    BY <1>3 DEF Initialize, IsProgramAuthority
  <2> DEFINE m == DerivedPda(canonical, p, k, s)
  <2>2. PICK body : Put(k, m, MetadataHeader([acct[m] EXCEPT !.body = body],
                                             k, p, s, canonical, codec, source))
    BY <2>1
  <2> DEFINE r == MetadataHeader([acct[m] EXCEPT !.body = body],
                                 k, p, s, canonical, codec, source)
  <2>3. m \in Address
    BY DerivedType
  <2>4. Plain(r)
    <3> HIDE DEF m
    <3> QED
      BY <2>3, Contents DEF Plain, IsMetadata, MetadataHeader, AccountRecord
  <2> HIDE DEF m, r
  <2> QED
    BY <2>2, <2>3, <2>4, PutPlain DEF r
<1> QED
  BY <1>1, <1>2, <1>3 DEF Create

LEMMA FillPlain ==
  ASSUME IInv, AllPlain, NEW k, NEW a \in Address, Fill(k, a)
  PROVE  AllPlain'
<1>0. acct[a] \in AccountRecord /\ Plain(acct[a])
  BY Contents DEF AllPlain
<1>1. ASSUME NEW offset, NEW src, WriteBytes(k, a, offset, src) PROVE AllPlain'
  <2> DEFINE r == [acct[a] EXCEPT !.body = Overwrite(acct[a].body, offset, src)]
  <2>1. Put(k, a, r)
    BY <1>1 DEF WriteBytes
  <2>2. Plain(r)
    BY <1>0 DEF Plain, IsMetadata, AccountRecord
  <2> HIDE DEF r
  <2> QED
    BY <2>1, <2>2, PutPlain
<1>2. ASSUME NEW codec, NEW source, NEW data, SetBytes(k, a, codec, source, data)
      PROVE  AllPlain'
  <2> DEFINE r == [acct[a] EXCEPT !.codec = codec, !.dataSource = source,
                                  !.dataLength = Len(data), !.body = data]
  <2>1. Put(k, a, r) /\ acct[a].discriminator = "Metadata"
    BY <1>2 DEF SetBytes, ValidMetadata
  <2>2. Plain(r)
    BY <1>0, <2>1 DEF Plain, IsMetadata, AccountRecord
  <2> HIDE DEF r
  <2> QED
    BY <2>1, <2>2, PutPlain
<1>3. ASSUME NEW codec, SetCodec(k, a, codec) PROVE AllPlain'
  <2> DEFINE r == [acct[a] EXCEPT !.codec = codec]
  <2>1. Put(k, a, r) /\ Plain(r)
    BY <1>0, <1>3 DEF SetCodec, Plain, IsMetadata, AccountRecord
  <2> HIDE DEF r
  <2> QED
    BY <2>1, PutPlain
<1> QED
  BY <1>1, <1>2, <1>3 DEF Fill, WriteData, WriteFromBuffer, SetData, SetDataFromBuffer

LEMMA GovernPlain ==
  ASSUME IInv, AllPlain, NEW k, NEW a \in Address, Govern(k, a)
  PROVE  AllPlain'
<1>0. acct[a] \in AccountRecord /\ Plain(acct[a])
  BY Contents DEF AllPlain
<1>1. ASSUME NEW new, SetBufferAuthority(k, a, new) \/ SetMetadataAuthority(k, a, new)
      PROVE  AllPlain'
  <2> DEFINE r == [acct[a] EXCEPT !.authority = new]
  <2>1. Put(k, a, r) /\ Plain(r)
    BY <1>0, <1>1
    DEF SetBufferAuthority, SetMetadataAuthority, Plain, IsMetadata, AccountRecord
  <2> HIDE DEF r
  <2> QED
    BY <2>1, PutPlain
<1>2. CASE SetImmutable(k, a)
  <2> DEFINE r == [acct[a] EXCEPT !.mutable = FALSE]
  <2>1. Put(k, a, r) /\ Plain(r)
    BY <1>0, <1>2 DEF SetImmutable, Plain, IsMetadata, AccountRecord
  <2> HIDE DEF r
  <2> QED
    BY <2>1, PutPlain
<1> QED
  BY <1>1, <1>2 DEF Govern

LEMMA ReshapePlain ==
  ASSUME IInv, AllPlain, NEW k, NEW a \in Address, Reshape(k, a)
  PROVE  AllPlain'
<1>0. acct[a] \in AccountRecord /\ Plain(acct[a])
  BY Contents DEF AllPlain
<1>1. ASSUME NEW n, Extend(k, a, n) PROVE AllPlain'
  <2> DEFINE r == Resized(acct[a], Len(acct[a].body) + n)
  <2>1. Put(k, a, r) /\ Plain(r)
    BY <1>0, <1>1 DEF Extend, Resized, Plain, IsMetadata, AccountRecord
  <2> HIDE DEF r
  <2> QED
    BY <2>1, PutPlain
<1>2. ASSUME NEW dest \in Address, Trim(k, a, dest) PROVE AllPlain'
  <2> DEFINE n   == TrimmedLen(acct[a])
             min == MinBalance(HeaderLen + n)
             r   == [Resized(acct[a], n) EXCEPT !.lamports = min]
  <2>1. PayOut(k, a, r, dest, acct[a].lamports - min)
    BY <1>2 DEF Trim
  <2>2. Plain(r)
    <3> HIDE DEF n, min
    <3> QED
      BY <1>0 DEF Resized, Plain, IsMetadata, AccountRecord
  <2> HIDE DEF n, min, r
  <2> QED
    BY <2>1, <2>2, PayOutPlain
<1>3. ASSUME NEW dest \in Address, Close(k, a, dest) PROVE AllPlain'
  <2>1. Plain(Vacant(0))
    BY DEF Plain, Vacant, Zeroed
  <2> QED
    BY <1>3, <2>1, PayOutPlain DEF Close
<1> QED
  BY <1>1, <1>2, <1>3 DEF Reshape

LEMMA SystemPlain ==
  ASSUME IInv, AllPlain, NEW k, SystemStep(k)
  PROVE  AllPlain'
<1>1. ASSUME NEW to \in Address, NEW n, Transfer(k, to, n) PROVE AllPlain'
  <2>1. /\ k \in Address /\ to # k
        /\ acct' = [acct EXCEPT ![k].lamports = @ - n, ![to].lamports = @ + n]
    BY <1>1 DEF Transfer, Address
  <2>2. acct[k] \in AccountRecord /\ acct[to] \in AccountRecord /\ DOMAIN acct = Address
    BY <2>1, Contents DEF IInv, TypeOK
  <2>3. \A b \in {k, to} : /\ acct'[b].discriminator = acct[b].discriminator
                            /\ acct'[b].dataSource = acct[b].dataSource
    BY <2>1, <2>2 DEF AccountRecord
  <2>4. \A b \in Address \ {k, to} : acct'[b] = acct[b]
    BY <2>1, <2>2
  <2> QED
    BY <2>3, <2>4 DEF AllPlain, Plain, IsMetadata
<1>2. ASSUME NEW space, NEW owner, SystemCreate(k, space, owner) PROVE AllPlain'
  <2>1. PICK h, body : Put(k, k, Zeroed(owner, acct[k].lamports, h, body)) /\ k \in Address
    BY <1>2 DEF SystemCreate, Address
  <2>2. Plain(Zeroed(owner, acct[k].lamports, h, body))
    BY DEF Plain, Zeroed
  <2> QED
    BY <2>1, <2>2, PutPlain
<1> QED
  BY <1>1, <1>2 DEF SystemStep

LEMMA StepPlain ==
  ASSUME IInv, AllPlain, Next
  PROVE  AllPlain'
<1>1. CASE LoaderStep
  <2>1. acct' = acct
    BY <1>1 DEF LoaderStep, Deploy, SetUpgradeAuthority, CloseProgram, SetProgram
  <2> QED
    BY <2>1 DEF AllPlain
<1> QED
  BY <1>1, CreatePlain, FillPlain, GovernPlain, ReshapePlain, SystemPlain DEF Next

-----------------------------------------------------------------------------
(* Each external account gets what it refers to.                           *)

LEMMA Piece ==
  ASSUME NEW S, NEW s \in Seq(S), NEW o \in Nat, NEW n \in Nat, n <= Len(s)
  PROVE  LET t == SubSeq(s, o + 1, n)
         IN  /\ t \in Seq(S)
             /\ Len(t) = IF o < n THEN n - o ELSE 0
             /\ \A i \in DOMAIN t : t[i] = s[o + i]
<1> DEFINE t == SubSeq(s, o + 1, n)
<1>1. \A i \in o + 1 .. n : s[i] \in S
  OBVIOUS
<1>2. /\ t \in Seq(S) /\ Len(t) = IF o + 1 <= n THEN n - (o + 1) + 1 ELSE 0
      /\ \A i \in 1 .. n - (o + 1) + 1 : t[i] = s[o + 1 + i - 1]
  BY <1>1, SubSeqProperties, o + 1 \in Int, n \in Int
<1> HIDE DEF t
<1>3. Len(t) = IF o < n THEN n - o ELSE 0
  BY <1>2
<1>4. ASSUME NEW i \in DOMAIN t PROVE t[i] = s[o + i]
  <2>1. i \in 1 .. n - (o + 1) + 1 /\ o + 1 + i - 1 = o + i
    BY <1>2, <1>3
  <2> QED
    BY <1>2, <2>1
<1> QED
  BY <1>2, <1>3, <1>4 DEF t

\* What a slice of an account's data has to be.
InRange(bytes, whole, offset, length) ==
  /\ \A i \in DOMAIN bytes : bytes[i] = whole[offset + i]
  /\ \/ Len(bytes) = length
     \/ (length = 0 \/ Len(bytes) < length) /\ offset + Len(bytes) = Len(whole)
     \/ bytes = <<>> /\ offset >= Len(whole)

LEMMA SliceInRange ==
  ASSUME NEW S, NEW whole \in Seq(S), NEW e, e.offset \in Nat, NEW length \in Nat,
         e.length = IF length = 0 THEN None ELSE length
  PROVE  InRange(Slice(whole, e), whole, e.offset, length)
<1> DEFINE o == e.offset
           w == Len(whole)
           rest == SubSeq(whole, o + 1, w)
           first == SubSeq(rest, 1, length)
<1>1. w \in Nat
  OBVIOUS
<1>2. /\ rest \in Seq(S)
      /\ Len(rest) = IF o < w THEN w - o ELSE 0
      /\ \A i \in DOMAIN rest : rest[i] = whole[o + i]
  BY <1>1, Piece
<1>3. InRange(rest, whole, o, length) \/ (length # 0 /\ length <= Len(rest))
  <2> HIDE DEF rest, w
  <2>1. Len(rest) \in Nat
    BY <1>2
  <2>2. CASE o < w
    <3>1. o + Len(rest) = w
      BY <1>1, <1>2, <2>2
    <3> QED
      BY <1>2, <2>1, <3>1 DEF InRange, w
  <2>3. CASE ~(o < w)
    <3>1. rest = <<>> /\ o >= Len(whole)
      BY <1>1, <1>2, <2>3 DEF w
    <3> QED
      BY <1>2, <3>1 DEF InRange
  <2> QED
    BY <2>2, <2>3
<1>4. CASE length # 0 /\ length <= Len(rest)
  <2>1. Slice(whole, e) = first
    <3>1. e.length = length /\ e.length # None /\ ~(e.length > Len(rest))
      <4> HIDE DEF rest
      <4> QED
        BY <1>2, <1>4, RecordAssumption
    <3> QED
      BY <3>1 DEF Slice
  <2>2. Len(first) = length /\ \A i \in DOMAIN first : first[i] = rest[i] /\ i \in DOMAIN rest
    <3> HIDE DEF rest
    <3>1. first = SubSeq(rest, 0 + 1, length)
      OBVIOUS
    <3> HIDE DEF first
    <3>2. /\ first \in Seq(S) /\ Len(first) = IF 0 < length THEN length - 0 ELSE 0
          /\ \A i \in DOMAIN first : first[i] = rest[0 + i]
      BY <1>2, <1>4, <3>1, Piece, 0 \in Nat
    <3> QED
      BY <1>2, <1>4, <3>2
  <2> HIDE DEF rest, first
  <2> QED
    BY <1>2, <2>1, <2>2 DEF InRange
<1>5. CASE ~(length # 0 /\ length <= Len(rest))
  <2>1. e.length = None \/ e.length > Len(rest)
    <3> HIDE DEF rest
    <3> QED
      BY <1>2, <1>5
  <2> QED
    BY <1>3, <1>5, <2>1 DEF Slice
<1> QED
  BY <1>4, <1>5

\* What the reader knows of an account it was told about, whose address is b.
Told(m, b) ==
  /\ m.address = b /\ m.dataSource \in DataSource /\ m.data \in Seq(Byte)
  /\ m.dataSource = "External" => ExternalLen <= Len(m.data)

\* The accounts in a list that are at one address are the same.
SameAddressSame(ms) ==
  \A i, j \in DOMAIN ms : ms[i].address = ms[j].address => ms[i] = ms[j]

LEMMA FindsItself ==
  ASSUME NEW n \in Nat, NEW ms, DOMAIN ms = 1 .. n, SameAddressSame(ms),
         NEW m \in 1 .. n, ms[m].dataSource = "External"
  PROVE  LET i == FindIndex(Externals(ms), ms[m].address)
         IN  i \in DOMAIN Externals(ms) /\ Externals(ms)[i] = ms[m]
<1> DEFINE E == {i \in DOMAIN ms : ms[i].dataSource = "External"}
           C == Cardinality(E)
           xs == Externals(ms)
           f == FindIndex(xs, ms[m].address)
<1>1. /\ C \in Nat
      /\ \A i \in 1 .. C : Nth(E, i) \in E
      /\ \A i \in E : \E l \in 1 .. C : Nth(E, l) = i
  <2>1. E \in SUBSET (1 .. n)
    OBVIOUS
  <2> HIDE DEF E
  <2> QED
    BY <2>1, NthPlace
<1>2. DOMAIN xs = 1 .. C /\ \A i \in 1 .. C : xs[i] = ms[Nth(E, i)]
  BY DEF Externals, Filtered
<1>3. PICK l \in 1 .. C : Nth(E, l) = m
  <2>1. m \in E
    OBVIOUS
  <2> QED
    BY <1>1, <2>1
<1>4. xs[l] = ms[m]
  BY <1>2, <1>3
<1>5. f \in 1 .. C /\ xs[f].address = ms[m].address
  <2> HIDE DEF xs, E, C
  <2>1. LET i == FindIndex(xs, xs[l].address) IN i \in 1 .. C /\ xs[i].address = xs[l].address
    BY <1>1, <1>2, FoundIndex
  <2> QED
    BY <1>4, <2>1
<1>6. Nth(E, f) \in DOMAIN ms /\ xs[f] = ms[Nth(E, f)]
  BY <1>1, <1>2, <1>5
<1> HIDE DEF xs, E, C, f
<1>7. xs[f] = ms[m]
  BY <1>5, <1>6 DEF SameAddressSame
<1> QED
  BY <1>2, <1>5, <1>7 DEF xs, f

LEMMA WholeData ==
  ASSUME NEW r, r.head \in Nat, r.body \in Seq(Byte)
  PROVE  AccountData(r) \in Seq(Byte \cup {HeaderByte})
<1> DEFINE S == Byte \cup {HeaderByte}
           header == [i \in 1 .. r.head |-> HeaderByte]
<1>1. header \in [1 .. r.head -> S]
  OBVIOUS
<1>2. header \in Seq(S)
  <2>1. \E n \in Nat : header \in [1 .. n -> S]
    BY <1>1
  <2> HIDE DEF S, header
  <2> QED
    BY <2>1 DEF Seq
<1>3. r.body \in Seq(S)
  <2>1. Len(r.body) \in Nat /\ r.body \in [1 .. Len(r.body) -> Byte]
    BY LenProperties
  <2>2. r.body \in [1 .. Len(r.body) -> S]
    BY <2>1
  <2> QED
    BY <2>1, <2>2
<1> HIDE DEF S, header
<1>4. header \o r.body \in Seq(S)
  BY <1>2, <1>3
<1> QED
  BY <1>4 DEF AccountData, header, S

LEMMA UnpackedContent ==
  ASSUME IInv, NEW n \in Nat, NEW ms, DOMAIN ms = 1 .. n, SameAddressSame(ms),
         NEW m \in 1 .. n, NEW b, Told(ms[m], b)
  PROVE  IsContent(Unpacked(ms)[m], ms[m])
<1> DEFINE c == Unpacked(ms)[m]
           t == ms[m]
<1>1. CASE t.dataSource = "Direct"
  <2>1. c = Text(t.codec, t.data)
    BY <1>1 DEF Unpacked
  <2> QED
    BY <1>1, <2>1 DEF IsContent, Text
<1>2. CASE t.dataSource = "Url"
  <2>1. c = Page(t.codec, t.data)
    BY <1>2 DEF Unpacked
  <2> QED
    BY <1>2, <2>1 DEF IsContent, Page
<1>3. CASE t.dataSource = "External"
  <2> DEFINE i == FindIndex(Externals(ms), t.address)
             e == UnpackExternalData(t)
             record == RecordOf(SubSeq(t.data, 1, ExternalLen))
             whole == AccountData(acct[e.address])
             bytes == Slice(whole, e)
  <2>1. i \in DOMAIN Externals(ms) /\ Externals(ms)[i] = t
    BY <1>3, FindsItself
  <2>2. c = IF bytes = <<>> THEN NoText ELSE Text(t.codec, bytes)
    BY <1>3, <2>1 DEF Unpacked
  <2>3. record \in [address : Address, offset : Nat, length : Nat]
    <3> DEFINE x == ExternalLen
               d == SubSeq(t.data, 1, x)
    <3>1. x \in Nat /\ x # 0 /\ t.data \in Seq(Byte) /\ x <= Len(t.data)
      BY <1>3, LengthAssumption DEF Told
    <3>2. d = SubSeq(t.data, 0 + 1, x)
      OBVIOUS
    <3> HIDE DEF x, d, t
    <3>3. d \in Seq(Byte) /\ Len(d) = IF 0 < x THEN x - 0 ELSE 0
      BY <3>1, <3>2, Piece, 0 \in Nat
    <3>4. d \in [1 .. Len(d) -> Byte] /\ Len(d) = x
      BY <3>1, <3>3, LenProperties
    <3>5. d \in [1 .. x -> Byte]
      BY <3>4
    <3> QED
      BY <3>5, RecordAssumption DEF x, d, t
  <2>4. /\ e.address = record.address /\ e.offset = record.offset
        /\ e.length = IF record.length = 0 THEN None ELSE record.length
    <3> HIDE DEF record
    <3> QED
      BY <2>3 DEF UnpackExternalData, record
  <2>5. whole \in Seq(Byte \cup {HeaderByte})
    <3>1. acct[e.address] \in AccountRecord
      BY <2>3, <2>4, Contents
    <3> HIDE DEF e
    <3>2. acct[e.address].head \in Nat /\ acct[e.address].body \in Seq(Byte)
      BY <3>1, LengthAssumption DEF AccountRecord
    <3> QED
      BY <3>2, WholeData
  <2>6. InRange(bytes, whole, record.offset, record.length)
    <3> HIDE DEF e, whole, record
    <3> QED
      BY <2>3, <2>4, <2>5, SliceInRange
  <2>7. c.bytes = bytes /\ c.kind = "text"
    <3> HIDE DEF bytes, c, t
    <3> QED
      BY <2>2, SMTT(60) DEF Text, NoText
  <2>8. IsRange(c.bytes, record.address, record.offset, record.length)
    BY <2>4, <2>6, <2>7 DEF IsRange, InRange
  <2> QED
    BY <1>3, <2>7, <2>8 DEF IsContent
<1> QED
  BY <1>1, <1>2, <1>3 DEF Told, DataSource

\* What the reader was told, between its two questions: accounts at one address were
\* answered for alike.
Answered ==
  read.status = "fetched" =>
    /\ \E n \in Nat : DOMAIN read.input = 1 .. n /\ DOMAIN read.accounts = 1 .. n
    /\ \A i \in DOMAIN read.accounts :
         read.accounts[i] # None => Told(read.accounts[i], read.input[i])
    /\ \A i, j \in DOMAIN read.accounts :
         read.input[i] = read.input[j] => read.accounts[i] = read.accounts[j]

\* The metadata decoder is told enough of whatever account there is.
LEMMA DecodedIsTold ==
  ASSUME IInv, AllPlain, NEW a \in Address
  PROVE  Told(Decoded(a), a)
<1> DEFINE r == acct[a]
<1>1. r \in AccountRecord /\ WellFormed(a, r) /\ Plain(r)
  BY Contents DEF AllPlain
<1> HIDE DEF r
<1>2. /\ Decoded(a).address = a /\ Decoded(a).dataSource = r.dataSource
      /\ Decoded(a).data = r.body
  BY DEF Decoded, r
<1>3. r.dataSource \in DataSource /\ r.body \in Seq(Byte)
  BY <1>1 DEF AccountRecord
<1>4. ASSUME r.dataSource = "External" PROVE ExternalLen <= Len(r.body)
  <2>1. IsMetadata(r)
    BY <1>1, <1>4 DEF Plain
  <2>2. DataPresent(r)
    BY <1>1, Zenon DEF WellFormed
  <2>3. r.dataLength = ExternalLen /\ r.dataLength <= Len(r.body)
    BY <1>4, <2>1, <2>2, ZenonT(30) DEF DataPresent, ValidDataLength
  <2> QED
    BY <2>3, ZenonT(60)
<1> QED
  BY <1>2, <1>3, <1>4 DEF Told

LEMMA FetchAnswers ==
  ASSUME FInv, AllPlain, NEW q \in Query, NEW strict, FetchMetadata(q, strict)
  PROVE  Answered'
<1> SUFFICES ASSUME read'.status = "fetched" PROVE Answered'
  BY DEF Answered
<1>1. /\ read'.input = q
      /\ read'.accounts = [i \in DOMAIN q |-> IF Exists(q[i]) THEN Decoded(q[i]) ELSE None]
  BY DEF FetchMetadata, FInv, ReadOK
<1>2. Len(q) \in Nat /\ DOMAIN q = 1 .. Len(q) /\ \A i \in DOMAIN q : q[i] \in Address
  BY QueryAssumption DEF Address
<1>3. DOMAIN read'.input = 1 .. Len(q) /\ DOMAIN read'.accounts = 1 .. Len(q)
  BY <1>1, <1>2
<1>4. ASSUME NEW i \in DOMAIN read'.accounts, read'.accounts[i] # None
      PROVE  Told(read'.accounts[i], read'.input[i])
  <2>1. read'.accounts[i] = Decoded(q[i]) /\ q[i] \in Address
    BY <1>1, <1>2, <1>4
  <2> QED
    BY <1>1, <2>1, DecodedIsTold DEF FInv
<1>5. ASSUME NEW i \in DOMAIN read'.accounts, NEW j \in DOMAIN read'.accounts,
             read'.input[i] = read'.input[j]
      PROVE  read'.accounts[i] = read'.accounts[j]
  BY <1>1, <1>5
<1>6. \A i \in DOMAIN read'.accounts :
        read'.accounts[i] # None => Told(read'.accounts[i], read'.input[i])
  BY <1>4
<1>7. \A i, j \in DOMAIN read'.accounts :
        read'.input[i] = read'.input[j] => read'.accounts[i] = read'.accounts[j]
  BY <1>5
<1> QED
  BY <1>2, <1>3, <1>6, <1>7 DEF Answered, Told

\* The invariant of reading: what lasts, what is plain, and what was answered.
Reads == FInv /\ AllPlain /\ Answered

LEMMA InitReadsAll == FetchInit => Reads
<1> SUFFICES ASSUME FetchInit PROVE Reads
  OBVIOUS
<1>1. AllPlain
  BY DEF FetchInit, Init, AllPlain, Plain, Vacant, Zeroed
<1>2. Answered
  BY DEF FetchInit, Idle, Answered
<1> QED
  BY <1>1, <1>2, InitReads DEF Reads

LEMMA ReadsKept == Reads /\ [FetchNext]_fetchVars => Reads'
<1> SUFFICES ASSUME Reads, [FetchNext]_fetchVars PROVE Reads'
  OBVIOUS
<1>1. FInv'
  BY FetchKeeps DEF Reads
<1>2. CASE Unpack
  <2>1. UNCHANGED vars /\ read'.status # "fetched"
    BY <1>2 DEF Unpack, Reads, FInv, ReadOK
  <2> QED
    BY <1>1, <2>1 DEF Reads, Answered, AllPlain, vars
<1>3. ASSUME NEW q \in Query, NEW strict \in BOOLEAN, FetchMetadata(q, strict)
      PROVE  Reads'
  <2>1. Answered'
    BY <1>3, FetchAnswers DEF Reads
  <2> QED
    BY <1>1, <1>3, <2>1 DEF FetchMetadata, Reads, AllPlain, vars
<1>4. CASE Next /\ UNCHANGED read
  <2>1. AllPlain'
    BY <1>4, StepPlain DEF Reads, FInv
  <2> QED
    BY <1>1, <1>4, <2>1 DEF Reads, Answered, Told
<1>5. CASE UNCHANGED fetchVars
  BY <1>1, <1>5 DEF Reads, Answered, Told, AllPlain, fetchVars, vars
<1> QED
  BY <1>2, <1>3, <1>4, <1>5 DEF FetchNext, Read

\* What is returned by the second answer, against the first.
LEMMA UnpackGivesOwn ==
  ASSUME Reads, Unpack, read'.status = "done"
  PROVE  \E at \in [DOMAIN read'.result -> DOMAIN read.input] :
           /\ {at[i] : i \in DOMAIN at} = {i \in DOMAIN read.input : read.accounts[i] # None}
           /\ \A i, j \in DOMAIN at : i < j => at[i] < at[j]
           /\ \A i \in DOMAIN at : IsContent(read'.result[i], read.accounts[at[i]])
<1> DEFINE I == {i \in DOMAIN read.accounts : read.accounts[i] # None}
           ms == Filtered(read.accounts, I)
           C == Cardinality(I)
           at == [m \in 1 .. C |-> Nth(I, m)]
<1>1. read.status = "fetched" /\ read'.result = Unpacked(ms)
  BY DEF Unpack, Reads, FInv, ReadOK
<1>2. PICK n \in Nat : DOMAIN read.input = 1 .. n /\ DOMAIN read.accounts = 1 .. n
  BY <1>1 DEF Reads, Answered
<1>3. /\ \A i \in I : Told(read.accounts[i], read.input[i])
      /\ \A i, j \in I : read.input[i] = read.input[j] => read.accounts[i] = read.accounts[j]
  BY <1>1 DEF Reads, Answered
<1>4. /\ C \in Nat
      /\ \A m \in 1 .. C : Nth(I, m) \in I
      /\ \A l, m \in 1 .. C : l < m => Nth(I, l) < Nth(I, m)
      /\ \A i \in I : \E m \in 1 .. C : Nth(I, m) = i
  <2>1. I \in SUBSET (1 .. n)
    BY <1>2
  <2> HIDE DEF I
  <2> QED
    BY <2>1, NthPlace
<1>5. DOMAIN ms = 1 .. C /\ \A m \in 1 .. C : ms[m] = read.accounts[at[m]]
  BY DEF Filtered
<1>6. DOMAIN read'.result = 1 .. C
  BY <1>1, <1>5 DEF Unpacked
<1>7. I \in SUBSET DOMAIN read.input /\ I = {i \in DOMAIN read.input : read.accounts[i] # None}
  BY <1>2
<1>8. DOMAIN at = 1 .. C /\ \A m \in 1 .. C : at[m] = Nth(I, m)
  OBVIOUS
<1> HIDE DEF I, ms, C, at
<1>9. \A m \in 1 .. C : ms[m].address = read.input[at[m]]
  BY <1>3, <1>4, <1>5, <1>8 DEF Told
<1>10. SameAddressSame(ms)
  BY <1>3, <1>4, <1>5, <1>8, <1>9 DEF SameAddressSame
<1>11. ASSUME NEW m \in 1 .. C PROVE IsContent(read'.result[m], read.accounts[at[m]])
  <2>1. Told(ms[m], read.input[at[m]])
    BY <1>3, <1>4, <1>5, <1>8
  <2>2. IsContent(Unpacked(ms)[m], ms[m])
    BY <1>4, <1>5, <1>10, <2>1, UnpackedContent DEF Reads, FInv
  <2> QED
    BY <1>1, <1>5, <2>2
<1>12. at \in [DOMAIN read'.result -> DOMAIN read.input]
  <2>1. at = [m \in 1 .. C |-> at[m]]
    BY DEF at
  <2>2. \A m \in 1 .. C : at[m] \in DOMAIN read.input
    BY <1>4, <1>7, <1>8
  <2>3. at \in [1 .. C -> DOMAIN read.input]
    BY <2>1, <2>2
  <2> QED
    BY <1>6, <2>3
<1>13. {at[i] : i \in DOMAIN at} = I
  BY <1>4, <1>8
<1>14. \A i, j \in DOMAIN at : i < j => at[i] < at[j]
  BY <1>4, <1>8
<1> QED
  BY <1>7, <1>8, <1>11, <1>12, <1>13, <1>14

\* The i-th content returned is the one of the i-th account there is, for any accounts,
\* queries and encodings of references, whatever the program does between the two answers
\* (packData.ts:192-224, fetchMetadataContent.ts:90).
THEOREM EachContentIsItsOwn == FetchSpec => EachGetsItsOwn
<1> DEFINE Own ==
      read'.status = "done" /\ read.status # "done" =>
        \E at \in [DOMAIN read'.result -> DOMAIN read.input] :
          /\ {at[i] : i \in DOMAIN at} = {i \in DOMAIN read.input : read.accounts[i] # None}
          /\ \A i, j \in DOMAIN at : i < j => at[i] < at[j]
          /\ \A i \in DOMAIN at : IsContent(read'.result[i], read.accounts[at[i]])
<1>1. ASSUME Reads, [FetchNext]_fetchVars PROVE Own
  <2>1. CASE Unpack
    BY <1>1, <2>1, UnpackGivesOwn
  <2>2. ASSUME NEW q \in Query, NEW strict \in BOOLEAN, FetchMetadata(q, strict)
        PROVE  read'.status # "done"
    BY <1>1, <2>2 DEF FetchMetadata, Reads, FInv, ReadOK
  <2>3. CASE UNCHANGED read
    BY <2>3
  <2> QED
    BY <1>1, <2>1, <2>2, <2>3 DEF FetchNext, Read, fetchVars
<1>2. Reads /\ [FetchNext]_fetchVars => [Own]_fetchVars
  BY <1>1
<1> QED
  BY <1>2, InitReadsAll, ReadsKept, PTL DEF FetchSpec, EachGetsItsOwn
===============================================================================
