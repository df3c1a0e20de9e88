------------------------- MODULE ProgramMetadataProofs -------------------------
(***************************************************************************)
(* The safety properties of ProgramMetadata for every value of its         *)
(* constants.  All instructions but Trim and Close leave one account with  *)
(* new contents (Put); the invariant is a statement about each account on  *)
(* its own, so a step preserves it as soon as the contents it leaves are   *)
(* well formed for their address.                                          *)
(***************************************************************************)
EXTENDS ProgramMetadataProperties, TLAPS

-----------------------------------------------------------------------------
(* What resizing and overwriting a body return.                            *)

\* Fit returns a body of exactly the length asked for: resize_unchecked never leaves
\* a byte that is neither kept nor zero.
LEMMA FitType ==
  ASSUME NEW body \in Seq(Byte), NEW n \in Nat
  PROVE  /\ Fit(body, n) \in Seq(Byte)
         /\ Len(Fit(body, n)) = n
<1>1. Fit(body, n) \in [1 .. n -> Byte]
  <2>1. \A i \in DOMAIN body : body[i] \in Byte
    OBVIOUS
  <2>2. Zero \in Byte
    BY LengthAssumption
  <2> QED
    BY <2>1, <2>2 DEF Fit
<1> QED
  BY <1>1

\* Resizing to n bytes or more leaves the first n bytes as they were.
LEMMA FitFit ==
  ASSUME NEW body \in Seq(Byte), NEW m \in Nat, NEW n \in Nat, n <= m
  PROVE  Fit(Fit(body, m), n) = Fit(body, n)
<1>1. \A i \in 1 .. n : i \in DOMAIN Fit(body, m) /\ Fit(body, m)[i] = Fit(body, n)[i]
  BY DEF Fit
<1> QED
  BY <1>1 DEF Fit

\* Overwrite returns a body just long enough for what it held and for what was written,
\* with what was written in its place and the rest as it was.
LEMMA OverwriteType ==
  ASSUME NEW body \in Seq(Byte), NEW offset \in Nat, NEW src \in Seq(Byte)
  PROVE  /\ Overwrite(body, offset, src) \in Seq(Byte)
         /\ Len(Overwrite(body, offset, src)) =
              IF offset + Len(src) > Len(body) THEN offset + Len(src) ELSE Len(body)
         /\ \A p \in DOMAIN Overwrite(body, offset, src) :
              /\ p - offset \in DOMAIN src => Overwrite(body, offset, src)[p] = src[p - offset]
              /\ p - offset \notin DOMAIN src /\ p \in DOMAIN body =>
                   Overwrite(body, offset, src)[p] = body[p]
<1> DEFINE end == offset + Len(src)
           len == IF end > Len(body) THEN end ELSE Len(body)
           grown == Fit(body, len)
<1>1. len \in Nat /\ Len(body) <= len /\ end <= len
  OBVIOUS
<1>2. grown \in Seq(Byte) /\ Len(grown) = len
  BY <1>1, FitType
<1>3. Overwrite(body, offset, src) =
        [i \in 1 .. len |-> IF i - offset \in DOMAIN src THEN src[i - offset] ELSE grown[i]]
  BY <1>2 DEF Overwrite
<1>4. Overwrite(body, offset, src) \in [1 .. len -> Byte]
  BY <1>2, <1>3
<1>5. \A p \in 1 .. len : p \in DOMAIN body => grown[p] = body[p]
  BY DEF Fit
<1> HIDE DEF len, grown
<1>6. Overwrite(body, offset, src) \in Seq(Byte) /\ Len(Overwrite(body, offset, src)) = len
  BY <1>1, <1>4
<1> QED
  BY <1>1, <1>3, <1>5, <1>6 DEF len

-----------------------------------------------------------------------------

\* IInv is the conjunction of the invariants the runs check.
LEMMA IInvImpliesInvariants ==
  IInv => TypeOK /\ HeadersOwned /\ DerivationMatches /\ DataFits /\ AuthorityPresent
BY DEF IInv, WellFormed, HeadersOwned, DerivationMatches, DataFits, AuthorityPresent

\* The addresses the handlers derive are addresses.
LEMMA DerivedType ==
  ASSUME NEW canonical \in BOOLEAN, NEW p \in Program, NEW k \in Signer, NEW s \in Seed
  PROVE  DerivedPda(canonical, p, k, s) \in Address \cap Pda
BY DEF DerivedPda, Address, Pda

\* Contents that differ only in lamports are equally well formed.
LEMMA LamportsDoNotMatter ==
  ASSUME NEW a, NEW r \in AccountRecord, NEW n \in Nat
  PROVE  /\ [r EXCEPT !.lamports = n] \in AccountRecord
         /\ WellFormed(a, r) => WellFormed(a, [r EXCEPT !.lamports = n])
BY DEF AccountRecord, WellFormed, HeaderOwned, AtDerivedAddress, DataPresent,
       HasAuthority, IsMetadata, IsBuffer

\* A zeroed account is typed, and well formed wherever it may be.
LEMMA ZeroedType ==
  ASSUME NEW owner \in {"system", "self"}, NEW n \in Nat,
         NEW h \in 0 .. HeaderLen, NEW body \in Seq(Byte)
  PROVE  Zeroed(owner, n, h, body) \in AccountRecord
BY DEF Zeroed, AccountRecord, Discriminator, DataSource

LEMMA ZeroedWellFormed ==
  ASSUME NEW a, NEW owner, owner = "self" => a \in BufferKey, NEW n, NEW h, NEW body
  PROVE  WellFormed(a, Zeroed(owner, n, h, body))
BY DEF Zeroed, WellFormed, HeaderOwned, AtDerivedAddress, DataPresent,
       HasAuthority, IsMetadata, IsBuffer

LEMMA VacantWellFormed ==
  ASSUME NEW a, NEW n \in Nat
  PROVE  Vacant(n) \in AccountRecord /\ WellFormed(a, Vacant(n))
<1>1. 0 \in 0 .. HeaderLen /\ <<>> \in Seq(Byte)
  BY LengthAssumption
<1> QED
  BY <1>1, ZeroedType, ZeroedWellFormed DEF Vacant

\* An instruction that leaves well formed contents at one address preserves IInv.
LEMMA PutKeeps ==
  ASSUME IInv, NEW k \in Signer, NEW a \in Address, NEW r \in AccountRecord,
         WellFormed(a, r), Put(k, a, r)
  PROVE  IInv'
<1>1. TypeOK'
  BY DEF IInv, TypeOK, Put, Commit
<1>2. \A b \in Address : WellFormed(b, acct'[b])
  BY DEF IInv, TypeOK, Put, Commit
<1>3. QED
  BY <1>1, <1>2 DEF IInv

\* What an action may assume of the contents it starts from.
LEMMA Contents ==
  ASSUME IInv, NEW a \in Address
  PROVE  acct[a] \in AccountRecord /\ WellFormed(a, acct[a])
BY DEF IInv, TypeOK

\* The account that Allocate writes its header into.
LEMMA ClaimedType ==
  ASSUME NEW r \in AccountRecord, NEW signs \in BOOLEAN, Claimable(r, signs)
  PROVE  /\ Claimed(r) \in AccountRecord
         /\ Claimed(r).owner = "self" /\ Claimed(r).head = HeaderLen
<1>1. CASE IsVacant(r)
  <2>1. HeaderLen \in 0 .. HeaderLen /\ <<>> \in Seq(Byte) /\ r.lamports \in Nat
    BY LengthAssumption DEF AccountRecord
  <2>2. Claimed(r) = Zeroed("self", r.lamports, HeaderLen, <<>>)
    BY <1>1 DEF Claimed
  <2>3. Zeroed("self", r.lamports, HeaderLen, <<>>) \in AccountRecord
    BY <2>1, ZeroedType
  <2> QED
    BY <2>2, <2>3 DEF Zeroed
<1>2. CASE ~IsVacant(r)
  BY <1>2 DEF Claimable, Claimed, AccountRecord
<1> QED
  BY <1>1, <1>2

LEMMA AllocateKeypairKeeps ==
  ASSUME IInv, NEW k \in Signer, AllocateKeypair(k)
  PROVE  IInv'
<1> DEFINE r == [Claimed(acct[k]) EXCEPT !.discriminator = "Buffer", !.authority = k]
<1>1. k \in Address /\ Claimable(acct[k], TRUE) /\ Put(k, k, r)
  BY DEF AllocateKeypair, Address
<1>2. acct[k] \in AccountRecord
  BY <1>1, Contents
<1>3. Claimed(acct[k]) \in AccountRecord
      /\ Claimed(acct[k]).owner = "self" /\ Claimed(acct[k]).head = HeaderLen
  BY <1>1, <1>2, ClaimedType
<1>4. r \in AccountRecord /\ WellFormed(k, r)
  BY <1>3, KeyAssumption DEF AccountRecord, Discriminator, WellFormed, HeaderOwned,
     AtDerivedAddress, DataPresent, HasAuthority, IsMetadata, IsBuffer
<1> QED
  BY <1>1, <1>4, PutKeeps

LEMMA AllocatePdaKeeps ==
  ASSUME IInv, NEW k \in Signer, NEW p \in Program, NEW s \in Seed,
         NEW supplied \in BOOLEAN, AllocatePda(k, p, s, supplied)
  PROVE  IInv'
<1>1. PICK canonical \in BOOLEAN :
        LET b == DerivedPda(canonical, p, k, s)
        IN  /\ Claimable(acct[b], FALSE)
            /\ Put(k, b, [Claimed(acct[b]) EXCEPT !.discriminator = "Buffer",
                                                  !.authority = k,
                                                  !.program = p,
                                                  !.canonical = canonical,
                                                  !.seed = s])
  BY DEF AllocatePda, IsProgramAuthority
<1> DEFINE b == DerivedPda(canonical, p, k, s)
           r == [Claimed(acct[b]) EXCEPT !.discriminator = "Buffer",
                                         !.authority = k,
                                         !.program = p,
                                         !.canonical = canonical,
                                         !.seed = s]
<1>2. b \in Address
  BY DerivedType
<1>3. acct[b] \in AccountRecord
  BY <1>2, Contents
<1>4. Claimed(acct[b]) \in AccountRecord
      /\ Claimed(acct[b]).owner = "self" /\ Claimed(acct[b]).head = HeaderLen
  BY <1>1, <1>3, ClaimedType
<1>5. r \in AccountRecord /\ WellFormed(b, r)
  BY <1>4, KeyAssumption DEF AccountRecord, Discriminator, WellFormed, HeaderOwned,
     AtDerivedAddress, DataPresent, HasAuthority, IsMetadata, IsBuffer
<1> QED
  BY <1>1, <1>2, <1>5, PutKeeps

\* The header Initialize writes is well formed at the address it derives.
LEMMA MetadataHeaderWellFormed ==
  ASSUME NEW r \in AccountRecord, NEW k \in Signer, NEW p \in Program, NEW s \in Seed,
         NEW canonical \in BOOLEAN, NEW codec \in Codec, NEW source \in DataSource,
         ValidDataLength(source, Len(r.body))
  PROVE  /\ MetadataHeader(r, k, p, s, canonical, codec, source) \in AccountRecord
         /\ WellFormed(DerivedPda(canonical, p, k, s),
                       MetadataHeader(r, k, p, s, canonical, codec, source))
<1> DEFINE authority == IF canonical THEN None ELSE k
           h == [r EXCEPT !.owner = "self", !.head = HeaderLen,
                          !.discriminator = "Metadata", !.program = p,
                          !.authority = authority, !.mutable = TRUE,
                          !.canonical = canonical, !.seed = s, !.codec = codec,
                          !.dataSource = source, !.dataLength = Len(r.body)]
<1>1. h = MetadataHeader(r, k, p, s, canonical, codec, source)
  BY DEF MetadataHeader
<1>2. /\ authority \in Signer \cup {None}
      /\ ~canonical => authority # None
      /\ DerivedPda(canonical, p, k, s) = DerivedPda(canonical, p, authority, s)
  BY KeyAssumption DEF DerivedPda
<1> HIDE DEF authority
<1>3. h \in AccountRecord
  <2>1. Len(r.body) \in Nat /\ HeaderLen \in 0 .. HeaderLen /\ "Metadata" \in Discriminator
    BY LengthAssumption DEF AccountRecord, Discriminator
  <2> QED
    BY <1>2, <2>1 DEF AccountRecord
<1>4. /\ h.discriminator = "Metadata" /\ h.owner = "self" /\ h.head = HeaderLen
      /\ h.body = r.body /\ h.dataLength = Len(r.body) /\ h.dataSource = source
      /\ h.program = p /\ h.seed = s /\ h.canonical = canonical /\ h.authority = authority
  BY DEF AccountRecord
<1>5. Len(r.body) \in Nat
  BY DEF AccountRecord
<1> HIDE DEF h
<1>6. WellFormed(DerivedPda(canonical, p, k, s), h)
  BY <1>2, <1>4, <1>5, DerivedType DEF WellFormed, HeaderOwned, AtDerivedAddress, DataPresent,
                          HasAuthority, IsMetadata, IsBuffer
<1> QED
  BY <1>1, <1>3, <1>6

LEMMA InitializeKeeps ==
  ASSUME IInv, NEW k \in Signer, NEW p \in Program, NEW s \in Seed,
         NEW supplied \in BOOLEAN, NEW codec \in Codec, NEW source \in DataSource,
         NEW payload \in Seq(Byte),
         Initialize(k, p, s, supplied, codec, source, payload)
  PROVE  IInv'
<1>1. PICK canonical \in BOOLEAN :
        LET m    == DerivedPda(canonical, p, k, s)
            body == IF IsVacant(acct[m]) THEN payload ELSE acct[m].body
        IN  /\ ValidDataLength(source, Len(body))
            /\ Put(k, m, MetadataHeader([acct[m] EXCEPT !.body = body],
                                        k, p, s, canonical, codec, source))
  BY DEF Initialize, IsProgramAuthority
<1> DEFINE m    == DerivedPda(canonical, p, k, s)
           body == IF IsVacant(acct[m]) THEN payload ELSE acct[m].body
           r    == [acct[m] EXCEPT !.body = body]
           h    == MetadataHeader(r, k, p, s, canonical, codec, source)
<1>2. m \in Address /\ acct[m] \in AccountRecord
  BY DerivedType, Contents
<1>4. body \in Seq(Byte)
  BY <1>2 DEF AccountRecord
<1>5. r \in AccountRecord /\ r.body = body
  <2> HIDE DEF body, m
  <2> QED
    BY <1>2, <1>4 DEF AccountRecord
<1>6. ValidDataLength(source, Len(r.body)) /\ Put(k, m, h)
  BY <1>1, <1>5
<1>7. h \in AccountRecord /\ WellFormed(m, h)
  <2> HIDE DEF r
  <2> QED
    BY <1>5, <1>6, MetadataHeaderWellFormed
<1> HIDE DEF m, h
<1> QED
  BY <1>2, <1>6, <1>7, PutKeeps

LEMMA WriteBytesKeeps ==
  ASSUME IInv, NEW k \in Signer, NEW t \in Address, NEW offset \in Nat,
         NEW src \in Seq(Byte), WriteBytes(k, t, offset, src)
  PROVE  IInv'
<1> DEFINE after == Overwrite(acct[t].body, offset, src)
           r == [acct[t] EXCEPT !.body = after]
<1>1. acct[t] \in AccountRecord /\ WellFormed(t, acct[t])
  BY Contents
<1>2. ValidBuffer(acct[t]) /\ Put(k, t, r)
  BY DEF WriteBytes
<1>3. after \in Seq(Byte)
  BY <1>1, OverwriteType DEF AccountRecord
<1> HIDE DEF after
<1>4. r \in AccountRecord /\ WellFormed(t, r)
  BY <1>1, <1>2, <1>3 DEF AccountRecord, ValidBuffer, WellFormed, HeaderOwned, AtDerivedAddress,
     DataPresent, HasAuthority, IsMetadata, IsBuffer
<1> QED
  BY <1>2, <1>4, PutKeeps

LEMMA SetBufferAuthorityKeeps ==
  ASSUME IInv, NEW k \in Signer, NEW b \in Address, NEW new \in Signer \cup {None},
         SetBufferAuthority(k, b, new)
  PROVE  IInv'
<1> DEFINE r == [acct[b] EXCEPT !.authority = new]
<1>1. acct[b] \in AccountRecord /\ WellFormed(b, acct[b])
  BY Contents
<1>2. ValidBuffer(acct[b]) /\ new # None /\ Put(k, b, r)
  BY DEF SetBufferAuthority
<1>3. r \in AccountRecord /\ WellFormed(b, r)
  BY <1>1, <1>2 DEF AccountRecord, ValidBuffer, WellFormed, HeaderOwned, AtDerivedAddress,
     DataPresent, HasAuthority, IsMetadata, IsBuffer
<1> QED
  BY <1>2, <1>3, PutKeeps

\* The address of canonical metadata does not depend on its authority.
LEMMA SetMetadataAuthorityKeeps ==
  ASSUME IInv, NEW k \in Signer, NEW m \in Address, NEW new \in Signer \cup {None},
         SetMetadataAuthority(k, m, new)
  PROVE  IInv'
<1> DEFINE r == [acct[m] EXCEPT !.authority = new]
<1>1. acct[m] \in AccountRecord /\ WellFormed(m, acct[m])
  BY Contents
<1>2. ValidMetadata(acct[m]) /\ acct[m].canonical /\ Put(k, m, r)
  BY DEF SetMetadataAuthority
<1>3. r \in AccountRecord /\ WellFormed(m, r)
  BY <1>1, <1>2 DEF AccountRecord, ValidMetadata, DerivedPda, WellFormed, HeaderOwned, AtDerivedAddress,
     DataPresent, HasAuthority, IsMetadata, IsBuffer
<1> QED
  BY <1>2, <1>3, PutKeeps

LEMMA SetCodecKeeps ==
  ASSUME IInv, NEW k \in Signer, NEW m \in Address, NEW codec \in Codec,
         SetCodec(k, m, codec)
  PROVE  IInv'
<1> DEFINE r == [acct[m] EXCEPT !.codec = codec]
<1>1. acct[m] \in AccountRecord /\ WellFormed(m, acct[m]) /\ Put(k, m, r)
  BY Contents DEF SetCodec
<1>2. r \in AccountRecord /\ WellFormed(m, r)
  BY <1>1 DEF AccountRecord, WellFormed, HeaderOwned, AtDerivedAddress,
     DataPresent, HasAuthority, IsMetadata, IsBuffer
<1> QED
  BY <1>1, <1>2, PutKeeps

LEMMA SetBytesKeeps ==
  ASSUME IInv, NEW k \in Signer, NEW m \in Address, NEW codec \in Codec,
         NEW source \in DataSource, NEW data \in Seq(Byte),
         SetBytes(k, m, codec, source, data)
  PROVE  IInv'
<1> DEFINE r == [acct[m] EXCEPT !.codec = codec, !.dataSource = source,
                                !.dataLength = Len(data), !.body = data]
<1>1. acct[m] \in AccountRecord /\ WellFormed(m, acct[m])
  BY Contents
<1>2. ValidMetadata(acct[m]) /\ ValidDataLength(source, Len(data)) /\ Put(k, m, r)
  BY DEF SetBytes
<1>3. Len(data) \in Nat
  OBVIOUS
<1>4. r \in AccountRecord
  BY <1>1, <1>3 DEF AccountRecord
<1>5. WellFormed(m, r)
  <2>1. /\ r.dataLength = Len(r.body) /\ r.dataSource = source /\ r.body = data
        /\ \A f \in {"owner", "head", "discriminator", "program", "authority",
                     "canonical", "seed"} : r[f] = acct[m][f]
    BY <1>1 DEF AccountRecord
  <2> HIDE DEF r
  <2> QED
    BY <1>1, <1>2, <1>3, <2>1 DEF WellFormed, HeaderOwned, AtDerivedAddress,
       DataPresent, HasAuthority, IsMetadata, IsBuffer
<1> QED
  BY <1>2, <1>4, <1>5, PutKeeps

LEMMA SetImmutableKeeps ==
  ASSUME IInv, NEW k \in Signer, NEW m \in Address, SetImmutable(k, m)
  PROVE  IInv'
<1> DEFINE r == [acct[m] EXCEPT !.mutable = FALSE]
<1>1. acct[m] \in AccountRecord /\ WellFormed(m, acct[m]) /\ Put(k, m, r)
  BY Contents DEF SetImmutable
<1>2. r \in AccountRecord /\ WellFormed(m, r)
  BY <1>1 DEF AccountRecord, WellFormed, HeaderOwned, AtDerivedAddress,
     DataPresent, HasAuthority, IsMetadata, IsBuffer
<1> QED
  BY <1>1, <1>2, PutKeeps

\* Resizing keeps an account well formed as long as metadata keeps its data.
LEMMA ResizedWellFormed ==
  ASSUME NEW a, NEW r \in AccountRecord, WellFormed(a, r), NEW n \in Nat,
         IsMetadata(r) => r.dataLength <= n
  PROVE  Resized(r, n) \in AccountRecord /\ WellFormed(a, Resized(r, n))
<1> DEFINE body == Fit(r.body, n)
<1>1. body \in Seq(Byte) /\ Len(body) = n
  BY FitType DEF AccountRecord
<1>2. Resized(r, n) = [r EXCEPT !.body = body]
  BY DEF Resized, AccountRecord
<1> HIDE DEF body
<1> QED
  BY <1>1, <1>2 DEF AccountRecord, WellFormed, HeaderOwned, AtDerivedAddress,
     DataPresent, HasAuthority, IsMetadata, IsBuffer

LEMMA ExtendKeeps ==
  ASSUME IInv, NEW k \in Signer, NEW a \in Address, NEW n \in Nat, Extend(k, a, n)
  PROVE  IInv'
<1> DEFINE len == Len(acct[a].body) + n
<1>1. acct[a] \in AccountRecord /\ WellFormed(a, acct[a])
  BY Contents
<1>2. len \in Nat /\ (IsMetadata(acct[a]) => acct[a].dataLength <= len)
  BY <1>1 DEF AccountRecord, WellFormed, DataPresent
<1>3. Put(k, a, Resized(acct[a], len))
  BY DEF Extend
<1> HIDE DEF len
<1> QED
  BY <1>1, <1>2, <1>3, ResizedWellFormed, PutKeeps

\* Moving lamports out of an account that is left well formed preserves IInv: the
\* destination changes in its lamports only.
LEMMA PayOutKeeps ==
  ASSUME IInv, NEW k \in Signer, NEW a \in Address, NEW r \in AccountRecord,
         WellFormed(a, r), NEW dest \in Address, NEW amount \in Nat,
         PayOut(k, a, r, dest, amount)
  PROVE  IInv'
<1> DEFINE credited == [acct[dest] EXCEPT !.lamports = @ + amount]
<1>1. acct[dest] \in AccountRecord /\ WellFormed(dest, acct[dest])
  BY Contents
<1>2. credited \in AccountRecord /\ WellFormed(dest, credited)
  <2>1. acct[dest].lamports + amount \in Nat
    BY <1>1 DEF AccountRecord
  <2> QED
    BY <1>1, <2>1, LamportsDoNotMatter DEF AccountRecord
<1>3. \A b \in Address :
        acct'[b] = IF b = a THEN r ELSE IF b = dest THEN credited ELSE acct[b]
  BY DEF PayOut, Commit, IInv, TypeOK
<1>4. DOMAIN acct' = Address /\ acct' = [b \in Address |-> acct'[b]]
  BY DEF PayOut, Commit, IInv, TypeOK
<1> HIDE DEF credited
<1>5. \A b \in Address : acct'[b] \in AccountRecord /\ WellFormed(b, acct'[b])
  BY <1>2, <1>3, Contents
<1>6. TypeOK'
  BY <1>4, <1>5 DEF PayOut, Commit, IInv, TypeOK
<1> QED
  BY <1>5, <1>6 DEF IInv

LEMMA TrimKeeps ==
  ASSUME IInv, NEW k \in Signer, NEW a \in Address, NEW dest \in Address,
         Trim(k, a, dest)
  PROVE  IInv'
<1> DEFINE n   == TrimmedLen(acct[a])
           min == MinBalance(HeaderLen + n)
           cut == Resized(acct[a], n)
           r   == [cut EXCEPT !.lamports = min]
<1>1. acct[a] \in AccountRecord /\ WellFormed(a, acct[a])
  BY Contents
<1>2. /\ MayManage(acct[a], k) /\ Resizable(acct[a], n) /\ min <= acct[a].lamports
      /\ PayOut(k, a, r, dest, acct[a].lamports - min)
  BY DEF Trim
<1>3. n \in Nat /\ (IsMetadata(acct[a]) => acct[a].dataLength <= n)
  BY <1>1 DEF TrimmedLen, AccountRecord, IsMetadata
<1>4. min \in Nat /\ acct[a].lamports \in Nat
  <2>1. HeaderLen + n \in 0 .. MaxLen
    BY <1>2, <1>3, LengthAssumption DEF Resizable
  <2> QED
    BY <1>1, <2>1, RentAssumption DEF AccountRecord
<1>5. acct[a].lamports - min \in Nat
  BY <1>2, <1>4
<1>6. cut \in AccountRecord /\ WellFormed(a, cut)
  <2> HIDE DEF n
  <2> QED
    BY <1>1, <1>3, ResizedWellFormed
<1> HIDE DEF cut, min
<1>7. r \in AccountRecord /\ WellFormed(a, r)
  BY <1>4, <1>6, LamportsDoNotMatter
<1> HIDE DEF r
<1> QED
  BY <1>2, <1>5, <1>7, PayOutKeeps

LEMMA CloseKeeps ==
  ASSUME IInv, NEW k \in Signer, NEW a \in Address, NEW dest \in Address,
         Close(k, a, dest)
  PROVE  IInv'
<1>1. Vacant(0) \in AccountRecord /\ WellFormed(a, Vacant(0))
  BY VacantWellFormed
<1>2. PayOut(k, a, Vacant(0), dest, acct[a].lamports)
  BY DEF Close
<1>3. acct[a].lamports \in Nat
  BY Contents DEF AccountRecord
<1> QED
  BY <1>1, <1>2, <1>3, PayOutKeeps

LEMMA TransferKeeps ==
  ASSUME IInv, NEW k \in Signer, NEW to \in Address, NEW n \in Nat, Transfer(k, to, n)
  PROVE  IInv'
<1> DEFINE debited  == [acct[k] EXCEPT !.lamports = @ - n]
           credited == [acct[to] EXCEPT !.lamports = @ + n]
<1>1. k \in Address /\ n <= acct[k].lamports /\ to # k
  BY DEF Transfer, Address
<1>2. /\ acct[k] \in AccountRecord /\ WellFormed(k, acct[k])
      /\ acct[to] \in AccountRecord /\ WellFormed(to, acct[to])
  BY <1>1, Contents
<1>3. acct[k].lamports - n \in Nat /\ acct[to].lamports + n \in Nat
  BY <1>1, <1>2 DEF AccountRecord
<1>4. debited \in AccountRecord /\ WellFormed(k, debited)
  BY <1>2, <1>3, LamportsDoNotMatter DEF AccountRecord
<1>5. credited \in AccountRecord /\ WellFormed(to, credited)
  BY <1>2, <1>3, LamportsDoNotMatter DEF AccountRecord
<1>6. \A b \in Address :
        acct'[b] = IF b = k THEN debited ELSE IF b = to THEN credited ELSE acct[b]
  BY <1>1 DEF Transfer, Commit, IInv, TypeOK
<1>7. acct' = [b \in Address |-> acct'[b]]
  BY DEF Transfer, Commit, IInv, TypeOK
<1> HIDE DEF debited, credited
<1>8. \A b \in Address : acct'[b] \in AccountRecord /\ WellFormed(b, acct'[b])
  BY <1>4, <1>5, <1>6, Contents
<1>9. TypeOK'
  BY <1>7, <1>8 DEF Transfer, Commit, IInv, TypeOK
<1> QED
  BY <1>8, <1>9 DEF IInv

LEMMA SystemCreateKeeps ==
  ASSUME IInv, NEW k \in Signer, NEW space \in 0 .. MaxLen,
         NEW owner \in {"system", "self"}, SystemCreate(k, space, owner)
  PROVE  IInv'
<1> DEFINE h == IF space < HeaderLen THEN space ELSE HeaderLen
           r == Zeroed(owner, acct[k].lamports, h, Fit(<<>>, space - h))
<1>1. k \in BufferKey /\ k \in Address /\ Put(k, k, r)
  BY DEF SystemCreate, Address
<1>2. acct[k].lamports \in Nat
  BY <1>1, Contents DEF AccountRecord
<1>3. h \in 0 .. HeaderLen /\ space - h \in Nat
  BY LengthAssumption
<1>4. Fit(<<>>, space - h) \in Seq(Byte)
  <2>1. <<>> \in Seq(Byte)
    OBVIOUS
  <2> HIDE DEF h
  <2> QED
    BY <1>3, <2>1, FitType
<1>5. r \in AccountRecord /\ WellFormed(k, r)
  <2> HIDE DEF h
  <2> QED
    BY <1>1, <1>2, <1>3, <1>4, ZeroedType, ZeroedWellFormed
<1> HIDE DEF r
<1> QED
  BY <1>1, <1>5, PutKeeps

\* The loader changes no account.
LEMMA LoaderStepKeeps ==
  ASSUME IInv, LoaderStep
  PROVE  IInv'
<1>1. /\ UNCHANGED acct
      /\ prog' \in [Program -> ProgramRecord]
      /\ signer' \in Signer \cup {None}
  BY DEF LoaderStep, Deploy, SetUpgradeAuthority, CloseProgram, SetProgram, IInv, TypeOK,
         ProgramRecord, Kind, Signer
<1> QED
  BY <1>1 DEF IInv, TypeOK

-----------------------------------------------------------------------------
\* Every step keeps the invariant: one case for each action.
LEMMA StepKeeps ==
  ASSUME IInv, Next
  PROVE  IInv'
<1>1. ASSUME NEW k \in Signer, Create(k)
      PROVE  IInv'
  <2>1. CASE AllocateKeypair(k)
    BY <2>1, AllocateKeypairKeeps
  <2>2. ASSUME NEW p \in Program, NEW s \in Seed, NEW supplied \in BOOLEAN,
               AllocatePda(k, p, s, supplied)
        PROVE  IInv'
    BY <2>2, AllocatePdaKeeps
  <2>3. ASSUME NEW p \in Program, NEW s \in Seed, NEW supplied \in BOOLEAN,
               NEW codec \in Codec, NEW source \in DataSource,
               NEW payload \in Payload \cup {<<>>},
               Initialize(k, p, s, supplied, codec, source, payload)
        PROVE  IInv'
    <3>1. payload \in Seq(Byte)
      <4>1. Payload \subseteq Seq(Byte) /\ <<>> \in Seq(Byte)
        BY InputAssumption
      <4> QED
        BY <4>1
    <3> QED
      BY <2>3, <3>1, InitializeKeeps
  <2> QED
    BY <1>1, <2>1, <2>2, <2>3 DEF Create
<1>2. ASSUME NEW k \in Signer, NEW a \in Address, Fill(k, a)
      PROVE  IInv'
  <2>1. ASSUME NEW offset \in 0 .. MaxLen, NEW payload \in Payload,
               WriteData(k, a, offset, payload)
        PROVE  IInv'
    <3>1. offset \in Nat /\ payload \in Seq(Byte)
      BY InputAssumption, LengthAssumption
    <3> QED
      BY <2>1, <3>1, WriteBytesKeeps DEF WriteData
  <2>2. ASSUME NEW offset \in 0 .. MaxLen, NEW b \in Address,
               WriteFromBuffer(k, a, offset, b)
        PROVE  IInv'
    <3>1. offset \in Nat /\ acct[b].body \in Seq(Byte)
      BY Contents, LengthAssumption DEF AccountRecord
    <3> QED
      BY <2>2, <3>1, WriteBytesKeeps DEF WriteFromBuffer
  <2>3. ASSUME NEW codec \in Codec, SetCodec(k, a, codec)
        PROVE  IInv'
    BY <2>3, SetCodecKeeps
  <2>4. ASSUME NEW codec \in Codec, NEW source \in DataSource, NEW payload \in Payload,
               SetData(k, a, codec, source, payload)
        PROVE  IInv'
    <3>1. payload \in Seq(Byte)
      BY InputAssumption
    <3> QED
      BY <2>4, <3>1, SetBytesKeeps DEF SetData
  <2>5. ASSUME NEW codec \in Codec, NEW source \in DataSource, NEW b \in Address,
               SetDataFromBuffer(k, a, codec, source, b)
        PROVE  IInv'
    <3>1. acct[b].body \in Seq(Byte)
      BY Contents DEF AccountRecord
    <3> QED
      BY <2>5, <3>1, SetBytesKeeps DEF SetDataFromBuffer
  <2> QED
    BY <1>2, <2>1, <2>2, <2>3, <2>4, <2>5 DEF Fill
<1>3. ASSUME NEW k \in Signer, NEW a \in Address, Govern(k, a)
      PROVE  IInv'
  BY <1>3, SetBufferAuthorityKeeps, SetMetadataAuthorityKeeps, SetImmutableKeeps DEF Govern
<1>4. ASSUME NEW k \in Signer, NEW a \in Address, Reshape(k, a)
      PROVE  IInv'
  <2>1. Extension \subseteq Nat
    BY InputAssumption
  <2> QED
    BY <1>4, <2>1, ExtendKeeps, TrimKeeps, CloseKeeps DEF Reshape
<1>5. ASSUME NEW k \in Signer, SystemStep(k)
      PROVE  IInv'
  <2>1. Transfers \subseteq Nat /\ Space \subseteq 0 .. MaxLen
    BY InputAssumption
  <2> QED
    BY <1>5, <2>1, TransferKeeps, SystemCreateKeeps DEF SystemStep
<1> QED
  BY <1>1, <1>2, <1>3, <1>4, <1>5, LoaderStepKeeps DEF Next

LEMMA InitEstablishes == Init => IInv
<1> SUFFICES ASSUME Init PROVE IInv
  OBVIOUS
<1>1. \A a \in Address : acct[a] \in AccountRecord /\ WellFormed(a, acct[a])
  <2>1. Supply \in Nat /\ 0 \in Nat
    BY InputAssumption
  <2> QED
    BY <2>1, VacantWellFormed DEF Init
<1>2. prog \in [Program -> ProgramRecord] /\ signer = None
  BY InputAssumption DEF Init
<1> QED
  BY <1>1, <1>2 DEF Init, IInv, TypeOK

LEMMA StutterKeeps == IInv /\ UNCHANGED vars => IInv'
BY DEF IInv, TypeOK, vars

\* The inductive invariant holds in every reachable state.
THEOREM Invariance == Spec => []IInv
<1>1. IInv /\ [Next]_vars => IInv'
  BY StepKeeps, StutterKeeps
<1> QED
  BY InitEstablishes, <1>1, PTL DEF Spec

\* Type correctness of every run of the program.
THEOREM TypeCorrect == Spec => []TypeOK
BY Invariance, IInvImpliesInvariants, PTL

\* Headers are only ever found in accounts the program owns.
THEOREM HeadersAlwaysOwned == Spec => []HeadersOwned
BY Invariance, IInvImpliesInvariants, PTL

\* Metadata is always at the address its header derives.
THEOREM DerivationAlwaysMatches == Spec => []DerivationMatches
BY Invariance, IInvImpliesInvariants, PTL

\* The data metadata declares is always there.
THEOREM DataAlwaysFits == Spec => []DataFits
BY Invariance, IInvImpliesInvariants, PTL

\* Buffers and third-party metadata always have an authority.
THEOREM AuthorityAlwaysPresent == Spec => []AuthorityPresent
BY Invariance, IInvImpliesInvariants, PTL

-----------------------------------------------------------------------------
(* Who changes what.  A step does one of four things to an account, and    *)
(* the three action properties follow from which of them apply to it.      *)

\* The signer manages the account, and does not make metadata of it.
Managed(a) ==
  /\ MayManage(acct[a], signer')
  /\ IsMetadata(acct'[a]) => IsMetadata(acct[a])

\* An account without a header is taken into use, by itself if the program owns it.
Opened(a) ==
  /\ acct[a].discriminator = "Empty"
  /\ acct[a].owner = "self" => a = signer' /\ acct[a].head = HeaderLen
  /\ ~IsMetadata(acct'[a])

\* A buffer or a vacant account becomes metadata.
Initialized(a) ==
  /\ IsBuffer(acct[a]) \/ acct[a].owner = "system"
  /\ IsMetadata(acct'[a])
  /\ ProperlyInitialized(a)

Effect(a) == OnlyCredited(a) \/ Managed(a) \/ Opened(a) \/ Initialized(a)

\* An account that no instruction rewrites keeps its contents.
LEMMA UntouchedByPut ==
  ASSUME IInv, NEW a \in Address, NEW k, NEW b \in Address, NEW r, Put(k, b, r), b # a
  PROVE  OnlyCredited(a)
<1>1. acct'[a] = acct[a] /\ acct[a] \in AccountRecord
  BY Contents DEF Put, Commit, IInv, TypeOK
<1> QED
  BY <1>1 DEF OnlyCredited, AccountRecord

\* Crediting an account is all a payout does to accounts other than its source.
LEMMA CreditedByPayOut ==
  ASSUME IInv, NEW a \in Address, NEW k, NEW b \in Address, NEW r, NEW dest \in Address,
         NEW amount \in Nat, PayOut(k, b, r, dest, amount), b # a
  PROVE  OnlyCredited(a)
<1>1. acct[a] \in AccountRecord
  BY Contents
<1>2. acct'[a] = IF a = dest THEN [acct[a] EXCEPT !.lamports = @ + amount] ELSE acct[a]
  BY DEF PayOut, Commit, IInv, TypeOK
<1> QED
  BY <1>1, <1>2 DEF OnlyCredited, AccountRecord

\* An instruction that rewrites one account, keeping its discriminator.
LEMMA ManagedByPut ==
  ASSUME IInv, NEW a \in Address, NEW k, NEW b \in Address, NEW r, Put(k, b, r),
         MayManage(acct[b], k), r.discriminator = acct[b].discriminator
  PROVE  Effect(a)
<1>1. CASE b # a
  BY <1>1, UntouchedByPut DEF Effect
<1>2. CASE b = a
  <2>1. acct'[a] = r /\ signer' = k
    BY <1>2 DEF Put, Commit, IInv, TypeOK
  <2>2. MayManage(acct[a], signer')
    BY <1>2, <2>1
  <2> QED
    BY <1>2, <2>1, <2>2 DEF Effect, Managed, IsMetadata
<1> QED
  BY <1>1, <1>2

\* An instruction that pays out of one account, keeping or clearing its discriminator.
LEMMA ManagedByPayOut ==
  ASSUME IInv, NEW a \in Address, NEW k, NEW b \in Address, NEW r, NEW dest \in Address,
         NEW amount \in Nat, PayOut(k, b, r, dest, amount), MayManage(acct[b], k),
         r.discriminator \in {"Empty", acct[b].discriminator}
  PROVE  Effect(a)
<1>1. CASE b # a
  BY <1>1, CreditedByPayOut DEF Effect
<1>2. CASE b = a
  <2>1. acct'[a] = r /\ signer' = k
    BY <1>2 DEF PayOut, Commit, IInv, TypeOK
  <2>2. MayManage(acct[a], signer')
    BY <1>2, <2>1
  <2> QED
    BY <1>2, <2>1, <2>2 DEF Effect, Managed, IsMetadata
<1> QED
  BY <1>1, <1>2

\* An account that Allocate can claim has no header in it.
LEMMA ClaimableIsEmpty ==
  ASSUME IInv, NEW b \in Address, NEW signs \in BOOLEAN, Claimable(acct[b], signs)
  PROVE  acct[b].discriminator = "Empty"
<1>1. acct[b].discriminator # "Empty" => acct[b].owner = "self"
  BY Contents DEF WellFormed, HeaderOwned
<1> QED
  BY <1>1 DEF Claimable, IsVacant

LEMMA CreateEffect ==
  ASSUME IInv, NEW k \in Signer, Create(k), NEW a \in Address
  PROVE  Effect(a)
<1>1. ASSUME AllocateKeypair(k) PROVE Effect(a)
  <2>1. k \in Address /\ Claimable(acct[k], TRUE)
        /\ \E r : r.discriminator = "Buffer" /\ Put(k, k, r)
    <3> DEFINE r == [Claimed(acct[k]) EXCEPT !.discriminator = "Buffer", !.authority = k]
    <3>1. k \in Address /\ Claimable(acct[k], TRUE) /\ Put(k, k, r)
      BY <1>1 DEF AllocateKeypair, Address
    <3>2. Claimed(acct[k]) \in AccountRecord
      BY <3>1, Contents, ClaimedType
    <3>3. r.discriminator = "Buffer"
      BY <3>2 DEF AccountRecord
    <3> QED
      BY <3>1, <3>3
  <2>2. CASE k # a
    BY <2>1, <2>2, UntouchedByPut DEF Effect
  <2>3. CASE k = a
    <3>1. acct[a].discriminator = "Empty"
      BY <2>1, <2>3, ClaimableIsEmpty
    <3>2. acct'[a].discriminator = "Buffer" /\ signer' = a
      BY <2>1, <2>3 DEF Put, Commit, IInv, TypeOK
    <3>3. acct[a].owner = "self" => acct[a].head = HeaderLen
      BY <2>1, <2>3 DEF Claimable, IsVacant
    <3> QED
      BY <3>1, <3>2, <3>3 DEF Effect, Opened, IsMetadata
  <2> QED
    BY <2>2, <2>3
<1>2. ASSUME NEW p \in Program, NEW s \in Seed, NEW supplied \in BOOLEAN,
             AllocatePda(k, p, s, supplied)
      PROVE  Effect(a)
  <2>1. PICK canonical \in BOOLEAN :
          LET b == DerivedPda(canonical, p, k, s)
          IN  /\ Claimable(acct[b], FALSE)
              /\ Put(k, b, [Claimed(acct[b]) EXCEPT !.discriminator = "Buffer",
                                                    !.authority = k,
                                                    !.program = p,
                                                    !.canonical = canonical,
                                                    !.seed = s])
    BY <1>2 DEF AllocatePda, IsProgramAuthority
  <2> DEFINE b == DerivedPda(canonical, p, k, s)
             r == [Claimed(acct[b]) EXCEPT !.discriminator = "Buffer",
                                           !.authority = k,
                                           !.program = p,
                                           !.canonical = canonical,
                                           !.seed = s]
  <2>2. b \in Address /\ b \notin BufferKey
    BY DerivedType, PdaAssumption, KeyAssumption DEF DerivedPda, Pda
  <2>3. Claimable(acct[b], FALSE) /\ Put(k, b, r)
    BY <2>1
  <2>4. r.discriminator = "Buffer"
    <3>1. Claimed(acct[b]) \in AccountRecord
      BY <2>2, <2>3, Contents, ClaimedType
    <3> QED
      BY <3>1 DEF AccountRecord
  <2>5. acct[b].discriminator = "Empty"
    BY <2>2, <2>3, ClaimableIsEmpty
  <2>6. acct[b].owner # "self"
    BY <2>2, <2>5, Contents DEF WellFormed, HeaderOwned
  <2> HIDE DEF b, r
  <2>7. CASE b # a
    BY <2>2, <2>3, <2>7, UntouchedByPut DEF Effect
  <2>8. CASE b = a
    <3>1. acct'[a] = r
      BY <2>3, <2>8 DEF Put, Commit, IInv, TypeOK
    <3> QED
      BY <2>4, <2>5, <2>6, <2>8, <3>1 DEF Effect, Opened, IsMetadata
  <2> QED
    BY <2>7, <2>8
<1>3. ASSUME NEW p \in Program, NEW s \in Seed, NEW supplied \in BOOLEAN,
             NEW codec \in Codec, NEW source \in DataSource,
             NEW payload \in Payload \cup {<<>>},
             Initialize(k, p, s, supplied, codec, source, payload)
      PROVE  Effect(a)
  <2>1. PICK canonical \in BOOLEAN :
          LET m    == DerivedPda(canonical, p, k, s)
              body == IF IsVacant(acct[m]) THEN payload ELSE acct[m].body
          IN  /\ canonical \in IsProgramAuthority(p, supplied, k)
              /\ ValidBuffer(acct[m]) \/ IsVacant(acct[m])
              /\ Put(k, m, MetadataHeader([acct[m] EXCEPT !.body = body],
                                          k, p, s, canonical, codec, source))
    BY <1>3 DEF Initialize, IsProgramAuthority
  <2> DEFINE m    == DerivedPda(canonical, p, k, s)
             body == IF IsVacant(acct[m]) THEN payload ELSE acct[m].body
             r    == [acct[m] EXCEPT !.body = body]
             h    == MetadataHeader(r, k, p, s, canonical, codec, source)
  <2>2. m \in Address /\ acct[m] \in AccountRecord /\ WellFormed(m, acct[m])
    BY DerivedType, Contents
  <2>3. Put(k, m, h) /\ (ValidBuffer(acct[m]) \/ IsVacant(acct[m]))
    BY <2>1
  <2>4. canonical => SpeaksFor(k, p)
    <3>1. prog[p] \in ProgramRecord
      BY DEF IInv, TypeOK
    <3> QED
      BY <2>1, <3>1 DEF IsProgramAuthority, SpeaksFor, Upgradeable, Executable
  <2>5. IsBuffer(acct[m]) => body = acct[m].body
    BY <2>2, <2>3 DEF WellFormed, HeaderOwned, IsVacant, IsBuffer
  <2>6. /\ h.discriminator = "Metadata" /\ h.program = p /\ h.seed = s
        /\ h.canonical = canonical /\ h.body = body
    <3> HIDE DEF m, body
    <3> QED
      BY <2>2 DEF MetadataHeader, AccountRecord
  <2>7. CASE m # a
    <3> HIDE DEF m, h
    <3> QED
      BY <2>2, <2>3, <2>7, UntouchedByPut DEF Effect
  <2>8. CASE m = a
    <3>1. acct'[a] = h /\ signer' = k
      BY <2>2, <2>3, <2>8 DEF Put, Commit, IInv, TypeOK
    <3>2. a = DerivedPda(canonical, p, k, s)
      BY <2>8
    <3> HIDE DEF m, h, body
    <3>3. ProperlyInitialized(a)
      BY <2>4, <2>5, <2>6, <2>8, <3>1, <3>2 DEF ProperlyInitialized
    <3>4. IsBuffer(acct[a]) \/ acct[a].owner = "system"
      BY <2>3, <2>8 DEF ValidBuffer, IsVacant, IsBuffer
    <3> QED
      BY <2>6, <3>1, <3>3, <3>4 DEF Effect, Initialized, IsMetadata
  <2> QED
    BY <2>7, <2>8
<1> QED
  BY <1>1, <1>2, <1>3 DEF Create
\* Write, SetData, SetAuthority and SetImmutable rewrite the account they manage.
LEMMA FillEffect ==
  ASSUME IInv, NEW k \in Signer, NEW b \in Address, Fill(k, b) \/ Govern(k, b),
         NEW a \in Address
  PROVE  Effect(a)
<1>1. acct[b] \in AccountRecord
  BY Contents
<1>2. ASSUME NEW offset, NEW src, WriteBytes(k, b, offset, src)
      PROVE  Effect(a)
  <2>1. [acct[b] EXCEPT !.body = Overwrite(acct[b].body, offset, src)].discriminator
          = acct[b].discriminator
    BY <1>1 DEF AccountRecord
  <2> QED
    BY <1>2, <2>1, ManagedByPut DEF WriteBytes, MayManage, ValidAuthority
<1>3. ASSUME NEW codec, NEW source, NEW data, SetBytes(k, b, codec, source, data)
      PROVE  Effect(a)
  <2>1. [acct[b] EXCEPT !.codec = codec, !.dataSource = source, !.dataLength = Len(data),
                        !.body = data].discriminator = acct[b].discriminator
    BY <1>1 DEF AccountRecord
  <2> QED
    BY <1>3, <2>1, ManagedByPut DEF SetBytes, MayManage
<1>4. ASSUME NEW codec, SetCodec(k, b, codec)
      PROVE  Effect(a)
  <2>1. [acct[b] EXCEPT !.codec = codec].discriminator = acct[b].discriminator
    BY <1>1 DEF AccountRecord
  <2> QED
    BY <1>4, <2>1, ManagedByPut DEF SetCodec, MayManage
<1>5. ASSUME NEW new, SetBufferAuthority(k, b, new) \/ SetMetadataAuthority(k, b, new)
      PROVE  Effect(a)
  <2>1. [acct[b] EXCEPT !.authority = new].discriminator = acct[b].discriminator
    BY <1>1 DEF AccountRecord
  <2> QED
    BY <1>5, <2>1, ManagedByPut DEF SetBufferAuthority, SetMetadataAuthority, MayManage
<1>6. ASSUME SetImmutable(k, b)
      PROVE  Effect(a)
  <2>1. [acct[b] EXCEPT !.mutable = FALSE].discriminator = acct[b].discriminator
    BY <1>1 DEF AccountRecord
  <2> QED
    BY <1>6, <2>1, ManagedByPut DEF SetImmutable, MayManage
<1> QED
  BY <1>2, <1>3, <1>4, <1>5, <1>6
     DEF Fill, Govern, WriteData, WriteFromBuffer, SetData, SetDataFromBuffer

LEMMA ReshapeEffect ==
  ASSUME IInv, NEW k \in Signer, NEW b \in Address, Reshape(k, b), NEW a \in Address
  PROVE  Effect(a)
<1>1. acct[b] \in AccountRecord
  BY Contents
<1>2. ASSUME NEW n \in Extension, Extend(k, b, n)
      PROVE  Effect(a)
  <2>1. Resized(acct[b], Len(acct[b].body) + n).discriminator = acct[b].discriminator
    BY <1>1 DEF Resized, AccountRecord
  <2> QED
    BY <1>2, <2>1, ManagedByPut DEF Extend
<1>3. ASSUME NEW dest \in Address, Trim(k, b, dest)
      PROVE  Effect(a)
  <2> DEFINE n      == TrimmedLen(acct[b])
             min    == MinBalance(HeaderLen + n)
             amount == acct[b].lamports - min
             r      == [Resized(acct[b], n) EXCEPT !.lamports = min]
  <2>1. n \in Nat
    BY <1>1 DEF TrimmedLen, AccountRecord
  <2>2. HeaderLen + n \in 0 .. MaxLen
    BY <1>3, <2>1, LengthAssumption DEF Trim, Resizable
  <2>3. amount \in Nat
    BY <1>1, <1>3, <2>2, RentAssumption DEF Trim, AccountRecord
  <2>4. r.discriminator = acct[b].discriminator
    <3> HIDE DEF n, min
    <3> QED
      BY <1>1 DEF Resized, AccountRecord
  <2>5. PayOut(k, b, r, dest, amount) /\ MayManage(acct[b], k)
    BY <1>3 DEF Trim
  <2> HIDE DEF r, amount
  <2> QED
    BY <2>3, <2>4, <2>5, ManagedByPayOut
<1>4. ASSUME NEW dest \in Address, Close(k, b, dest)
      PROVE  Effect(a)
  <2>1. acct[b].lamports \in Nat /\ Vacant(0).discriminator = "Empty"
    BY <1>1 DEF AccountRecord, Vacant, Zeroed
  <2> QED
    BY <1>4, <2>1, ManagedByPayOut DEF Close
<1> QED
  BY <1>2, <1>3, <1>4 DEF Reshape

LEMMA SystemStepEffect ==
  ASSUME IInv, NEW k \in Signer, SystemStep(k), NEW a \in Address
  PROVE  Effect(a)
<1>1. ASSUME NEW to \in Address, NEW n \in Transfers, Transfer(k, to, n)
      PROVE  Effect(a)
  <2> DEFINE debited == [acct[k] EXCEPT !.lamports = @ - n]
  <2>1. k \in Address /\ k # to /\ n \in Nat /\ IsVacant(acct[k])
    BY <1>1, InputAssumption DEF Transfer, Address
  <2>2. acct[a] \in AccountRecord /\ acct[k] \in AccountRecord /\ WellFormed(k, acct[k])
    BY <2>1, Contents
  <2>3. /\ a = k => acct'[a] = debited
        /\ a = to => acct'[a] = [acct[a] EXCEPT !.lamports = @ + n]
        /\ a # k /\ a # to => acct'[a] = acct[a]
    BY <1>1, <2>1 DEF Transfer, Commit, IInv, TypeOK
  <2>4. CASE a = k
    <3>1. acct[k].discriminator = "Empty" /\ acct[k].owner = "system"
      BY <2>1, <2>2 DEF WellFormed, HeaderOwned, IsVacant
    <3>2. debited.discriminator = "Empty"
      BY <2>2, <3>1 DEF AccountRecord
    <3> QED
      BY <2>3, <2>4, <3>1, <3>2 DEF Effect, Opened, IsMetadata
  <2>5. CASE a # k
    <3>1. OnlyCredited(a)
      BY <2>1, <2>2, <2>3, <2>5 DEF OnlyCredited, AccountRecord
    <3> QED
      BY <3>1 DEF Effect
  <2> QED
    BY <2>4, <2>5
<1>2. ASSUME NEW space \in Space, NEW owner \in {"system", "self"},
             SystemCreate(k, space, owner)
      PROVE  Effect(a)
  <2>1. /\ k \in Address /\ IsVacant(acct[k])
        /\ \E r : r.discriminator = "Empty" /\ Put(k, k, r)
    BY <1>2 DEF SystemCreate, Address, Zeroed
  <2>2. CASE k # a
    BY <2>1, <2>2, UntouchedByPut DEF Effect
  <2>3. CASE k = a
    <3>1. acct[a].discriminator = "Empty" /\ acct[a].owner = "system"
      BY <2>1, <2>3, Contents DEF WellFormed, HeaderOwned, IsVacant
    <3>2. acct'[a].discriminator = "Empty"
      BY <2>1, <2>3 DEF Put, Commit, IInv, TypeOK
    <3> QED
      BY <3>1, <3>2 DEF Effect, Opened, IsMetadata
  <2> QED
    BY <2>2, <2>3
<1> QED
  BY <1>1, <1>2 DEF SystemStep

LEMMA StepEffect ==
  ASSUME IInv, Next, NEW a \in Address
  PROVE  Effect(a)
<1>1. CASE LoaderStep
  <2>1. acct' = acct /\ acct[a] \in AccountRecord
    BY <1>1, Contents DEF LoaderStep, Deploy, SetUpgradeAuthority, CloseProgram, SetProgram
  <2> QED
    BY <2>1 DEF Effect, OnlyCredited, AccountRecord
<1> QED
  BY <1>1, CreateEffect, FillEffect, ReshapeEffect, SystemStepEffect DEF Next

\* Nobody may manage immutable metadata, and only who may manage it changes it.
LEMMA ImmutableIsKept ==
  ASSUME IInv, Next, NEW a \in Address, IsMetadata(acct[a]), ~acct[a].mutable
  PROVE  OnlyCredited(a)
<1>1. acct[a].owner = "self"
  BY Contents DEF WellFormed, HeaderOwned, IsMetadata
<1>2. ~MayManage(acct[a], signer')
  BY DEF MayManage, ValidBuffer, ValidMetadata, IsMetadata
<1>3. Effect(a)
  BY StepEffect
<1> QED
  BY <1>1, <1>2, <1>3 DEF Effect, Managed, Opened, Initialized, IsMetadata, IsBuffer

\* Immutable metadata is never changed, closed or drained: nobody manages it, and it
\* is neither empty, nor a buffer, nor the system's.
THEOREM ImmutabilityLasts == Spec => ImmutableForever
<1> DEFINE Kept == \A a \in Address :
                     IsMetadata(acct[a]) /\ ~acct[a].mutable => OnlyCredited(a)
<1>1. IInv /\ [Next]_vars => [Kept]_vars
  BY ImmutableIsKept
<1> QED
  BY <1>1, Invariance, PTL DEF Spec, ImmutableForever

\* Whoever manages an account is its authority or speaks for its program.
LEMMA ManagerIsAuthorized ==
  ASSUME IInv, NEW r, NEW k, MayManage(r, k)
  PROVE  r.authority = k \/ (r.canonical /\ SpeaksFor(k, r.program))
<1>1. CASE r.authority = k
  BY <1>1
<1>2. CASE r.canonical /\ r.program \in Program
           /\ TRUE \in IsProgramAuthority(r.program, TRUE, k)
  <2>1. prog[r.program] \in ProgramRecord
    BY <1>2 DEF IInv, TypeOK
  <2> QED
    BY <1>2, <2>1 DEF IsProgramAuthority, SpeaksFor, Upgradeable, Executable
<1> QED
  BY <1>1, <1>2 DEF MayManage, ValidAuthority

\* Nothing the program owns changes without its authority's signature.
THEOREM OnlyAuthorizedChanges == Spec => ChangesAuthorized
<1> DEFINE Kept == \A a \in Address :
                     acct[a].owner = "self" => OnlyCredited(a) \/ ChangeAuthorized(a)
<1>1. ASSUME IInv, Next PROVE Kept
  <2> SUFFICES ASSUME NEW a \in Address, acct[a].owner = "self", ~OnlyCredited(a)
               PROVE  ChangeAuthorized(a)
    OBVIOUS
  <2>1. CASE Managed(a)
    BY <1>1, <2>1, ManagerIsAuthorized DEF Managed, ChangeAuthorized
  <2>2. CASE Opened(a)
    BY <2>2 DEF Opened, ChangeAuthorized
  <2>3. CASE Initialized(a)
    BY <2>3 DEF Initialized, ChangeAuthorized
  <2> QED
    BY <1>1, <2>1, <2>2, <2>3, StepEffect DEF Effect
<1>2. IInv /\ [Next]_vars => [Kept]_vars
  BY <1>1
<1> QED
  BY <1>2, Invariance, PTL DEF Spec, ChangesAuthorized

\* Only the deriving authority makes metadata, out of exactly what the buffer holds.
THEOREM OnlyDeriverEverInitializes == Spec => OnlyDeriverInitializes
<1> DEFINE Kept == \A a \in Address :
                     ~IsMetadata(acct[a]) /\ IsMetadata(acct'[a]) => ProperlyInitialized(a)
<1>1. ASSUME IInv, Next PROVE Kept
  <2> SUFFICES ASSUME NEW a \in Address, ~IsMetadata(acct[a]), IsMetadata(acct'[a])
               PROVE  ProperlyInitialized(a)
    OBVIOUS
  <2>1. ~OnlyCredited(a)
    <3>1. acct[a] \in AccountRecord
      BY <1>1, Contents
    <3> QED
      BY <3>1 DEF OnlyCredited, AccountRecord, IsMetadata
  <2> QED
    BY <1>1, <2>1, StepEffect DEF Effect, Managed, Opened, Initialized
<1>2. IInv /\ [Next]_vars => [Kept]_vars
  BY <1>1
<1> QED
  BY <1>2, Invariance, PTL DEF Spec, OnlyDeriverInitializes

\* Only a signer's transaction touches accounts.
LEMMA SignedByNext ==
  ASSUME IInv, Next
  PROVE  signer' \in Signer \/ acct' = acct
<1>1. CASE LoaderStep
  BY <1>1 DEF LoaderStep, Deploy, SetUpgradeAuthority, CloseProgram, SetProgram
<1>2. ASSUME NEW k \in Signer, Create(k) PROVE signer' = k
  <2>1. ASSUME NEW a, NEW r, Put(k, a, r) PROVE signer' = k
    BY <2>1 DEF Put, Commit
  <2>2. CASE AllocateKeypair(k)
    BY <2>1, <2>2 DEF AllocateKeypair
  <2>3. ASSUME NEW p, NEW s, NEW supplied, AllocatePda(k, p, s, supplied)
        PROVE  signer' = k
    BY <2>1, <2>3 DEF AllocatePda
  <2>4. ASSUME NEW p, NEW s, NEW supplied, NEW codec, NEW source, NEW payload,
               Initialize(k, p, s, supplied, codec, source, payload)
        PROVE  signer' = k
    BY <2>1, <2>4 DEF Initialize
  <2> QED
    BY <1>2, <2>2, <2>3, <2>4 DEF Create
<1>3. ASSUME NEW k \in Signer, NEW a \in Address, Fill(k, a) PROVE signer' = k
  BY <1>3 DEF Fill, WriteData, WriteFromBuffer, WriteBytes, SetCodec, SetData,
              SetDataFromBuffer, SetBytes, Put, Commit
<1>4. ASSUME NEW k \in Signer, NEW a \in Address, Govern(k, a) PROVE signer' = k
  BY <1>4 DEF Govern, SetBufferAuthority, SetMetadataAuthority, SetImmutable, Put, Commit
<1>5. ASSUME NEW k \in Signer, NEW a \in Address, Reshape(k, a) PROVE signer' = k
  BY <1>5 DEF Reshape, Extend, Trim, Close, PayOut, Put, Commit
<1>6. ASSUME NEW k \in Signer, SystemStep(k) PROVE signer' = k
  BY <1>6 DEF SystemStep, Transfer, SystemCreate, Put, Commit
<1> QED
  BY <1>1, <1>2, <1>3, <1>4, <1>5, <1>6 DEF Next

\* Metadata that has lost both its authorities is beyond reach: nobody manages it.
THEOREM OrphansAreFrozen == Spec => OrphanIsFrozen
<1> DEFINE Kept == \A a \in Address :
                     /\ IsMetadata(acct[a]) /\ acct[a].canonical /\ acct[a].authority = None
                     /\ prog[acct[a].program].kind \in {"live", "closed"}
                     /\ prog[acct[a].program].upgrade = None
                     => OnlyCredited(a)
<1>1. ASSUME IInv, Next PROVE Kept
  <2> SUFFICES ASSUME NEW a \in Address, ~OnlyCredited(a),
                      IsMetadata(acct[a]), acct[a].canonical, acct[a].authority = None,
                      prog[acct[a].program].kind \in {"live", "closed"},
                      prog[acct[a].program].upgrade = None
               PROVE  FALSE
    OBVIOUS
  <2>1. acct[a].owner = "self"
    BY <1>1, Contents DEF WellFormed, HeaderOwned, IsMetadata
  <2>2. ~Opened(a) /\ ~Initialized(a)
    BY <2>1 DEF Opened, Initialized, IsMetadata, IsBuffer
  <2>3. Managed(a)
    BY <1>1, <2>2, StepEffect DEF Effect
  <2>4. signer' \in Signer \/ acct' = acct
    BY <1>1, SignedByNext
  <2>5. acct' = acct => OnlyCredited(a)
    BY <1>1, Contents DEF OnlyCredited, AccountRecord
  <2>6. signer' # None
    BY <2>4, <2>5, KeyAssumption
  <2> QED
    BY <1>1, <2>3, <2>6, ManagerIsAuthorized DEF Managed, SpeaksFor
<1>2. IInv /\ [Next]_vars => [Kept]_vars
  BY <1>1
<1> QED
  BY <1>2, Invariance, PTL DEF Spec, OrphanIsFrozen

\* An account too short for a header is never used: who manages one has found a header
\* in it, and who opens one found it long enough.
THEOREM TooShortStaysStranded == Spec => TooShortIsStranded
<1> DEFINE Kept == \A a \in Address :
                     acct[a].owner = "self" /\ acct[a].head < HeaderLen => OnlyCredited(a)
<1>1. ASSUME IInv, Next PROVE Kept
  <2> SUFFICES ASSUME NEW a \in Address, acct[a].owner = "self", acct[a].head < HeaderLen
               PROVE  OnlyCredited(a)
    OBVIOUS
  <2>1. acct[a].head # HeaderLen
    BY LengthAssumption
  <2>2. acct[a].discriminator = "Empty"
    BY <1>1, <2>1, Contents DEF WellFormed, HeaderOwned
  <2>3. ~Managed(a) /\ ~Opened(a) /\ ~Initialized(a)
    BY <2>1, <2>2 DEF Managed, MayManage, ValidBuffer, ValidMetadata, Opened, Initialized,
                      IsBuffer
  <2> QED
    BY <1>1, <2>3, StepEffect DEF Effect
<1>2. IInv /\ [Next]_vars => [Kept]_vars
  BY <1>1
<1> QED
  BY <1>2, Invariance, PTL DEF Spec, TooShortIsStranded
===============================================================================
