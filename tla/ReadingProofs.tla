------------------------------ MODULE ReadingProofs ------------------------------
(***************************************************************************)
(* Readers can read whatever the program has written.  That takes more     *)
(* than the program's own invariant: an account with a header is funded,   *)
(* so that the RPC node knows it, and no longer than an account may be, so *)
(* that there is a rent to fund it with; and whatever follows the declared *)
(* data is zero filling, so that it does not spoil text.                   *)
(***************************************************************************)
EXTENDS Reading, ProgramMetadataProofs

Sized == \A a \in Address : DataLen(acct[a]) <= MaxLen
\* What follows the data that metadata declares is zero.
Tidy(r) ==
  r.discriminator = "Metadata" =>
    \A i \in DOMAIN r.body : i > r.dataLength => r.body[i] = Zero

Tidied == \A a \in Address : Tidy(acct[a])

Funded == \A a \in Address : acct[a].discriminator # "Empty" => Exists(a)

\* Every account that a transaction changes is rent exempt after it.
Paid == \A a \in Address : acct'[a] = acct[a] \/ RentExempt(acct'[a])

LEMMA FundedIfPaid ==
  ASSUME IInv', Sized', Funded, Paid
  PROVE  Funded'
<1> SUFFICES ASSUME NEW a \in Address, acct'[a].discriminator # "Empty"
             PROVE  acct'[a].lamports > 0
  BY DEF Funded, Exists
<1>1. acct'[a] \in AccountRecord /\ WellFormed(a, acct'[a])
  BY DEF IInv, TypeOK
<1>2. acct'[a].owner = "self"
  BY <1>1 DEF WellFormed, HeaderOwned
<1>3. DataLen(acct'[a]) \in 0 .. MaxLen
  BY <1>1, LengthAssumption DEF Sized, DataLen, AccountRecord
<1>4. CASE acct'[a] = acct[a]
  BY <1>4 DEF Funded, Exists
<1>5. CASE acct'[a].lamports >= MinBalance(DataLen(acct'[a]))
  <2>1. MinBalance(DataLen(acct'[a])) \in Nat \ {0}
    BY <1>3, RentAssumption
  <2> QED
    BY <1>1, <1>5, <2>1 DEF AccountRecord
<1> QED
  BY <1>2, <1>4, <1>5 DEF Paid, RentExempt, IsVacant

LEMMA PutPays ==
  ASSUME IInv, Sized, Tidied, NEW k, NEW a \in Address, NEW r, Put(k, a, r),
         DataLen(r) <= MaxLen, Tidy(r)
  PROVE  Sized' /\ Tidied' /\ Paid
<1>1. acct' = [acct EXCEPT ![a] = r] /\ DOMAIN acct = Address /\ RentExempt(acct'[a])
  BY DEF Put, Commit, IInv, TypeOK
<1>2. \A b \in Address : b # a => acct'[b] = acct[b]
  BY <1>1
<1>3. acct'[a] = r
  BY <1>1
<1> QED
  BY <1>1, <1>2, <1>3 DEF Sized, Tidied, Paid

\* A header is written into an account that is long enough for it.
LEMMA ClaimedSized ==
  ASSUME NEW r \in AccountRecord, DataLen(r) <= MaxLen
  PROVE  DataLen(Claimed(r)) <= MaxLen
<1> QED
  BY LengthAssumption DEF DataLen, Claimed, Zeroed, AccountRecord

LEMMA CreatePays ==
  ASSUME IInv, Sized, Tidied, NEW k \in Signer, Create(k)
  PROVE  Sized' /\ Tidied' /\ Paid
<1>1. CASE AllocateKeypair(k)
  <2> DEFINE r == [Claimed(acct[k]) EXCEPT !.discriminator = "Buffer", !.authority = k]
  <2>1. k \in Address /\ Put(k, k, r)
    BY <1>1 DEF AllocateKeypair, Address
  <2>2. DataLen(r) <= MaxLen
    <3>1. acct[k] \in AccountRecord /\ DataLen(Claimed(acct[k])) <= MaxLen
      BY <2>1, Contents, ClaimedSized DEF Sized
    <3>2. DataLen(r) = DataLen(Claimed(acct[k]))
      BY <3>1 DEF DataLen, Claimed, Zeroed, AccountRecord
    <3> QED
      BY <3>1, <3>2
  <2>3. Tidy(r)
    <3>1. acct[k] \in AccountRecord
      BY <2>1, Contents
    <3>2. r.discriminator = "Buffer"
      BY <3>1 DEF Claimed, Zeroed, AccountRecord
    <3> QED
      BY <3>2 DEF Tidy
  <2> HIDE DEF r
  <2> QED
    BY <2>1, <2>2, <2>3, PutPays
<1>2. ASSUME NEW p \in Program, NEW s \in Seed, NEW supplied \in BOOLEAN,
             AllocatePda(k, p, s, supplied)
      PROVE  Sized' /\ Tidied' /\ Paid
  <2>1. PICK canonical \in IsProgramAuthority(p, supplied, k) :
          LET b == DerivedPda(canonical, p, k, s)
          IN  Put(k, b, [Claimed(acct[b]) EXCEPT !.discriminator = "Buffer",
                                                 !.authority = k,
                                                 !.program = p,
                                                 !.canonical = canonical,
                                                 !.seed = s])
    BY <1>2 DEF AllocatePda
  <2> DEFINE b == DerivedPda(canonical, p, k, s)
             r == [Claimed(acct[b]) EXCEPT !.discriminator = "Buffer",
                                           !.authority = k,
                                           !.program = p,
                                           !.canonical = canonical,
                                           !.seed = s]
  <2>2. b \in Address
    BY DEF DerivedPda, Address, Pda
  <2>3. DataLen(r) <= MaxLen
    <3> HIDE DEF b
    <3>1. acct[b] \in AccountRecord /\ DataLen(Claimed(acct[b])) <= MaxLen
      BY <2>2, Contents, ClaimedSized DEF Sized
    <3>2. DataLen(r) = DataLen(Claimed(acct[b]))
      BY <3>1 DEF DataLen, Claimed, Zeroed, AccountRecord
    <3> QED
      BY <3>1, <3>2
  <2>4. Put(k, b, r)
    BY <2>1
  <2>5. Tidy(r)
    <3> HIDE DEF b
    <3>1. acct[b] \in AccountRecord
      BY <2>2, Contents
    <3>2. r.discriminator = "Buffer"
      BY <3>1 DEF Claimed, Zeroed, AccountRecord
    <3> QED
      BY <3>2 DEF Tidy
  <2> HIDE DEF b, r
  <2> QED
    BY <2>2, <2>3, <2>4, <2>5, PutPays
<1>3. ASSUME NEW p \in Program, NEW s \in Seed, NEW supplied \in BOOLEAN, NEW codec,
             NEW source, NEW payload \in Payload \cup {<<>>},
             Initialize(k, p, s, supplied, codec, source, payload)
      PROVE  Sized' /\ Tidied' /\ Paid
  <2>1. PICK canonical \in IsProgramAuthority(p, supplied, k) :
          LET m    == DerivedPda(canonical, p, k, s)
              body == IF IsVacant(acct[m]) THEN payload ELSE acct[m].body
          IN  /\ HeaderLen + Len(body) <= MaxLen
              /\ Put(k, m, MetadataHeader([acct[m] EXCEPT !.body = body],
                                          k, p, s, canonical, codec, source))
    BY <1>3 DEF Initialize
  <2> DEFINE m == DerivedPda(canonical, p, k, s)
             body == IF IsVacant(acct[m]) THEN payload ELSE acct[m].body
             r == MetadataHeader([acct[m] EXCEPT !.body = body],
                                 k, p, s, canonical, codec, source)
  <2>2. m \in Address
    BY DEF DerivedPda, Address, Pda
  <2>3. Put(k, m, r) /\ HeaderLen + Len(body) <= MaxLen
    BY <2>1
  <2>4. r.head = HeaderLen /\ r.body = body /\ r.dataLength = Len(body)
    <3>1. acct[m] \in AccountRecord
      BY <2>2, Contents
    <3> HIDE DEF m, body
    <3> QED
      BY <3>1 DEF MetadataHeader, AccountRecord
  <2>5. body \in Seq(Byte)
    <3> HIDE DEF m
    <3>1. acct[m].body \in Seq(Byte)
      BY <2>2, Contents DEF AccountRecord
    <3>2. payload \in Seq(Byte)
      <4>1. <<>> \in Seq(Byte) /\ Payload \subseteq Seq(Byte)
        BY InputAssumption
      <4> QED
        BY <4>1, Zenon
    <3> QED
      BY <3>1, <3>2, Zenon
  <2>6. DataLen(r) <= MaxLen /\ Tidy(r)
    <3> HIDE DEF m, body, r
    <3> QED
      BY <2>3, <2>4, <2>5 DEF DataLen, Tidy
  <2> HIDE DEF m, body, r
  <2> QED
    BY <2>2, <2>3, <2>6, PutPays
<1> QED
  BY <1>1, <1>2, <1>3 DEF Create

LEMMA FillPays ==
  ASSUME IInv, Sized, Tidied, NEW k \in Signer, NEW a \in Address, Fill(k, a)
  PROVE  Sized' /\ Tidied' /\ Paid
<1>0. acct[a] \in AccountRecord /\ DataLen(acct[a]) <= MaxLen /\ Tidy(acct[a])
  BY Contents DEF Sized, Tidied
<1>1. ASSUME NEW offset, NEW src, WriteBytes(k, a, offset, src) PROVE Sized' /\ Tidied' /\ Paid
  <2> DEFINE after == Overwrite(acct[a].body, offset, src)
             r == [acct[a] EXCEPT !.body = after]
  <2>1. /\ Put(k, a, r) /\ acct[a].head = HeaderLen
        /\ HeaderLen + Len(after) <= MaxLen /\ acct[a].discriminator = "Buffer"
    BY <1>1 DEF WriteBytes, Resizable, ValidBuffer
  <2>2. r.head = acct[a].head /\ r.body = after /\ r.discriminator = acct[a].discriminator
    <3> HIDE DEF after
    <3> QED
      BY <1>0 DEF AccountRecord
  <2> HIDE DEF after, r
  <2> QED
    BY <2>1, <2>2, PutPays DEF DataLen, Tidy
<1>2. ASSUME NEW codec, NEW source, NEW data \in Seq(Byte), SetBytes(k, a, codec, source, data)
      PROVE  Sized' /\ Tidied' /\ Paid
  <2> DEFINE r == [acct[a] EXCEPT !.codec = codec, !.dataSource = source,
                                  !.dataLength = Len(data), !.body = data]
  <2>1. /\ Put(k, a, r) /\ acct[a].head = HeaderLen
        /\ HeaderLen + Len(data) <= MaxLen
    BY <1>2 DEF SetBytes, Resizable, ValidMetadata
  <2>2. r.head = acct[a].head /\ r.body = data /\ r.dataLength = Len(data)
    BY <1>0 DEF AccountRecord
  <2> HIDE DEF r
  <2>3. Tidy(r)
    BY <2>2 DEF Tidy
  <2> QED
    BY <2>1, <2>2, <2>3, PutPays DEF DataLen
<1>3. ASSUME NEW codec, SetCodec(k, a, codec) PROVE Sized' /\ Tidied' /\ Paid
  <2> DEFINE r == [acct[a] EXCEPT !.codec = codec]
  <2>1. Put(k, a, r)
    BY <1>3 DEF SetCodec
  <2>2. /\ r.head = acct[a].head /\ r.body = acct[a].body
        /\ r.discriminator = acct[a].discriminator /\ r.dataLength = acct[a].dataLength
    BY <1>0 DEF AccountRecord
  <2> HIDE DEF r
  <2> QED
    BY <1>0, <2>1, <2>2, PutPays DEF DataLen, Tidy
<1>4. ASSUME NEW payload \in Payload PROVE payload \in Seq(Byte)
  BY InputAssumption
<1>5. ASSUME NEW b \in Address PROVE acct[b].body \in Seq(Byte)
  BY Contents DEF AccountRecord
<1> QED
  BY <1>1, <1>2, <1>3, <1>4, <1>5
     DEF Fill, WriteData, WriteFromBuffer, SetData, SetDataFromBuffer

LEMMA GovernPays ==
  ASSUME IInv, Sized, Tidied, NEW k \in Signer, NEW a \in Address, Govern(k, a)
  PROVE  Sized' /\ Tidied' /\ Paid
<1>0. acct[a] \in AccountRecord /\ DataLen(acct[a]) <= MaxLen /\ Tidy(acct[a])
  BY Contents DEF Sized, Tidied
<1>1. ASSUME NEW new,
             SetBufferAuthority(k, a, new) \/ SetMetadataAuthority(k, a, new)
      PROVE  Sized' /\ Tidied' /\ Paid
  <2> DEFINE r == [acct[a] EXCEPT !.authority = new]
  <2>1. Put(k, a, r)
    BY <1>1 DEF SetBufferAuthority, SetMetadataAuthority
  <2>2. /\ r.head = acct[a].head /\ r.body = acct[a].body
        /\ r.discriminator = acct[a].discriminator /\ r.dataLength = acct[a].dataLength
    BY <1>0 DEF AccountRecord
  <2> HIDE DEF r
  <2> QED
    BY <1>0, <2>1, <2>2, PutPays DEF DataLen, Tidy
<1>2. CASE SetImmutable(k, a)
  <2> DEFINE r == [acct[a] EXCEPT !.mutable = FALSE]
  <2>1. Put(k, a, r)
    BY <1>2 DEF SetImmutable
  <2>2. /\ r.head = acct[a].head /\ r.body = acct[a].body
        /\ r.discriminator = acct[a].discriminator /\ r.dataLength = acct[a].dataLength
    BY <1>0 DEF AccountRecord
  <2> HIDE DEF r
  <2> QED
    BY <1>0, <2>1, <2>2, PutPays DEF DataLen, Tidy
<1> QED
  BY <1>1, <1>2 DEF Govern

\* Resizing an account changes its body alone.
LEMMA ResizedSized ==
  ASSUME NEW r \in AccountRecord, NEW n \in Nat, r.head = HeaderLen, Resizable(r, n),
         Tidy(r)
  PROVE  DataLen(Resized(r, n)) <= MaxLen /\ Tidy(Resized(r, n))
<1> DEFINE body == Fit(r.body, n)
<1>1. Len(body) = n
  BY FitType DEF AccountRecord
<1>2. /\ Resized(r, n).head = r.head /\ Resized(r, n).body = body
      /\ Resized(r, n).discriminator = r.discriminator
      /\ Resized(r, n).dataLength = r.dataLength
  BY DEF Resized, AccountRecord
<1>3. \A i \in DOMAIN body : body[i] = IF i \in DOMAIN r.body THEN r.body[i] ELSE Zero
  BY DEF Fit
<1> HIDE DEF body
<1>4. Tidy(Resized(r, n))
  BY <1>2, <1>3 DEF Tidy
<1> QED
  BY <1>1, <1>2, <1>4 DEF DataLen, Resizable

LEMMA PayOutPays ==
  ASSUME IInv, Sized, Tidied, NEW k, NEW a \in Address, NEW dest \in Address, NEW r, NEW amount,
         DataLen(r) <= MaxLen, Tidy(r), PayOut(k, a, r, dest, amount)
  PROVE  Sized' /\ Tidied' /\ Paid
<1>1. /\ acct' = [acct EXCEPT ![dest].lamports = @ + amount, ![a] = r]
      /\ \A b \in {a, dest} : RentExempt(acct'[b])
      /\ DOMAIN acct = Address /\ acct[dest] \in AccountRecord
  BY Contents DEF PayOut, Commit, IInv, TypeOK
<1>2. acct'[a] = r /\ \A b \in Address \ {a, dest} : acct'[b] = acct[b]
  BY <1>1
<1>3. dest # a => /\ acct'[dest].head = acct[dest].head
                  /\ acct'[dest].body = acct[dest].body
                  /\ acct'[dest].discriminator = acct[dest].discriminator
                  /\ acct'[dest].dataLength = acct[dest].dataLength
  BY <1>1 DEF AccountRecord
<1>4. Sized'
  BY <1>2, <1>3 DEF Sized, DataLen
<1>5. Tidied'
  BY <1>2, <1>3 DEF Tidied, Tidy
<1> QED
  BY <1>1, <1>2, <1>4, <1>5 DEF Paid

LEMMA ReshapePays ==
  ASSUME IInv, Sized, Tidied, NEW k \in Signer, NEW a \in Address, Reshape(k, a)
  PROVE  Sized' /\ Tidied' /\ Paid
<1>0. /\ acct[a] \in AccountRecord /\ MayManage(acct[a], k) => acct[a].head = HeaderLen
      /\ Tidy(acct[a])
  BY Contents DEF MayManage, ValidBuffer, ValidMetadata, Tidied
<1>1. ASSUME NEW n \in Extension, Extend(k, a, n) PROVE Sized' /\ Tidied' /\ Paid
  <2> DEFINE m == Len(acct[a].body) + n
  <2>1. /\ Put(k, a, Resized(acct[a], m)) /\ Resizable(acct[a], m)
        /\ acct[a].head = HeaderLen /\ acct[a] \in AccountRecord
    BY <1>0, <1>1, Contents DEF Extend
  <2>2. m \in Nat
    BY <2>1, InputAssumption DEF AccountRecord
  <2> HIDE DEF m
  <2> QED
    BY <1>0, <2>1, <2>2, ResizedSized, PutPays
<1>2. ASSUME NEW dest \in Address, Trim(k, a, dest) PROVE Sized' /\ Tidied' /\ Paid
  <2> DEFINE n   == TrimmedLen(acct[a])
             min == MinBalance(HeaderLen + n)
             r   == [Resized(acct[a], n) EXCEPT !.lamports = min]
  <2>1. /\ Resizable(acct[a], n) /\ acct[a].head = HeaderLen /\ acct[a] \in AccountRecord
        /\ PayOut(k, a, r, dest, acct[a].lamports - min)
    BY <1>0, <1>2, Contents DEF Trim
  <2>2. n \in Nat
    BY <2>1 DEF TrimmedLen, AccountRecord
  <2>3. DataLen(Resized(acct[a], n)) <= MaxLen /\ Tidy(Resized(acct[a], n))
    <3> HIDE DEF n, r
    <3> QED
      BY <1>0, <2>1, <2>2, ResizedSized
  <2>4. DataLen(r) = DataLen(Resized(acct[a], n)) /\ (Tidy(Resized(acct[a], n)) => Tidy(r))
    <3> HIDE DEF n, min
    <3> QED
      BY <2>1 DEF Resized, DataLen, Tidy, AccountRecord
  <2> HIDE DEF n, min, r
  <2> QED
    BY <2>1, <2>3, <2>4, PayOutPays
<1>3. ASSUME NEW dest \in Address, Close(k, a, dest) PROVE Sized' /\ Tidied' /\ Paid
  <2>1. DataLen(Vacant(0)) <= MaxLen /\ Tidy(Vacant(0))
    BY LengthAssumption DEF DataLen, Vacant, Zeroed, Tidy
  <2> QED
    BY <1>3, <2>1, PayOutPays DEF Close
<1> QED
  BY <1>1, <1>2, <1>3 DEF Reshape

LEMMA SystemPays ==
  ASSUME IInv, Sized, Tidied, NEW k \in Signer, SystemStep(k)
  PROVE  Sized' /\ Tidied' /\ Paid
<1>1. ASSUME NEW to \in Address, NEW n, Transfer(k, to, n) PROVE Sized' /\ Tidied' /\ Paid
  <2>1. /\ k \in Address /\ to # k
        /\ acct' = [acct EXCEPT ![k].lamports = @ - n, ![to].lamports = @ + n]
        /\ \A b \in {k, to} : RentExempt(acct'[b])
    BY <1>1 DEF Transfer, Commit, Address
  <2>2. acct[k] \in AccountRecord /\ acct[to] \in AccountRecord /\ DOMAIN acct = Address
    BY <2>1, Contents DEF IInv, TypeOK
  <2>3. \A b \in {k, to} : /\ acct'[b].head = acct[b].head /\ acct'[b].body = acct[b].body
                            /\ acct'[b].discriminator = acct[b].discriminator
                            /\ acct'[b].dataLength = acct[b].dataLength
    BY <2>1, <2>2 DEF AccountRecord
  <2>4. \A b \in Address \ {k, to} : acct'[b] = acct[b]
    BY <2>1, <2>2
  <2>5. Sized'
    BY <2>3, <2>4 DEF Sized, DataLen
  <2>6. Tidied'
    BY <2>3, <2>4 DEF Tidied, Tidy
  <2> QED
    BY <2>1, <2>4, <2>5, <2>6 DEF Paid
<1>2. ASSUME NEW space \in Space, NEW owner, SystemCreate(k, space, owner)
      PROVE  Sized' /\ Tidied' /\ Paid
  <2> DEFINE h == IF space < HeaderLen THEN space ELSE HeaderLen
             body == Fit(<<>>, space - h)
             r == Zeroed(owner, acct[k].lamports, h, body)
  <2>1. k \in Address /\ Put(k, k, r)
    BY <1>2 DEF SystemCreate, Address
  <2>2. space \in 0 .. MaxLen /\ h \in Nat /\ space - h \in Nat
    BY InputAssumption, LengthAssumption
  <2>3. Len(body) = space - h
    <3>1. <<>> \in Seq(Byte)
      OBVIOUS
    <3> HIDE DEF h
    <3> QED
      BY <2>2, <3>1, FitType
  <2>4. r.head = h /\ r.body = body /\ r.discriminator = "Empty"
    BY DEF Zeroed
  <2>5. DataLen(r) <= MaxLen /\ Tidy(r)
    <3> HIDE DEF h, body, r
    <3> QED
      BY <2>2, <2>3, <2>4, LengthAssumption DEF DataLen, Tidy
  <2> HIDE DEF r
  <2> QED
    BY <2>1, <2>5, PutPays
<1> QED
  BY <1>1, <1>2 DEF SystemStep

\* The inductive invariant of this module.
RInv == IInv /\ Sized /\ Tidied /\ Funded

LEMMA InitReadable == Init => RInv
<1> SUFFICES ASSUME Init PROVE Sized /\ Tidied /\ Funded
  BY InitEstablishes DEF RInv
<1> SUFFICES ASSUME NEW a \in Address
             PROVE  DataLen(acct[a]) <= MaxLen /\ acct[a].discriminator = "Empty"
  BY DEF Sized, Tidied, Tidy, Funded
<1>1. \E n : acct[a] = Vacant(n)
  BY DEF Init
<1> QED
  BY <1>1, LengthAssumption DEF Vacant, Zeroed, DataLen

LEMMA StepReadable == RInv /\ [Next]_vars => RInv'
<1>1. ASSUME RInv, Next PROVE RInv'
  <2>1. IInv'
    BY <1>1, StepKeeps DEF RInv
  <2>2. Sized' /\ Tidied' /\ Paid
    <3>1. CASE LoaderStep
      <4>1. acct' = acct
        BY <3>1 DEF LoaderStep, Deploy, SetUpgradeAuthority, CloseProgram, SetProgram
      <4> QED
        BY <1>1, <4>1 DEF RInv, Sized, Tidied, Paid
    <3> QED
      BY <1>1, <3>1, CreatePays, FillPays, GovernPays, ReshapePays, SystemPays
         DEF RInv, Next
  <2> QED
    BY <1>1, <2>1, <2>2, FundedIfPaid DEF RInv
<1>2. ASSUME RInv, UNCHANGED vars PROVE RInv'
  BY <1>2, StutterKeeps DEF RInv, vars, Sized, Tidied, Funded, Exists
<1> QED
  BY <1>1, <1>2

-----------------------------------------------------------------------------
(* Readers.                                                                *)

\* What a decoder takes for data is the padding, n bytes of it, and the body: any first
\* part of the body is behind the padding.
LEMMA BehindPadding ==
  ASSUME NEW r \in AccountRecord, r.head = HeaderLen, NEW n \in 1 .. HeaderLen,
         NEW l \in 0 .. Len(r.body),
         NEW found, found.data = RestAfter(r, HeaderLen - n)
  PROVE  Behind(n, SubSeq(r.body, 1, l), found)
<1>1. n \in Nat /\ HeaderLen - (HeaderLen - n) = n /\ <<>> \in Seq(Byte)
  BY LengthAssumption
<1> DEFINE padding == Fit(<<>>, n)
<1>2. padding \in Seq(Byte) /\ Len(padding) = n
  BY <1>1, FitType
<1>3. found.data = padding \o r.body
  BY <1>1 DEF RestAfter
<1> DEFINE body == r.body
<1>4. body \in Seq(Byte) /\ l \in 0 .. Len(body)
  BY DEF AccountRecord
<1> HIDE DEF padding, body
<1>5. Len(SubSeq(body, 1, l)) = l
  BY <1>4
<1>6. SubSeq(padding \o body, n + 1, n + l) = SubSeq(body, 1, l)
  BY <1>1, <1>2, <1>4
<1> QED
  BY <1>3, <1>5, <1>6 DEF Behind, body

\* The data section is aligned if the account is.
LEMMA DataAligned ==
  ASSUME NEW base \in Nat, IsMultiple(base, ExternalAlign)
  PROVE  IsMultiple(base + HeaderLen, ExternalAlign)
<1>1. PICK i \in 0 .. base : base = i * ExternalAlign
  BY DEF IsMultiple
<1>2. PICK j \in 0 .. HeaderLen : HeaderLen = j * ExternalAlign
  BY AlignAssumption DEF IsMultiple
<1>3. ExternalAlign \in Nat /\ HeaderLen \in Nat
  BY AlignAssumption, LengthAssumption
<1>4. (i + j) * ExternalAlign = i * ExternalAlign + j * ExternalAlign
  BY <1>3
<1>5. i + j \in 0 .. base + HeaderLen
  BY <1>3
<1> QED
  BY <1>1, <1>2, <1>4, <1>5 DEF IsMultiple

\* Zero filling is text.
LEMMA SpoiltByNothing ==
  ASSUME NEW r \in AccountRecord, Tidy(r), r.discriminator = "Metadata",
         r.dataLength <= Len(r.body), IsText(Declared(r))
  PROVE  IsText(r.body)
<1> SUFFICES ASSUME NEW i \in DOMAIN r.body PROVE r.body[i] \in Letter
  BY DEF IsText
<1>1. r.body \in Seq(Byte) /\ r.dataLength \in Nat /\ i \in Nat \ {0}
  BY DEF AccountRecord
<1>2. CASE i > r.dataLength
  BY <1>2, LetterAssumption DEF Tidy
<1>3. CASE i <= r.dataLength
  <2>1. /\ i \in DOMAIN SubSeq(r.body, 1, r.dataLength)
        /\ SubSeq(r.body, 1, r.dataLength)[i] = r.body[i]
    BY <1>1, <1>3
  <2> QED
    BY <2>1 DEF IsText, Declared
<1> QED
  BY <1>1, <1>2, <1>3

\* What the three readers return of metadata.
LEMMA MetadataDecoded ==
  ASSUME RInv, NEW a \in MetadataAccounts
  PROVE  /\ Exists(a)
         /\ \A base \in Base :
              /\ acct[a].dataSource = "External" => IsMultiple(base, ExternalAlign)
              /\ acct[a].dataSource = "Url" => IsText(Declared(acct[a]))
              => \E m \in Read(acct[a], base) :
                   /\ m.header = acct[a]
                   /\ SubSeq(m.data, 1, acct[a].dataLength) = Declared(acct[a])
         /\ \E m : /\ DecodeMetadata(acct[a]) = {m}
                   /\ m.mutable = acct[a].mutable
                   /\ m.dataSource = acct[a].dataSource
                   /\ m.dataLength = acct[a].dataLength
                   /\ Behind(MetadataPadding, Declared(acct[a]), m)
<1> DEFINE r == acct[a]
<1>1. a \in Address /\ r.discriminator = "Metadata"
  BY DEF MetadataAccounts
<1>2. r \in AccountRecord /\ WellFormed(a, r) /\ Exists(a)
  BY <1>1, Contents DEF RInv, Funded
<1>3. /\ r.head = HeaderLen /\ r.dataLength <= Len(r.body)
      /\ r.dataSource = "External" => r.dataLength = ExternalLen
  BY <1>1, <1>2 DEF WellFormed, HeaderOwned, DataPresent, IsMetadata, ValidDataLength
<1>4. r.body \in Seq(Byte) /\ r.dataLength \in Nat
  BY <1>2 DEF AccountRecord
<1> HIDE DEF r
<1>5. ASSUME NEW base \in Base,
             r.dataSource = "External" => IsMultiple(base, ExternalAlign),
             r.dataSource = "Url" => IsText(Declared(r))
      PROVE  \E m \in Read(r, base) :
               m.header = r /\ SubSeq(m.data, 1, r.dataLength) = Declared(r)
  <2> DEFINE d == IF r.dataSource = "External" THEN SubSeq(r.body, 1, ExternalLen)
                                               ELSE r.body
  <2>1. r.dataSource = "External" =>
          Len(r.body) >= ExternalLen /\ IsMultiple(base + HeaderLen, ExternalAlign)
    BY <1>3, <1>5, DataAligned, AlignAssumption
  <2>2. r.dataSource = "Url" => IsText(r.body)
    BY <1>1, <1>2, <1>3, <1>5, SpoiltByNothing DEF RInv, Tidied, r
  <2>3. d \in DataOf(r.dataSource, r.body, base + HeaderLen)
    BY <2>1, <2>2 DEF DataOf
  <2>4. SubSeq(d, 1, r.dataLength) = Declared(r)
    <3>1. CASE r.dataSource = "External"
      <4>1. d = SubSeq(r.body, 1, r.dataLength)
        BY <1>3, <3>1
      <4>2. SubSeq(SubSeq(r.body, 1, r.dataLength), 1, r.dataLength)
              = SubSeq(r.body, 1, r.dataLength)
        BY <1>3, <1>4
      <4> QED
        BY <4>1, <4>2 DEF Declared
    <3>2. CASE r.dataSource # "External"
      BY <3>2 DEF Declared
    <3> QED
      BY <3>1, <3>2
  <2> HIDE DEF d
  <2>5. [header |-> r, data |-> d] \in Read(r, base)
    BY <1>3, <2>3 DEF Read
  <2> QED
    BY <2>4, <2>5
<1> DEFINE n == HeaderLen - MetadataPadding
           rest == RestAfter(r, n)
           m == [discriminator |-> r.discriminator, program |-> r.program,
                 authority |-> r.authority, mutable |-> r.mutable, codec |-> r.codec,
                 dataSource |-> r.dataSource, dataLength |-> r.dataLength, data |-> rest]
<1>6. r.head >= n
  BY <1>3, PaddingAssumption, LengthAssumption
<1>7. DecodeMetadata(r) = {m}
  <2> HIDE DEF rest
  <2>1. r.discriminator = "Metadata"
    BY <1>1 DEF r
  <2>2. DecodeMetadata(r) =
          {[discriminator |-> r.discriminator, program |-> r.program,
            authority |-> r.authority, mutable |-> r.mutable, codec |-> r.codec,
            dataSource |-> r.dataSource, dataLength |-> r.dataLength, data |-> d]
           : d \in {rest}}
    BY <1>6, <2>1 DEF DecodeMetadata, rest
  <2> QED
    BY <2>2
<1>8. Behind(MetadataPadding, Declared(r), m)
  <2>1. m.data = rest
    OBVIOUS
  <2> HIDE DEF m
  <2>2. r \in AccountRecord /\ r.dataLength \in 0 .. Len(r.body)
    BY <1>2, <1>3, <1>4 DEF r
  <2> QED
    BY <1>3, <2>1, <2>2, BehindPadding, PaddingAssumption DEF Declared
<1>9. /\ m.mutable = r.mutable /\ m.dataSource = r.dataSource
      /\ m.dataLength = r.dataLength
  OBVIOUS
<1> HIDE DEF m
<1>10. \E d : /\ DecodeMetadata(r) = {d} /\ d.mutable = r.mutable
              /\ d.dataSource = r.dataSource /\ d.dataLength = r.dataLength
              /\ Behind(MetadataPadding, Declared(r), d)
  BY <1>7, <1>8, <1>9
<1> QED
  BY <1>2, <1>5, <1>10 DEF r

LEMMA BufferDecoded ==
  ASSUME RInv, NEW a \in BufferAccounts
  PROVE  /\ Exists(a)
         /\ \E b : DecodeBuffer(acct[a]) = {b} /\ Behind(BufferPadding, acct[a].body, b)
<1> DEFINE r == acct[a]
<1>1. a \in Address /\ r.discriminator = "Buffer"
  BY DEF BufferAccounts
<1>2. r \in AccountRecord /\ WellFormed(a, r) /\ Exists(a)
  BY <1>1, Contents DEF RInv, Funded
<1>3. r.head = HeaderLen
  BY <1>1, <1>2 DEF WellFormed, HeaderOwned
<1> HIDE DEF r
<1> DEFINE rest == RestAfter(r, HeaderLen - BufferPadding)
           b == [discriminator |-> r.discriminator, program |-> r.program,
                 authority |-> r.authority,
                 canonical |-> IF r.discriminator = "Metadata" THEN r.mutable
                                                               ELSE r.canonical,
                 data |-> rest]
<1>4. DecodeBuffer(r) = {b}
  <2>1. r.head >= HeaderLen - BufferPadding
    BY <1>3, PaddingAssumption, LengthAssumption
  <2> HIDE DEF rest
  <2>2. DecodeBuffer(r) =
          {[discriminator |-> r.discriminator, program |-> r.program,
            authority |-> r.authority,
            canonical |-> IF r.discriminator = "Metadata" THEN r.mutable
                                                          ELSE r.canonical,
            data |-> d] : d \in {rest}}
    BY <2>1 DEF DecodeBuffer, rest
  <2> QED
    BY <2>2
<1>5. b.data = rest
  OBVIOUS
<1> HIDE DEF b
<1>6. r.body \in Seq(Byte) /\ SubSeq(r.body, 1, Len(r.body)) = r.body
      /\ Len(r.body) \in 0 .. Len(r.body)
  BY <1>2 DEF AccountRecord, r
<1>7. Behind(BufferPadding, SubSeq(r.body, 1, Len(r.body)), b)
  <2>1. r \in AccountRecord
    BY <1>2 DEF r
  <2> QED
    BY <1>3, <1>5, <1>6, <2>1, BehindPadding, PaddingAssumption
<1> QED
  BY <1>2, <1>4, <1>6, <1>7 DEF r

(* A fetch of accounts that can all be decoded succeeds, with what they    *)
(* decode to; missing ones are reported.                                   *)

LEMMA FetchMetadata ==
  ASSUME NEW as, \A a \in as : Exists(a) /\ \E m : DecodeMetadata(acct[a]) = {m}
  PROVE  \E found \in FetchAllMetadata(as) :
           \A a \in as : found[a] \in DecodeMetadata(acct[a])
<1> DEFINE all == UNION {DecodeMetadata(acct[a]) : a \in as}
           decoded(a) == CHOOSE m : DecodeMetadata(acct[a]) = {m}
<1>1. \A a \in as : DecodeMetadata(acct[a]) = {decoded(a)}
  OBVIOUS
<1>2. \A a \in as : DecodeMetadata(acct[a]) \subseteq all
  OBVIOUS
<1> HIDE DEF all, decoded
<1> DEFINE found == [a \in as |-> decoded(a)]
<1>3. \A a \in as : Exists(a) /\ found[a] \in DecodeMetadata(acct[a])
  BY <1>1
<1>4. found \in [as -> all]
  BY <1>1, <1>2
<1> HIDE DEF found
<1>5. found \in FetchAllMetadata(as)
  BY <1>3, <1>4 DEF all, FetchAllMetadata, FetchAll
<1> QED
  BY <1>3, <1>5

LEMMA FetchMaybeMetadata ==
  ASSUME NEW as, \A a \in as : Exists(a) => \E m : DecodeMetadata(acct[a]) = {m}
  PROVE  \E found \in FetchAllMaybeMetadata(as) :
           \A a \in as : Exists(a) => found[a] \in DecodeMetadata(acct[a])
<1> DEFINE all == UNION {DecodeMetadata(acct[a]) : a \in as}
           decoded(a) == CHOOSE m : DecodeMetadata(acct[a]) = {m}
<1>1. \A a \in as : Exists(a) => DecodeMetadata(acct[a]) = {decoded(a)}
  OBVIOUS
<1>2. \A a \in as : DecodeMetadata(acct[a]) \subseteq all
  OBVIOUS
<1> HIDE DEF all, decoded
<1> DEFINE found == [a \in as |-> IF Exists(a) THEN decoded(a) ELSE None]
<1>3. \A a \in as : IF Exists(a) THEN found[a] \in DecodeMetadata(acct[a]) ELSE found[a] = None
  BY <1>1
<1>4. found \in [as -> all \cup {None}]
  BY <1>1, <1>2
<1> HIDE DEF found
<1>5. found \in FetchAllMaybeMetadata(as)
  BY <1>3, <1>4 DEF all, FetchAllMaybeMetadata, FetchAllMaybe
<1> QED
  BY <1>3, <1>5

LEMMA FetchBuffer ==
  ASSUME NEW as, \A a \in as : Exists(a) /\ \E b : DecodeBuffer(acct[a]) = {b}
  PROVE  \E found \in FetchAllBuffer(as) :
           \A a \in as : found[a] \in DecodeBuffer(acct[a])
<1> DEFINE all == UNION {DecodeBuffer(acct[a]) : a \in as}
           decoded(a) == CHOOSE b : DecodeBuffer(acct[a]) = {b}
<1>1. \A a \in as : DecodeBuffer(acct[a]) = {decoded(a)}
  OBVIOUS
<1>2. \A a \in as : DecodeBuffer(acct[a]) \subseteq all
  OBVIOUS
<1> HIDE DEF all, decoded
<1> DEFINE found == [a \in as |-> decoded(a)]
<1>3. \A a \in as : Exists(a) /\ found[a] \in DecodeBuffer(acct[a])
  BY <1>1
<1>4. found \in [as -> all]
  BY <1>1, <1>2
<1> HIDE DEF found
<1>5. found \in FetchAllBuffer(as)
  BY <1>3, <1>4 DEF all, FetchAllBuffer, FetchAll
<1> QED
  BY <1>3, <1>5

LEMMA FetchMaybeBuffer ==
  ASSUME NEW as, \A a \in as : Exists(a) => \E b : DecodeBuffer(acct[a]) = {b}
  PROVE  \E found \in FetchAllMaybeBuffer(as) :
           \A a \in as : Exists(a) => found[a] \in DecodeBuffer(acct[a])
<1> DEFINE all == UNION {DecodeBuffer(acct[a]) : a \in as}
           decoded(a) == CHOOSE b : DecodeBuffer(acct[a]) = {b}
<1>1. \A a \in as : Exists(a) => DecodeBuffer(acct[a]) = {decoded(a)}
  OBVIOUS
<1>2. \A a \in as : DecodeBuffer(acct[a]) \subseteq all
  OBVIOUS
<1> HIDE DEF all, decoded
<1> DEFINE found == [a \in as |-> IF Exists(a) THEN decoded(a) ELSE None]
<1>3. \A a \in as : IF Exists(a) THEN found[a] \in DecodeBuffer(acct[a]) ELSE found[a] = None
  BY <1>1
<1>4. found \in [as -> all \cup {None}]
  BY <1>1, <1>2
<1> HIDE DEF found
<1>5. found \in FetchAllMaybeBuffer(as)
  BY <1>3, <1>4 DEF all, FetchAllMaybeBuffer, FetchAllMaybe
<1> QED
  BY <1>3, <1>5

LEMMA ReadableWhileFunded == RInv => MetadataReadable
<1> SUFFICES ASSUME RInv PROVE MetadataReadable
  OBVIOUS
<1>1. \A a \in MetadataAccounts, base \in Base :
        /\ acct[a].dataSource = "External" => IsMultiple(base, ExternalAlign)
        /\ acct[a].dataSource = "Url" => IsText(Declared(acct[a]))
        => \E m \in Read(acct[a], base) :
             m.header = acct[a] /\ SubSeq(m.data, 1, acct[a].dataLength) = Declared(acct[a])
  BY MetadataDecoded
<1>2. \E found \in FetchAllMetadata(MetadataAccounts) :
        \A a \in MetadataAccounts :
          /\ found[a].mutable = acct[a].mutable
          /\ found[a].dataSource = acct[a].dataSource
          /\ found[a].dataLength = acct[a].dataLength
          /\ Behind(MetadataPadding, Declared(acct[a]), found[a])
  <2>1. PICK found \in FetchAllMetadata(MetadataAccounts) :
          \A a \in MetadataAccounts : found[a] \in DecodeMetadata(acct[a])
    <3>1. \A a \in MetadataAccounts : Exists(a) /\ \E m : DecodeMetadata(acct[a]) = {m}
      BY MetadataDecoded
    <3> QED
      BY <3>1, FetchMetadata
  <2>2. ASSUME NEW a \in MetadataAccounts
        PROVE  /\ found[a].mutable = acct[a].mutable
               /\ found[a].dataSource = acct[a].dataSource
               /\ found[a].dataLength = acct[a].dataLength
               /\ Behind(MetadataPadding, Declared(acct[a]), found[a])
    <3>1. PICK d : /\ DecodeMetadata(acct[a]) = {d}
                   /\ d.mutable = acct[a].mutable
                   /\ d.dataSource = acct[a].dataSource
                   /\ d.dataLength = acct[a].dataLength
                   /\ Behind(MetadataPadding, Declared(acct[a]), d)
      BY MetadataDecoded
    <3>2. found[a] = d
      BY <2>1, <3>1
    <3> QED
      BY <3>1, <3>2
  <2> QED
    BY <2>2
<1>3. \E found \in FetchAllMaybeMetadata(MetadataAccounts \cup Missing) :
        \A a \in MetadataAccounts : Behind(MetadataPadding, Declared(acct[a]), found[a])
  <2>1. \A a \in MetadataAccounts \cup Missing :
          Exists(a) => \E m : DecodeMetadata(acct[a]) = {m}
    BY MetadataDecoded DEF Missing
  <2>2. PICK found \in FetchAllMaybeMetadata(MetadataAccounts \cup Missing) :
          \A a \in MetadataAccounts \cup Missing :
            Exists(a) => found[a] \in DecodeMetadata(acct[a])
    BY <2>1, FetchMaybeMetadata
  <2>3. ASSUME NEW a \in MetadataAccounts
        PROVE  Behind(MetadataPadding, Declared(acct[a]), found[a])
    <3>1. PICK d : /\ DecodeMetadata(acct[a]) = {d}
                   /\ Behind(MetadataPadding, Declared(acct[a]), d)
      BY MetadataDecoded
    <3>2. found[a] = d
      BY <2>2, <3>1, MetadataDecoded
    <3> QED
      BY <3>1, <3>2
  <2> QED
    BY <2>3
<1>4. \E found \in FetchAllBuffer(BufferAccounts) :
        \A a \in BufferAccounts : Behind(BufferPadding, acct[a].body, found[a])
  <2>1. PICK found \in FetchAllBuffer(BufferAccounts) :
          \A a \in BufferAccounts : found[a] \in DecodeBuffer(acct[a])
    <3>1. \A a \in BufferAccounts : Exists(a) /\ \E b : DecodeBuffer(acct[a]) = {b}
      BY BufferDecoded
    <3> QED
      BY <3>1, FetchBuffer
  <2> QED
    BY <2>1, BufferDecoded
<1>5. \E found \in FetchAllMaybeBuffer(BufferAccounts \cup Missing) :
        \A a \in BufferAccounts : Behind(BufferPadding, acct[a].body, found[a])
  <2>1. \A a \in BufferAccounts \cup Missing :
          Exists(a) => \E b : DecodeBuffer(acct[a]) = {b}
    BY BufferDecoded DEF Missing
  <2>2. PICK found \in FetchAllMaybeBuffer(BufferAccounts \cup Missing) :
          \A a \in BufferAccounts \cup Missing :
            Exists(a) => found[a] \in DecodeBuffer(acct[a])
    BY <2>1, FetchMaybeBuffer
  <2>3. ASSUME NEW a \in BufferAccounts
        PROVE  Behind(BufferPadding, acct[a].body, found[a])
    <3>1. PICK b : DecodeBuffer(acct[a]) = {b} /\ Behind(BufferPadding, acct[a].body, b)
      BY BufferDecoded
    <3>2. found[a] = b
      BY <2>2, <3>1, BufferDecoded
    <3> QED
      BY <3>1, <3>2
  <2> QED
    BY <2>3
<1> QED
  BY <1>1, <1>2, <1>3, <1>4, <1>5 DEF MetadataReadable

\* Whatever the program has done to them, in any order and with accounts and rents of
\* any size, the crate finds the declared data of all metadata whose bytes are aligned
\* and text where they have to be, and the Rust client finds it behind the header's
\* padding (state/mod.rs, state/data.rs, generated/accounts/*.rs).
THEOREM AlwaysReadable == Spec => []MetadataReadable
<1> QED
  BY InitReadable, StepReadable, ReadableWhileFunded, PTL DEF Spec

===============================================================================
