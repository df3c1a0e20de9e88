--------------------------- MODULE RefinementProofs ---------------------------
(***************************************************************************)
(* ProgramMetadata implements MetadataRegistry, for every value of the     *)
(* constants: each step changes the entry of at most one address, and in   *)
(* one of the ways the registry allows.                                    *)
(***************************************************************************)
EXTENDS ProgramMetadataRefinement, ProgramMetadataProofs

\* The step does not show at address a.
SameEntry(a) ==
  /\ IsMetadata(acct'[a]) <=> IsMetadata(acct[a])
  /\ IsMetadata(acct[a]) => EntryOf(acct'[a]) = EntryOf(acct[a])

LEMMA SlotsArePdas == Registry!Slot = Pda
BY DEF Registry!Slot, Registry!OfficialSlot, Registry!ThirdPartySlot, Pda,
       CanonicalPda, NonCanonicalPda

\* Lamports do not show.
LEMMA CreditedIsSame ==
  ASSUME IInv, NEW a \in Address, OnlyCredited(a)
  PROVE  SameEntry(a)
<1>1. acct[a] \in AccountRecord
  BY Contents
<1> QED
  BY <1>1 DEF OnlyCredited, SameEntry, IsMetadata, EntryOf, Published, AccountRecord

\* A step that shows at one address changes the entry of one slot.
LEMMA OneSlotChanges ==
  ASSUME NEW slot \in Pda, \A a \in Pda \ {slot} : SameEntry(a), UNCHANGED prog
  PROVE  Registry!OnlyAt(slot)
<1>1. ASSUME NEW a \in Pda \ {slot}
      PROVE  /\ a \in Listed' <=> a \in Listed
             /\ a \in Listed => EntryOf(acct'[a]) = EntryOf(acct[a])
  BY <1>1 DEF SameEntry, Listed
<1>2. [p \in Program |-> SpeakerOf(p)]' = [p \in Program |-> SpeakerOf(p)]
  BY DEF SpeakerOf
<1> QED
  BY <1>1, <1>2, SlotsArePdas DEF Registry!OnlyAt

\* A step that shows nowhere is a stuttering step of the registry.
LEMMA NothingShows ==
  ASSUME \A a \in Pda : SameEntry(a), UNCHANGED prog
  PROVE  UNCHANGED Registry!vars
<1>1. Listed' = Listed /\ \A a \in Listed : EntryOf(acct[a])' = EntryOf(acct[a])
  BY DEF SameEntry, Listed, EntryOf, Published
<1>2. [p \in Program |-> SpeakerOf(p)]' = [p \in Program |-> SpeakerOf(p)]
  BY DEF SpeakerOf
<1> QED
  BY <1>1, <1>2 DEF Registry!vars

\* The instructions that write one account leave all others as they were.
LEMMA PutShowsAtOne ==
  ASSUME IInv, NEW k \in Signer, NEW b \in Address, NEW r, Put(k, b, r)
  PROVE  /\ acct'[b] = r
         /\ \A a \in Address \ {b} : SameEntry(a)
         /\ UNCHANGED prog
<1>1. acct'[b] = r /\ UNCHANGED prog
  BY DEF Put, Commit, IInv, TypeOK
<1>2. ASSUME NEW a \in Address \ {b} PROVE SameEntry(a)
  BY <1>2, UntouchedByPut, CreditedIsSame
<1> QED
  BY <1>1, <1>2

LEMMA PutStutters ==
  ASSUME IInv, NEW k \in Signer, NEW b \in Address, NEW r, Put(k, b, r), SameEntry(b)
  PROVE  UNCHANGED Registry!vars
<1>1. Pda \subseteq Address
  BY DEF Address
<1> QED
  BY <1>1, PutShowsAtOne, NothingShows

-----------------------------------------------------------------------------
(* Who may act on a slot.                                                  *)

\* Metadata is at a slot, official exactly when it is canonical.
LEMMA SlotOfMetadata ==
  ASSUME IInv, NEW b \in Address, IsMetadata(acct[b])
  PROVE  /\ b \in Pda /\ b \in Listed /\ b \in Registry!Slot
         /\ acct[b].canonical => b \in Registry!OfficialSlot /\ b[1] = acct[b].program
         /\ b \in Registry!OfficialSlot => acct[b].canonical
<1> DEFINE r == acct[b]
<1>1. r \in AccountRecord /\ b \in Pda
      /\ b = DerivedPda(r.canonical, r.program, r.authority, r.seed)
  BY Contents DEF WellFormed, AtDerivedAddress
<1>2. b \in Listed /\ b \in Registry!Slot
  BY <1>1, SlotsArePdas DEF Listed
<1>3. ASSUME r.canonical PROVE b \in Registry!OfficialSlot /\ b[1] = r.program
  <2>1. b = <<r.program, r.seed>>
    BY <1>1, <1>3 DEF DerivedPda, CanonicalPda
  <2>2. b \in Program \X Seed
    BY <1>1, <2>1 DEF Pda, CanonicalPda, NonCanonicalPda
  <2> QED
    BY <2>1, <2>2 DEF Registry!OfficialSlot
<1>4. ASSUME ~r.canonical PROVE b \notin Registry!OfficialSlot
  <2>1. b = <<r.program, r.authority, r.seed>>
    BY <1>1, <1>4 DEF DerivedPda, NonCanonicalPda
  <2> QED
    BY <2>1 DEF Registry!OfficialSlot
<1> QED
  BY <1>1, <1>2, <1>3, <1>4 DEF AccountRecord

\* Whoever speaks for a program is its speaker.
LEMMA SpeakersSpeak ==
  ASSUME NEW k, NEW p \in Program, SpeaksFor(k, p)
  PROVE  SpeakerOf(p) = k
BY DEF SpeaksFor, SpeakerOf

\* Whoever passes the program's checks controls the entry.
LEMMA ManagerControls ==
  ASSUME IInv, NEW k \in Signer, NEW b \in Address, IsMetadata(acct[b]),
         MayManage(acct[b], k)
  PROVE  Registry!Controls(k, b)
<1>1. acct[b].authority = k \/ (acct[b].canonical /\ SpeaksFor(k, acct[b].program))
  BY ManagerIsAuthorized
<1>2. acct[b].mutable
  BY DEF MayManage, ValidBuffer, ValidMetadata, IsMetadata
<1>3. b \in Listed
  BY SlotOfMetadata
<1>4. CASE acct[b].authority = k
  BY <1>2, <1>3, <1>4 DEF Registry!Controls, EntryOf
<1>5. CASE acct[b].canonical /\ SpeaksFor(k, acct[b].program)
  <2>1. b \in Registry!OfficialSlot /\ b[1] = acct[b].program /\ b[1] \in Program
    BY <1>5, SlotOfMetadata DEF Registry!OfficialSlot
  <2>2. SpeakerOf(b[1]) = k
    BY <1>5, <2>1, SpeakersSpeak
  <2> QED
    BY <1>2, <1>3, <2>1, <2>2 DEF Registry!Controls, EntryOf
<1> QED
  BY <1>1, <1>4, <1>5

-----------------------------------------------------------------------------
(* What each instruction does to the registry.                             *)

RegistryStep == Registry!Next \/ UNCHANGED Registry!vars

\* An instruction that keeps metadata amends the entry.
LEMMA AmendsEntry ==
  ASSUME IInv, NEW k \in Signer, NEW b \in Address, NEW r, Put(k, b, r),
         IsMetadata(acct[b]), MayManage(acct[b], k), IsMetadata(r),
         NEW entries, EntryOf(r) \in entries
  PROVE  Registry!Amend(k, b, entries)
<1>1. b \in Listed /\ b \in Pda /\ Registry!Controls(k, b)
  BY SlotOfMetadata, ManagerControls
<1>2. acct'[b] = r /\ UNCHANGED prog /\ \A a \in Pda \ {b} : SameEntry(a)
  BY PutShowsAtOne DEF Address
<1>3. b \in Listed'
  BY <1>1, <1>2 DEF Listed
<1>4. Registry!OnlyAt(b)
  BY <1>1, <1>2, OneSlotChanges
<1>5. EntryOf(acct[b])' = EntryOf(r)
  BY <1>2 DEF EntryOf, Published
<1> QED
  BY <1>1, <1>3, <1>4, <1>5 DEF Registry!Amend

\* Entries are made of contents.
LEMMA PublishedType ==
  ASSUME NEW r \in AccountRecord
  PROVE  Published(r) \in PublishedContent
<1>1. Fit(r.body, r.dataLength) \in Seq(Byte)
  BY FitType DEF AccountRecord
<1> QED
  BY <1>1 DEF Published, PublishedContent, AccountRecord

\* New contents under the same keeper are a revision.
LEMMA RevisesEntry ==
  ASSUME IInv, NEW k \in Signer, NEW b \in Address, NEW r \in AccountRecord, Put(k, b, r),
         ValidMetadata(acct[b]), ValidAuthority(acct[b], k), IsMetadata(r),
         r.authority = acct[b].authority, r.mutable
  PROVE  RegistryStep
<1>1. IsMetadata(acct[b]) /\ MayManage(acct[b], k)
  BY DEF ValidMetadata, IsMetadata, MayManage
<1>2. b \in Listed /\ b \in Registry!Slot
  BY <1>1, SlotOfMetadata
<1>3. EntryOf(r) \in Registry!Entry(PublishedContent, {EntryOf(acct[b]).keeper}, FALSE)
  BY PublishedType DEF Registry!Entry, EntryOf
<1>4. Registry!Amend(k, b, Registry!Entry(PublishedContent, {EntryOf(acct[b]).keeper}, FALSE))
  BY <1>1, <1>3, AmendsEntry
<1>5. Registry!Revise(k, b)
  BY <1>2, <1>4 DEF Registry!Revise
<1> QED
  BY <1>2, <1>5 DEF RegistryStep, Registry!Next

LEMMA SetCodecRevises ==
  ASSUME IInv, NEW k \in Signer, NEW m \in Address, NEW codec \in Codec,
         SetCodec(k, m, codec)
  PROVE  RegistryStep
<1> DEFINE r == [acct[m] EXCEPT !.codec = codec]
<1>1. ValidMetadata(acct[m]) /\ ValidAuthority(acct[m], k) /\ Put(k, m, r)
  BY DEF SetCodec
<1>2. r \in AccountRecord /\ IsMetadata(r) /\ r.authority = acct[m].authority /\ r.mutable
  BY <1>1, Contents DEF AccountRecord, ValidMetadata, IsMetadata
<1> HIDE DEF r
<1> QED
  BY <1>1, <1>2, RevisesEntry

LEMMA SetBytesRevises ==
  ASSUME IInv, NEW k \in Signer, NEW m \in Address, NEW codec \in Codec,
         NEW source \in DataSource, NEW data \in Seq(Byte),
         SetBytes(k, m, codec, source, data)
  PROVE  RegistryStep
<1> DEFINE r == [acct[m] EXCEPT !.codec = codec, !.dataSource = source,
                                !.dataLength = Len(data), !.body = data]
<1>1. ValidMetadata(acct[m]) /\ ValidAuthority(acct[m], k) /\ Put(k, m, r)
  BY DEF SetBytes
<1>2. r \in AccountRecord /\ IsMetadata(r) /\ r.authority = acct[m].authority /\ r.mutable
  <2>1. Len(data) \in Nat
    OBVIOUS
  <2> QED
    BY <1>1, <2>1, Contents DEF AccountRecord, ValidMetadata, IsMetadata
<1> HIDE DEF r
<1> QED
  BY <1>1, <1>2, RevisesEntry

LEMMA SetMetadataAuthorityDelegates ==
  ASSUME IInv, NEW k \in Signer, NEW m \in Address, NEW new \in Signer \cup {None},
         SetMetadataAuthority(k, m, new)
  PROVE  RegistryStep
<1> DEFINE r       == [acct[m] EXCEPT !.authority = new]
           entries == Registry!Entry({EntryOf(acct[m]).content}, Signer \cup {None}, FALSE)
<1>1. /\ IsMetadata(acct[m]) /\ MayManage(acct[m], k)
      /\ acct[m].canonical /\ acct[m].mutable /\ Put(k, m, r)
  BY DEF SetMetadataAuthority, MayManage, ValidMetadata, IsMetadata
<1>2. IsMetadata(r) /\ EntryOf(r) \in entries
  <2>1. IsMetadata(r) /\ r.authority = new /\ r.mutable
        /\ Published(r) = Published(acct[m])
    BY <1>1, Contents DEF AccountRecord, IsMetadata, Published
  <2> HIDE DEF r
  <2> QED
    BY <2>1 DEF EntryOf, Registry!Entry
<1>3. m \in Listed /\ m \in Registry!Slot /\ m \in Registry!OfficialSlot
  BY <1>1, SlotOfMetadata
<1> HIDE DEF r
<1>4. Registry!Amend(k, m, entries)
  BY <1>1, <1>2, AmendsEntry
<1>5. Registry!Delegate(k, m)
  BY <1>3, <1>4 DEF Registry!Delegate
<1> QED
  BY <1>3, <1>5 DEF RegistryStep, Registry!Next

LEMMA SetImmutableFreezes ==
  ASSUME IInv, NEW k \in Signer, NEW m \in Address, SetImmutable(k, m)
  PROVE  RegistryStep
<1> DEFINE r       == [acct[m] EXCEPT !.mutable = FALSE]
           entries == Registry!Entry({EntryOf(acct[m]).content},
                                     {EntryOf(acct[m]).keeper}, TRUE)
<1>1. IsMetadata(acct[m]) /\ MayManage(acct[m], k) /\ Put(k, m, r)
  BY DEF SetImmutable, MayManage, ValidMetadata, IsMetadata
<1>2. IsMetadata(r) /\ EntryOf(r) \in entries
  <2>1. IsMetadata(r) /\ r.authority = acct[m].authority /\ ~r.mutable
        /\ Published(r) = Published(acct[m])
    BY <1>1, Contents DEF AccountRecord, IsMetadata, Published
  <2> HIDE DEF r
  <2> QED
    BY <2>1 DEF EntryOf, Registry!Entry
<1>3. m \in Listed /\ m \in Registry!Slot
  BY <1>1, SlotOfMetadata
<1> HIDE DEF r
<1>4. Registry!Amend(k, m, entries)
  BY <1>1, <1>2, AmendsEntry
<1>5. Registry!Freeze(k, m)
  BY <1>3, <1>4 DEF Registry!Freeze
<1> QED
  BY <1>3, <1>5 DEF RegistryStep, Registry!Next

\* The derived address is a slot of the registry that the signer may publish at.
LEMMA DeriverMayPublish ==
  ASSUME IInv, NEW k \in Signer, NEW p \in Program, NEW s \in Seed,
         NEW supplied \in BOOLEAN, NEW canonical \in IsProgramAuthority(p, supplied, k)
  PROVE  /\ DerivedPda(canonical, p, k, s) \in Registry!Slot
         /\ canonical <=> DerivedPda(canonical, p, k, s) \in Registry!OfficialSlot
         /\ Registry!MayPublish(k, DerivedPda(canonical, p, k, s))
<1> DEFINE m == DerivedPda(canonical, p, k, s)
<1>1. canonical \in BOOLEAN /\ m \in Registry!Slot
  BY DerivedType, SlotsArePdas DEF IsProgramAuthority
<1>2. CASE canonical
  <2>1. m = <<p, s>> /\ m \in Registry!OfficialSlot
    BY <1>2 DEF DerivedPda, CanonicalPda, Registry!OfficialSlot
  <2>2. SpeaksFor(k, p)
    <3>1. prog[p] \in ProgramRecord
      BY DEF IInv, TypeOK
    <3> QED
      BY <1>2, <3>1 DEF IsProgramAuthority, SpeaksFor, Upgradeable, Executable
  <2>3. SpeakerOf(m[1]) = k /\ m[1] \in Program
    BY <2>1, <2>2, SpeakersSpeak
  <2> QED
    BY <1>1, <1>2, <2>1, <2>3 DEF Registry!MayPublish
<1>3. CASE ~canonical
  <2>1. m = <<p, k, s>> /\ m \notin Registry!OfficialSlot
    BY <1>3 DEF DerivedPda, NonCanonicalPda, Registry!OfficialSlot
  <2> QED
    BY <1>1, <1>3, <2>1 DEF Registry!MayPublish
<1> QED
  BY <1>1, <1>2, <1>3

LEMMA InitializePublishes ==
  ASSUME IInv, NEW k \in Signer, NEW p \in Program, NEW s \in Seed,
         NEW supplied \in BOOLEAN, NEW codec \in Codec, NEW source \in DataSource,
         NEW payload \in Payload \cup {<<>>},
         Initialize(k, p, s, supplied, codec, source, payload)
  PROVE  RegistryStep
<1>1. PICK canonical \in IsProgramAuthority(p, supplied, k) :
        LET m    == DerivedPda(canonical, p, k, s)
            body == IF IsVacant(acct[m]) THEN payload ELSE acct[m].body
        IN  /\ ValidBuffer(acct[m]) \/ IsVacant(acct[m])
            /\ Put(k, m, MetadataHeader([acct[m] EXCEPT !.body = body],
                                        k, p, s, canonical, codec, source))
  BY DEF Initialize
<1> DEFINE m    == DerivedPda(canonical, p, k, s)
           body == IF IsVacant(acct[m]) THEN payload ELSE acct[m].body
           r    == [acct[m] EXCEPT !.body = body]
           h    == MetadataHeader(r, k, p, s, canonical, codec, source)
<1>2. canonical \in BOOLEAN /\ m \in Address /\ m \in Pda
  BY DerivedType DEF IsProgramAuthority
<1>3. Put(k, m, h) /\ (ValidBuffer(acct[m]) \/ IsVacant(acct[m]))
  BY <1>1
<1>4. acct[m] \in AccountRecord /\ ~IsMetadata(acct[m])
  <2>1. acct[m] \in AccountRecord /\ WellFormed(m, acct[m])
    BY <1>2, Contents
  <2> QED
    BY <1>3, <2>1 DEF WellFormed, HeaderOwned, ValidBuffer, IsVacant, IsMetadata
<1>5. m \notin Listed
  BY <1>4 DEF Listed
<1>6. /\ m \in Registry!Slot /\ Registry!MayPublish(k, m)
      /\ canonical <=> m \in Registry!OfficialSlot
  BY DeriverMayPublish
<1>7. /\ IsMetadata(h) /\ h.authority = IF canonical THEN None ELSE k
      /\ h.mutable /\ Published(h) \in PublishedContent
  <2>1. body \in Seq(Byte)
    <3> HIDE DEF m
    <3>1. CASE payload \in Payload
      BY <1>4, <3>1, InputAssumption DEF AccountRecord
    <3>2. CASE payload = <<>>
      BY <1>4, <3>2 DEF AccountRecord
    <3> QED
      BY <3>1, <3>2
  <2>2. r \in AccountRecord
    <3> HIDE DEF m, body
    <3> QED
      BY <1>4, <2>1 DEF AccountRecord
  <2> HIDE DEF m, r, body
  <2>3. Len(r.body) \in Nat /\ r.body \in Seq(Byte)
    BY <2>2 DEF AccountRecord
  <2>4. Fit(r.body, Len(r.body)) \in Seq(Byte)
    BY <2>3, FitType
  <2>5. /\ h.discriminator = "Metadata" /\ h.mutable /\ h.codec = codec
        /\ h.authority = IF canonical THEN None ELSE k
        /\ h.dataSource = source /\ h.body = r.body /\ h.dataLength = Len(r.body)
    BY <2>2 DEF MetadataHeader, AccountRecord
  <2> HIDE DEF h
  <2> QED
    BY <2>4, <2>5 DEF IsMetadata, Published, PublishedContent
<1> HIDE DEF m, h, r, body
<1>8. acct'[m] = h /\ UNCHANGED prog /\ \A a \in Pda \ {m} : SameEntry(a)
  BY <1>2, <1>3, PutShowsAtOne DEF Address
<1>9. m \in Listed' /\ Registry!OnlyAt(m)
  BY <1>2, <1>7, <1>8, OneSlotChanges DEF Listed
<1>10. EntryOf(acct[m])' \in Registry!Entry(PublishedContent,
         {IF m \in Registry!OfficialSlot THEN None ELSE k}, FALSE)
  <2>1. EntryOf(acct[m])' = EntryOf(h)
    BY <1>8 DEF EntryOf, Published
  <2>2. h.authority = IF m \in Registry!OfficialSlot THEN None ELSE k
    BY <1>2, <1>6, <1>7
  <2> QED
    BY <1>7, <2>1, <2>2 DEF EntryOf, Registry!Entry
<1>11. Registry!Publish(k, m)
  BY <1>5, <1>6, <1>9, <1>10 DEF Registry!Publish
<1> QED
  BY <1>6, <1>11 DEF RegistryStep, Registry!Next

\* What happens to accounts that are not metadata stays hidden.
LEMMA HiddenStutters ==
  ASSUME IInv, NEW k \in Signer, NEW b \in Address, NEW r, Put(k, b, r),
         ~IsMetadata(acct[b]), ~IsMetadata(r)
  PROVE  RegistryStep
<1>1. SameEntry(b)
  BY PutShowsAtOne DEF SameEntry
<1> QED
  BY <1>1, PutStutters DEF RegistryStep

LEMMA AllocateStutters ==
  ASSUME IInv, NEW k \in Signer, NEW b \in Address, NEW signs \in BOOLEAN,
         Claimable(acct[b], signs), NEW r, IsBuffer(r), Put(k, b, r)
  PROVE  RegistryStep
<1>1. ~IsMetadata(acct[b]) /\ ~IsMetadata(r)
  BY ClaimableIsEmpty DEF IsMetadata, IsBuffer
<1> QED
  BY <1>1, HiddenStutters

LEMMA AllocateKeypairStutters ==
  ASSUME IInv, NEW k \in Signer, AllocateKeypair(k)
  PROVE  RegistryStep
<1> DEFINE r == [Claimed(acct[k]) EXCEPT !.discriminator = "Buffer", !.authority = k]
<1>1. k \in Address /\ Claimable(acct[k], TRUE) /\ Put(k, k, r)
  BY DEF AllocateKeypair, Address
<1>2. Claimed(acct[k]) \in AccountRecord
  BY <1>1, Contents, ClaimedType
<1>3. IsBuffer(r)
  BY <1>2 DEF AccountRecord, IsBuffer
<1> QED
  BY <1>1, <1>3, AllocateStutters

LEMMA AllocatePdaStutters ==
  ASSUME IInv, NEW k \in Signer, NEW p \in Program, NEW s \in Seed,
         NEW supplied \in BOOLEAN, AllocatePda(k, p, s, supplied)
  PROVE  RegistryStep
<1>1. PICK canonical \in BOOLEAN :
        LET b == DerivedPda(canonical, p, k, s)
        IN  /\ Claimable(acct[b], FALSE)
            /\ Put(k, b, [Claimed(acct[b]) EXCEPT !.discriminator = "Buffer",
                                                  !.authority = k,
                                                  !.program = p,
                                                  !.canonical = canonical,
                                                  !.seed = s])
  BY DEF AllocatePda, IsProgramAuthority
<1> DEFINE b == DerivedPda(canonical, p, k, s)
           r == [Claimed(acct[b]) EXCEPT !.discriminator = "Buffer",
                                         !.authority = k,
                                         !.program = p,
                                         !.canonical = canonical,
                                         !.seed = s]
<1>2. b \in Address /\ Claimable(acct[b], FALSE) /\ Put(k, b, r)
  BY <1>1, DerivedType
<1>3. IsBuffer(r)
  <2>1. Claimed(acct[b]) \in AccountRecord
    BY <1>2, Contents, ClaimedType
  <2> QED
    BY <2>1 DEF AccountRecord, IsBuffer
<1> HIDE DEF b, r
<1> QED
  BY <1>2, <1>3, AllocateStutters

LEMMA WriteBytesStutters ==
  ASSUME IInv, NEW k \in Signer, NEW t \in Address, NEW offset, NEW src,
         WriteBytes(k, t, offset, src)
  PROVE  RegistryStep
<1> DEFINE r == [acct[t] EXCEPT !.body = Overwrite(acct[t].body, offset, src)]
<1>1. Put(k, t, r) /\ ValidBuffer(acct[t]) /\ acct[t] \in AccountRecord
  BY Contents DEF WriteBytes
<1>2. ~IsMetadata(acct[t]) /\ ~IsMetadata(r)
  BY <1>1 DEF ValidBuffer, IsMetadata, AccountRecord
<1> QED
  BY <1>1, <1>2, HiddenStutters

LEMMA SetBufferAuthorityStutters ==
  ASSUME IInv, NEW k \in Signer, NEW b \in Address, NEW new,
         SetBufferAuthority(k, b, new)
  PROVE  RegistryStep
<1> DEFINE r == [acct[b] EXCEPT !.authority = new]
<1>1. Put(k, b, r) /\ ValidBuffer(acct[b]) /\ acct[b] \in AccountRecord
  BY Contents DEF SetBufferAuthority
<1>2. ~IsMetadata(acct[b]) /\ ~IsMetadata(r)
  BY <1>1 DEF ValidBuffer, IsMetadata, AccountRecord
<1> QED
  BY <1>1, <1>2, HiddenStutters

-----------------------------------------------------------------------------
(* Extend, Trim and Close.                                                 *)

\* Resizing metadata to no less than its declared length keeps what it publishes.
LEMMA ResizedPublishesSame ==
  ASSUME NEW r \in AccountRecord, NEW n \in Nat, r.dataLength <= n, NEW lamports,
         NEW cut, cut = [Resized(r, n) EXCEPT !.lamports = lamports]
                    \/ cut = Resized(r, n)
  PROVE  /\ cut.discriminator = r.discriminator
         /\ Published(cut) = Published(r)
         /\ EntryOf(cut) = EntryOf(r)
<1> DEFINE body == Fit(r.body, n)
<1>1. /\ cut.discriminator = r.discriminator /\ cut.codec = r.codec
      /\ cut.dataSource = r.dataSource /\ cut.dataLength = r.dataLength
      /\ cut.authority = r.authority /\ cut.mutable = r.mutable
      /\ cut.body = body
  <2> HIDE DEF body
  <2>1. Resized(r, n) = [r EXCEPT !.body = body]
    BY DEF Resized, AccountRecord, body
  <2>2. CASE cut = Resized(r, n)
    BY <2>1, <2>2 DEF AccountRecord
  <2>3. CASE cut = [Resized(r, n) EXCEPT !.lamports = lamports]
    BY <2>1, <2>3 DEF AccountRecord
  <2> QED
    BY <2>2, <2>3
<1>2. Fit(body, r.dataLength) = Fit(r.body, r.dataLength)
  BY FitFit DEF AccountRecord
<1> QED
  BY <1>1, <1>2 DEF Published, EntryOf

LEMMA ExtendStutters ==
  ASSUME IInv, NEW k \in Signer, NEW a \in Address, NEW n \in Nat, Extend(k, a, n)
  PROVE  SameEntry(a) /\ RegistryStep
<1> DEFINE len == Len(acct[a].body) + n
<1>1. acct[a] \in AccountRecord /\ WellFormed(a, acct[a])
  BY Contents
<1>2. len \in Nat /\ (IsMetadata(acct[a]) => acct[a].dataLength <= len)
  BY <1>1 DEF AccountRecord, WellFormed, DataPresent
<1>3. Put(k, a, Resized(acct[a], len))
  BY DEF Extend
<1> HIDE DEF len
<1>4. acct'[a] = Resized(acct[a], len)
  BY <1>3, PutShowsAtOne
<1>5. acct'[a].discriminator = acct[a].discriminator
  BY <1>1, <1>4 DEF Resized, AccountRecord
<1>6. SameEntry(a)
  BY <1>1, <1>2, <1>4, <1>5, ResizedPublishesSame DEF SameEntry, IsMetadata
<1> QED
  BY <1>3, <1>6, PutStutters DEF RegistryStep

\* A payout shows at its source only.
LEMMA PayOutShowsAtOne ==
  ASSUME IInv, NEW k \in Signer, NEW b \in Address, NEW r, NEW dest \in Address,
         NEW amount \in Nat, PayOut(k, b, r, dest, amount)
  PROVE  /\ acct'[b] = r
         /\ \A a \in Address \ {b} : SameEntry(a)
         /\ UNCHANGED prog
<1>1. acct'[b] = r /\ UNCHANGED prog
  BY DEF PayOut, Commit, IInv, TypeOK
<1>2. ASSUME NEW a \in Address \ {b} PROVE SameEntry(a)
  BY <1>2, CreditedByPayOut, CreditedIsSame
<1> QED
  BY <1>1, <1>2

LEMMA TrimStutters ==
  ASSUME IInv, NEW k \in Signer, NEW a \in Address, NEW dest \in Address,
         Trim(k, a, dest)
  PROVE  SameEntry(a) /\ RegistryStep
<1> DEFINE n   == TrimmedLen(acct[a])
           min == MinBalance(HeaderLen + n)
           r   == [Resized(acct[a], n) EXCEPT !.lamports = min]
<1>1. acct[a] \in AccountRecord
  BY Contents
<1>2. /\ Resizable(acct[a], n) /\ min <= acct[a].lamports
      /\ PayOut(k, a, r, dest, acct[a].lamports - min)
  BY DEF Trim
<1>3. n \in Nat /\ (IsMetadata(acct[a]) => acct[a].dataLength <= n)
  BY <1>1 DEF TrimmedLen, AccountRecord, IsMetadata
<1>4. acct[a].lamports - min \in Nat
  <2>1. HeaderLen + n \in 0 .. MaxLen
    BY <1>2, <1>3, LengthAssumption DEF Resizable
  <2> QED
    BY <1>1, <1>2, <2>1, RentAssumption DEF AccountRecord
<1> HIDE DEF n, min
<1>5. /\ acct'[a] = r /\ UNCHANGED prog
      /\ \A b \in Address \ {a} : SameEntry(b)
  BY <1>2, <1>4, PayOutShowsAtOne
<1>6. r.discriminator = acct[a].discriminator
  BY <1>1 DEF Resized, AccountRecord
<1>7. IsMetadata(acct[a]) => EntryOf(r) = EntryOf(acct[a])
  BY <1>1, <1>3, ResizedPublishesSame
<1> HIDE DEF r
<1>8. SameEntry(a)
  BY <1>5, <1>6, <1>7 DEF SameEntry, IsMetadata
<1> QED
  BY <1>5, <1>8, NothingShows DEF RegistryStep, Address

LEMMA CloseWithdraws ==
  ASSUME IInv, NEW k \in Signer, NEW a \in Address, NEW dest \in Address,
         Close(k, a, dest)
  PROVE  RegistryStep
<1>1. /\ MayManage(acct[a], k) /\ acct[a].lamports \in Nat
      /\ PayOut(k, a, Vacant(0), dest, acct[a].lamports)
  BY Contents DEF Close, AccountRecord
<1>2. /\ acct'[a] = Vacant(0) /\ UNCHANGED prog
      /\ \A b \in Address \ {a} : SameEntry(b)
  BY <1>1, PayOutShowsAtOne
<1>3. ~IsMetadata(acct'[a])
  BY <1>2 DEF Vacant, Zeroed, IsMetadata
<1>4. CASE IsMetadata(acct[a])
  <2>1. a \in Pda /\ a \in Listed /\ a \in Registry!Slot /\ Registry!Controls(k, a)
    BY <1>1, <1>4, SlotOfMetadata, ManagerControls
  <2>2. a \notin Listed' /\ Registry!OnlyAt(a)
    BY <1>2, <1>3, <2>1, OneSlotChanges DEF Listed, Address
  <2>3. Registry!Withdraw(k, a)
    BY <2>1, <2>2 DEF Registry!Withdraw
  <2> QED
    BY <2>1, <2>3 DEF RegistryStep, Registry!Next
<1>5. CASE ~IsMetadata(acct[a])
  <2>1. SameEntry(a)
    BY <1>3, <1>5 DEF SameEntry
  <2> QED
    BY <1>2, <2>1, NothingShows DEF RegistryStep, Address
<1> QED
  BY <1>4, <1>5

-----------------------------------------------------------------------------
(* The system program and the loader.                                      *)

LEMMA SystemStepStutters ==
  ASSUME IInv, NEW k \in Signer, SystemStep(k)
  PROVE  RegistryStep
<1>1. ASSUME NEW to \in Address, NEW n \in Transfers, Transfer(k, to, n)
      PROVE  RegistryStep
  <2>1. k \in Key /\ k \notin Pda /\ n \in Nat
    BY <1>1, InputAssumption, KeyAssumption, PdaAssumption DEF Transfer
  <2>2. ASSUME NEW a \in Pda PROVE OnlyCredited(a)
    <3>1. a \in Address /\ acct[a] \in AccountRecord
      BY Contents DEF Address
    <3>2. acct'[a] = IF a = to THEN [acct[a] EXCEPT !.lamports = @ + n] ELSE acct[a]
      BY <1>1, <2>1, <3>1 DEF Transfer, IInv, TypeOK
    <3> QED
      BY <2>1, <3>1, <3>2 DEF OnlyCredited, AccountRecord
  <2>3. UNCHANGED prog
    BY <1>1 DEF Transfer, Commit
  <2> QED
    BY <2>2, <2>3, CreditedIsSame, NothingShows DEF RegistryStep, Address
<1>2. ASSUME NEW space \in Space, NEW owner \in {"system", "self"},
             SystemCreate(k, space, owner)
      PROVE  RegistryStep
  <2> DEFINE h == IF space < HeaderLen THEN space ELSE HeaderLen
             r == Zeroed(owner, acct[k].lamports, h, Fit(<<>>, space - h))
  <2>1. k \in BufferKey /\ IsVacant(acct[k]) /\ Put(k, k, r)
    BY <1>2 DEF SystemCreate
  <2>2. k \in Address /\ ~IsMetadata(acct[k])
    <3>1. k \in Address /\ WellFormed(k, acct[k])
      BY <2>1, Contents DEF Address
    <3> QED
      BY <2>1, <3>1 DEF WellFormed, HeaderOwned, IsVacant, IsMetadata
  <2>3. ~IsMetadata(r)
    BY DEF Zeroed, IsMetadata
  <2> HIDE DEF r
  <2> QED
    BY <2>1, <2>2, <2>3, HiddenStutters
<1> QED
  BY <1>1, <1>2 DEF SystemStep

\* A step of the loader changes who speaks for one program.
LEMMA LoaderSucceeds ==
  ASSUME IInv, LoaderStep
  PROVE  RegistryStep
<1>1. PICK p \in Program, kind \in Kind, new \in Key \cup {None} :
        SetProgram(p, kind, new) /\ kind \in {"live", "closed"}
  BY DEF LoaderStep, Deploy, SetUpgradeAuthority, CloseProgram, Kind
<1> DEFINE who == IF kind = "live" THEN new ELSE None
<1>2. UNCHANGED acct /\ prog' = [prog EXCEPT ![p] = [kind |-> kind, upgrade |-> new]]
  BY <1>1 DEF SetProgram
<1>3. \A q \in Program : SpeakerOf(q)' = IF q = p THEN who ELSE SpeakerOf(q)
  BY <1>1, <1>2 DEF SpeakerOf, IInv, TypeOK
<1>4. [q \in Program |-> SpeakerOf(q)]'
        = [[q \in Program |-> SpeakerOf(q)] EXCEPT ![p] = who]
  BY <1>3
<1>5. who \in Signer \cup {None}
  BY DEF Signer
<1>6. UNCHANGED [a \in Listed |-> EntryOf(acct[a])]
  BY <1>2 DEF Listed, EntryOf, Published
<1>7. Registry!Succeed(p)
  BY <1>4, <1>5, <1>6 DEF Registry!Succeed
<1> QED
  BY <1>7 DEF RegistryStep, Registry!Next

-----------------------------------------------------------------------------
LEMMA StepRefines ==
  ASSUME IInv, Next
  PROVE  RegistryStep
<1>1. ASSUME NEW k \in Signer, Create(k)
      PROVE  RegistryStep
  BY <1>1, AllocateKeypairStutters, AllocatePdaStutters, InitializePublishes DEF Create
<1>2. ASSUME NEW k \in Signer, NEW a \in Address, Fill(k, a)
      PROVE  RegistryStep
  <2>1. ASSUME NEW codec \in Codec, NEW source \in DataSource, NEW payload \in Payload,
               SetData(k, a, codec, source, payload)
        PROVE  RegistryStep
    <3>1. payload \in Seq(Byte)
      BY InputAssumption
    <3> QED
      BY <2>1, <3>1, SetBytesRevises DEF SetData
  <2>2. ASSUME NEW codec \in Codec, NEW source \in DataSource, NEW b \in Address,
               SetDataFromBuffer(k, a, codec, source, b)
        PROVE  RegistryStep
    <3>1. acct[b].body \in Seq(Byte)
      BY Contents DEF AccountRecord
    <3> QED
      BY <2>2, <3>1, SetBytesRevises DEF SetDataFromBuffer
  <2> QED
    BY <1>2, <2>1, <2>2, WriteBytesStutters, SetCodecRevises
       DEF Fill, WriteData, WriteFromBuffer
<1>3. ASSUME NEW k \in Signer, NEW a \in Address, Govern(k, a)
      PROVE  RegistryStep
  BY <1>3, SetBufferAuthorityStutters, SetMetadataAuthorityDelegates, SetImmutableFreezes
     DEF Govern
<1>4. ASSUME NEW k \in Signer, NEW a \in Address, Reshape(k, a)
      PROVE  RegistryStep
  <2>1. Extension \subseteq Nat
    BY InputAssumption
  <2> QED
    BY <1>4, <2>1, ExtendStutters, TrimStutters, CloseWithdraws DEF Reshape
<1> QED
  BY <1>1, <1>2, <1>3, <1>4, SystemStepStutters, LoaderSucceeds DEF Next

LEMMA InitRefines == Init => Registry!Init
<1> SUFFICES ASSUME Init PROVE Registry!Init
  OBVIOUS
<1>1. Listed = {}
  BY DEF Init, Listed, Address, Vacant, Zeroed, IsMetadata
<1>2. [a \in Listed |-> EntryOf(acct[a])] = [slot \in {} |-> None]
  BY <1>1
<1>3. prog \in [Program -> ProgramRecord]
  BY InputAssumption DEF Init
<1>4. \A p \in Program : SpeakerOf(p) \in Signer \cup Program \cup {None}
  BY <1>3 DEF SpeakerOf, ProgramRecord, Signer
<1> QED
  BY <1>2, <1>4 DEF Registry!Init

\* The program is the registry, for any sets of keys, programs, seeds and contents:
\* the initial state maps to an empty registry, and each step to one of its steps or to
\* none.
THEOREM Refinement == Spec => ImplementsRegistry
<1>1. IInv /\ [Next]_vars => [Registry!Next]_Registry!vars
  <2>1. ASSUME IInv, Next PROVE [Registry!Next]_Registry!vars
    BY <2>1, StepRefines DEF RegistryStep
  <2>2. ASSUME UNCHANGED vars PROVE UNCHANGED Registry!vars
    BY <2>2 DEF vars, Registry!vars, Listed, EntryOf, Published, SpeakerOf
  <2> QED
    BY <2>1, <2>2
<1> QED
  BY <1>1, InitRefines, Invariance, PTL DEF Spec, ImplementsRegistry, Registry!Spec

\* No step that reshapes or governs metadata changes what it publishes.
THEOREM ReshapeKeeps == Spec => ReshapeKeepsContent
<1> DEFINE Kept == \A k \in Signer, a \in Address :
                     IsMetadata(acct[a]) /\ (Reshape(k, a) \/ Govern(k, a)) =>
                       \/ IsVacant(acct'[a])
                       \/ Published(acct'[a]) = Published(acct[a])
<1>1. ASSUME IInv PROVE Kept
  <2> SUFFICES ASSUME NEW k \in Signer, NEW a \in Address, IsMetadata(acct[a]),
                      Reshape(k, a) \/ Govern(k, a), ~IsVacant(acct'[a])
               PROVE  Published(acct'[a]) = Published(acct[a])
    OBVIOUS
  <2>1. acct[a] \in AccountRecord
    BY <1>1, Contents
  <2>2. ASSUME NEW n \in Extension, Extend(k, a, n)
        PROVE  Published(acct'[a]) = Published(acct[a])
    BY <1>1, <2>2, InputAssumption, ExtendStutters DEF SameEntry, EntryOf
  <2>3. ASSUME NEW dest \in Address, Trim(k, a, dest)
        PROVE  Published(acct'[a]) = Published(acct[a])
    BY <1>1, <2>3, TrimStutters DEF SameEntry, EntryOf
  <2>4. ASSUME NEW dest \in Address, Close(k, a, dest) PROVE FALSE
    <3>1. acct'[a] = Vacant(0)
      BY <1>1, <2>1, <2>4, PayOutShowsAtOne DEF Close, AccountRecord
    <3> QED
      BY <3>1 DEF Vacant, Zeroed, IsVacant, DataLen
  <2>5. ASSUME NEW new, SetBufferAuthority(k, a, new) \/ SetMetadataAuthority(k, a, new)
        PROVE  Published(acct'[a]) = Published(acct[a])
    <3>1. acct'[a] = [acct[a] EXCEPT !.authority = new]
      BY <1>1, <2>5, PutShowsAtOne DEF SetBufferAuthority, SetMetadataAuthority
    <3> QED
      BY <2>1, <3>1 DEF Published, AccountRecord
  <2>6. ASSUME SetImmutable(k, a)
        PROVE  Published(acct'[a]) = Published(acct[a])
    <3>1. acct'[a] = [acct[a] EXCEPT !.mutable = FALSE]
      BY <1>1, <2>6, PutShowsAtOne DEF SetImmutable
    <3> QED
      BY <2>1, <3>1 DEF Published, AccountRecord
  <2> QED
    BY <2>2, <2>3, <2>4, <2>5, <2>6 DEF Reshape, Govern
<1>2. IInv /\ [Next]_vars => [Kept]_vars
  BY <1>1
<1> QED
  BY <1>2, Invariance, PTL DEF Spec, ReshapeKeepsContent
===============================================================================
