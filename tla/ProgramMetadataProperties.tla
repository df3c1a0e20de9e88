----------------------- MODULE ProgramMetadataProperties -----------------------
(***************************************************************************)
(* What the program promises about the accounts it owns, whoever calls     *)
(* which instruction in which order.                                       *)
(***************************************************************************)
EXTENDS ProgramMetadata

\* The variables hold what their comments say.
TypeOK ==
  /\ acct \in [Address -> AccountRecord]
  /\ prog \in [Program -> ProgramRecord]
  /\ signer \in Signer \cup {None}

-----------------------------------------------------------------------------
(* Vocabulary: these are stated on their own, not with the guards above.   *)

IsMetadata(r) == r.discriminator = "Metadata"
IsBuffer(r) == r.discriminator = "Buffer"

\* k is the key that speaks for program p.
SpeaksFor(k, p) ==
  \/ prog[p].kind = "live" /\ prog[p].upgrade = k
  \/ prog[p].kind = "v2" /\ p = k

\* At most lamports were added to account a.
OnlyCredited(a) ==
  /\ acct'[a] = [acct[a] EXCEPT !.lamports = acct'[a].lamports]
  /\ acct'[a].lamports >= acct[a].lamports

\* What an account publishes: its data, as long as its header declares.
Published(r) == <<r.codec, r.dataSource, Fit(r.body, r.dataLength)>>

-----------------------------------------------------------------------------
(* Safety invariants: each says something of the contents r of each account. *)

\* A header is in an account the program owns, which is long enough to hold it; the
\* accounts it owns without a header in them are keypairs'.
HeaderOwned(a, r) ==
  IF r.discriminator = "Empty" THEN r.owner = "self" => a \in BufferKey
                               ELSE r.owner = "self" /\ r.head = HeaderLen

\* Metadata is at a PDA, and names the one it is at.
AtDerivedAddress(a, r) ==
  IsMetadata(r) => a \in Pda /\ a = DerivedPda(r.canonical, r.program, r.authority, r.seed)

\* The data metadata declares is there.
DataPresent(r) ==
  IsMetadata(r) =>
    /\ r.dataLength <= Len(r.body)
    /\ ValidDataLength(r.dataSource, r.dataLength)

\* Somebody is recorded as authority wherever no upgrade authority stands in.
HasAuthority(r) ==
  IsBuffer(r) \/ (IsMetadata(r) /\ ~r.canonical) => r.authority # None

\* An account with a header in it belongs to the program and can hold that header: the
\* length checks of Buffer::from_bytes and Header::from_bytes never fail on an account
\* the program has written (state/buffer.rs, state/header.rs).  A PDA is given to the
\* program and gets its header in one instruction, so it is never left without one.
HeadersOwned == \A a \in Address : HeaderOwned(a, acct[a])

\* Metadata sits at the address its own header derives: [program, seed] when it is
\* canonical, [program, authority, seed] when it is not, although a buffer's
\* authority can be handed over any number of times before Initialize, and
\* although the upgrade authority can change between Allocate and Initialize
\* (set_authority.rs, initialize.rs).
DerivationMatches == \A a \in Address : AtDerivedAddress(a, acct[a])

\* The declared length of metadata is a legal one for its data source and lies within
\* the account, through every order of Write, Initialize, SetData, Extend and Trim:
\* Trim, which trusts it to cut the account, never has to grow one (trim.rs).
DataFits == \A a \in Address : DataPresent(acct[a])

\* Only canonical metadata may be without an authority: a buffer or a third party's
\* metadata without one could never be changed or closed again (set_authority.rs).
AuthorityPresent == \A a \in Address : HasAuthority(acct[a])

\* k can give itself what is at address a.
CanTakeOver(k, a) == ENABLED (SetBufferAuthority(k, a, k) \/ SetMetadataAuthority(k, a, k))

\* Nobody squats on a program's names: whatever former upgrade authorities and those they
\* handed buffers to have left at a canonical address, the upgrade authority of the moment
\* can allocate it or make itself the authority of what is there, unless that was made
\* immutable or the address still lacks the rent of a header (write.rs:55 lets only the
\* recorded authority of a buffer write to it; set_authority.rs:54, mod.rs:158).
OwnerNeverLockedOut ==
  \A p \in Program, s \in Seed, k \in Signer :
    LET a == CanonicalPda(p, s)
        r == acct[a]
    IN  prog[p].kind = "live" /\ prog[p].upgrade = k =>
          \/ IsMetadata(r) /\ ~r.mutable
          \/ IsVacant(r) /\ r.lamports < MinBalance(HeaderLen)
          \/ ENABLED AllocatePda(k, p, s, TRUE)
          \/ CanTakeOver(k, a)

\* The inductive invariant: what the above say of each account, in types.
WellFormed(a, r) ==
  HeaderOwned(a, r) /\ AtDerivedAddress(a, r) /\ DataPresent(r) /\ HasAuthority(r)

IInv == TypeOK /\ \A a \in Address : WellFormed(a, acct[a])

-----------------------------------------------------------------------------
(* Action properties.                                                      *)

\* Once SetImmutable has run, no instruction by anyone changes or closes the account
\* or takes lamports out of it; it can only be sent more.
ImmutableForever ==
  [][\A a \in Address :
       IsMetadata(acct[a]) /\ ~acct[a].mutable => OnlyCredited(a)]_vars

\* The signer of the step may change account a: it is the recorded authority, it speaks
\* for the program of a canonical account, or it is the account itself while nothing is
\* recorded in it; or the step turns a buffer into metadata, which the next property
\* is about.
ChangeAuthorized(a) ==
  \/ acct[a].authority = signer'
  \/ acct[a].canonical /\ SpeaksFor(signer', acct[a].program)
  \/ acct[a].discriminator = "Empty" /\ a = signer'
  \/ IsBuffer(acct[a]) /\ IsMetadata(acct'[a])

\* An account the program owns changes, shrinks, closes or loses lamports only in a
\* transaction its authority signed, whichever instructions ran before: a former
\* authority, a former upgrade authority and the holder of the other kind of authority
\* are all nobody (validate_authority and its callers).
ChangesAuthorized ==
  [][\A a \in Address :
       acct[a].owner = "self" => OnlyCredited(a) \/ ChangeAuthorized(a)]_vars

\* The step that makes account a metadata was signed by the key that speaks for the
\* program (canonical) or by the key in the address (non-canonical), and publishes what
\* the buffer held, if there was one.
ProperlyInitialized(a) ==
  LET m == acct'[a]
  IN  /\ a = DerivedPda(m.canonical, m.program, signer', m.seed)
      /\ m.canonical => SpeaksFor(signer', m.program)
      /\ IsBuffer(acct[a]) => m.body = acct[a].body

\* Metadata comes into being only so, whoever holds the buffer's authority by then and
\* whoever spoke for the program when the buffer was allocated (initialize.rs, and the
\* promise in state/buffer.rs).
OnlyDeriverInitializes ==
  [][\A a \in Address :
       ~IsMetadata(acct[a]) /\ IsMetadata(acct'[a]) => ProperlyInitialized(a)]_vars

\* An account given to the program that is too short for a header stays as it is, and
\* whatever lamports it has stay in it: Allocate refuses it, and without a header no
\* instruction extends or closes it (allocate.rs, extend.rs, close.rs).
TooShortIsStranded ==
  [][\A a \in Address :
       acct[a].owner = "self" /\ acct[a].head < HeaderLen => OnlyCredited(a)]_vars

\* Canonical metadata that has lost its own authority and whose program has lost its
\* upgrade authority, or is closed, is beyond everybody's reach, the key that was the
\* upgrade authority last included (the option byte is_program_authority reads in
\* mod.rs).
OrphanIsFrozen ==
  [][\A a \in Address :
       /\ IsMetadata(acct[a]) /\ acct[a].canonical /\ acct[a].authority = None
       /\ prog[acct[a].program].kind \in {"live", "closed"}
       /\ prog[acct[a].program].upgrade = None
       => OnlyCredited(a)]_vars

\* Extend, Trim and a change of authority or mutability leave what the account
\* publishes as it was, or close the account.
ReshapeKeepsContent ==
  [][\A k \in Signer, a \in Address :
       IsMetadata(acct[a]) /\ (Reshape(k, a) \/ Govern(k, a)) =>
         \/ IsVacant(acct'[a])
         \/ Published(acct'[a]) = Published(acct[a])]_vars
===============================================================================
