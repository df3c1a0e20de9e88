--------------------------- MODULE ProgramMetadata ---------------------------
(***************************************************************************)
(* The on-chain program: its nine instructions over the accounts it owns,  *)
(* the upgradeable loader's state it reads to recognise a program's        *)
(* upgrade authority, and the runtime's rules on what a transaction may    *)
(* leave behind.                                                           *)
(*                                                                         *)
(* A step is one transaction with one instruction.  An instruction that    *)
(* returns an error changes nothing, so only the successful outcomes are   *)
(* steps: every early return of a handler is a guard of its action.        *)
(***************************************************************************)
EXTENDS Accounts

CONSTANTS
  InitialPrograms,   \* the functions prog may start as
  Supply,            \* lamports of each wallet at the start
  Payload,           \* data an instruction may carry
  Extension,         \* lengths Extend may be asked for (u16)
  Space,             \* lengths the system program may be asked to allocate
  Transfers          \* amounts of lamports a wallet may move

VARIABLES
  acct,     \* what each address holds
  prog,     \* what the loader says of each program
  signer    \* who signed the last transaction (history, read by properties only)

vars == <<acct, prog, signer>>

(***************************************************************************)
(* What `program` and `program_data` may be:                               *)
(*   "none"    not executable, not owned by the upgradeable loader         *)
(*   "v2"      executable under an older loader: no program data account   *)
(*   "other"   owned by the upgradeable loader but not a program           *)
(*   "live"    an upgradeable program with its program data account        *)
(*   "closed"  an upgradeable program whose program data account is gone   *)
(***************************************************************************)
Kind == {"none", "v2", "other", "live", "closed"}
ProgramRecord == [kind : Kind, upgrade : Key \cup {None}]

ASSUME InputAssumption ==
  /\ InitialPrograms \subseteq [Program -> ProgramRecord]
  /\ Supply \in Nat
  /\ Payload \subseteq Seq(Byte) \ {<<>>}
  /\ Extension \subseteq Nat
  /\ Space \subseteq 0 .. MaxLen
  /\ Transfers \subseteq Nat \ {0}

Init ==
  /\ acct = [a \in Address |-> Vacant(IF a \in Wallet THEN Supply ELSE 0)]
  /\ prog \in InitialPrograms
  /\ signer = None

-----------------------------------------------------------------------------
(* Who may do what.                                                        *)

Upgradeable(p) == prog[p].kind \in {"other", "live", "closed"}
Executable(p) == prog[p].kind \in {"v2", "live", "closed"}

\* Mutants of IsProgramAuthority: any account matching the signer counts as a program
\* of an older loader, executable or not; the key in the program data counts even when
\* the option before it is None (the loader leaves the last one there).
IsProgramAuthorityUnexecutable(p, supplied, k) ==
  {yes \in BOOLEAN :
     \/ ~Upgradeable(p) /\ yes = (p = k)
     \/ Upgradeable(p) /\ ~supplied /\ ~yes
     \/ prog[p].kind = "live" /\ supplied /\ yes = (prog[p].upgrade = k)}

IsProgramAuthorityOfNone(p, supplied, k) ==
  {yes \in BOOLEAN :
     \/ ~Upgradeable(p) /\ yes = (Executable(p) /\ p = k)
     \/ Upgradeable(p) /\ ~supplied /\ ~yes
     \/ prog[p].kind = "live" /\ supplied /\ yes = (prog[p].upgrade \in {k, None})}

(***************************************************************************)
(* is_program_authority: the set of its Ok outcomes, empty when it returns *)
(* an error.  `supplied` tells whether the transaction names the program   *)
(* data account; naming a wrong one is an error.                           *)
(***************************************************************************)
IsProgramAuthority(p, supplied, k) ==
  {yes \in BOOLEAN :
     \/ ~Upgradeable(p) /\ yes = (Executable(p) /\ p = k)
     \/ Upgradeable(p) /\ ~supplied /\ ~yes
     \/ prog[p].kind = "live" /\ supplied /\ yes = (prog[p].upgrade = k)}

\* Mutants of ValidAuthority: the upgrade authority passes for accounts that are not
\* canonical; or whatever program the transaction names; or only where no other authority
\* is recorded.
ValidAuthorityWithoutCanonical(r, k) ==
  \/ r.authority = k
  \/ r.program \in Program /\ TRUE \in IsProgramAuthority(r.program, TRUE, k)

ValidAuthorityOfAnyProgram(r, k) ==
  \/ r.authority = k
  \/ r.canonical /\ \E p \in Program : TRUE \in IsProgramAuthority(p, TRUE, k)

ValidAuthorityRecordedFirst(r, k) ==
  IF r.authority # None THEN r.authority = k
  ELSE r.canonical /\ r.program \in Program /\ TRUE \in IsProgramAuthority(r.program, TRUE, k)

\* validate_authority for signer k on the account contents r.  Only the account's
\* own program passes is_canonical, and omitting its program data never helps.
ValidAuthority(r, k) ==
  \/ r.authority = k
  \/ r.canonical /\ r.program \in Program
     /\ TRUE \in IsProgramAuthority(r.program, TRUE, k)

\* Mutant of MayManage: the discriminator is checked, the mutable flag is not.
MayManageIgnoringMutable(r, k) ==
  r.head = HeaderLen /\ r.discriminator # "Empty" /\ ValidAuthority(r, k)

\* The prologue of Extend, Trim and Close.
MayManage(r, k) == (ValidBuffer(r) \/ ValidMetadata(r)) /\ ValidAuthority(r, k)

\* The address Allocate and Initialize derive.
DerivedPda(canonical, p, k, s) ==
  IF canonical THEN CanonicalPda(p, s) ELSE NonCanonicalPda(p, k, s)

\* The transaction of k changes no account but those in `written`.  The runtime rolls
\* back one that leaves an account below its rent.
Commit(k, written) ==
  /\ \A a \in written : RentExempt(acct'[a])
  /\ signer' = k
  /\ UNCHANGED prog

\* The transaction leaves r at address a.
Put(k, a, r) ==
  /\ acct' = [acct EXCEPT ![a] = r]
  /\ Commit(k, {a})

-----------------------------------------------------------------------------
(* Allocate.                                                               *)

\* Mutant of Claimable: an account that holds any data at all is long enough.
ClaimableAtAnyLength(r, signs) ==
  /\ \/ IsVacant(r)
     \/ r.owner = "system" /\ signs
     \/ r.owner = "self" /\ r.discriminator = "Empty"
  /\ r.lamports # 0

\* Another mutant of it: the discriminator is not looked at, and a buffer is allocated
\* again over its first owner's head.
ClaimableAgain(r, signs) ==
  /\ \/ IsVacant(r)
     \/ r.head = HeaderLen /\ r.owner = "system" /\ signs
     \/ r.head = HeaderLen /\ r.owner = "self" /\ r.discriminator # "Metadata"
  /\ r.lamports # 0

\* The buffer is created, or is a zeroed account of sufficient length: one that
\* the program owns already, or one that signs to be assigned to it.
Claimable(r, signs) ==
  /\ \/ IsVacant(r)
     \/ r.head = HeaderLen /\ r.owner = "system" /\ signs
     \/ r.head = HeaderLen /\ r.owner = "self" /\ r.discriminator = "Empty"
  /\ r.lamports # 0

Claimed(r) ==
  IF IsVacant(r) THEN Zeroed("self", r.lamports, HeaderLen, <<>>)
                 ELSE [r EXCEPT !.owner = "self"]

AllocateKeypair(k) ==
  /\ k \in BufferKey
  /\ Claimable(acct[k], TRUE)
  /\ Put(k, k, [Claimed(acct[k]) EXCEPT !.discriminator = "Buffer",
                                        !.authority = k])

AllocatePda(k, p, s, supplied) ==
  /\ Executable(p)
  /\ \E canonical \in IsProgramAuthority(p, supplied, k) :
       LET b == DerivedPda(canonical, p, k, s)
       IN  /\ Claimable(acct[b], FALSE)
           /\ Put(k, b, [Claimed(acct[b]) EXCEPT !.discriminator = "Buffer",
                                                 !.authority = k,
                                                 !.program = p,
                                                 !.canonical = canonical,
                                                 !.seed = s])

-----------------------------------------------------------------------------
(* Initialize: payload is <<>> when the data is already in the buffer.     *)

\* Mutant of MetadataHeader: program and authority are written over each other.
MetadataHeaderSwapped(r, k, p, s, canonical, codec, source) ==
  [r EXCEPT !.owner = "self",
            !.head = HeaderLen,
            !.discriminator = "Metadata",
            !.program = IF canonical THEN None ELSE k,
            !.authority = p,
            !.mutable = TRUE,
            !.canonical = canonical,
            !.seed = s,
            !.codec = codec,
            !.dataSource = source,
            !.dataLength = Len(r.body)]

MetadataHeader(r, k, p, s, canonical, codec, source) ==
  [r EXCEPT !.owner = "self",
            !.head = HeaderLen,
            !.discriminator = "Metadata",
            !.program = p,
            !.authority = IF canonical THEN None ELSE k,
            !.mutable = TRUE,
            !.canonical = canonical,
            !.seed = s,
            !.codec = codec,
            !.dataSource = source,
            !.dataLength = Len(r.body)]

\* Mutant of Initialize: the authority of a buffer may initialize it as what it was
\* allocated for.
InitializeByBufferAuthority(k, p, s, supplied, codec, source, payload) ==
  \E canonical \in BOOLEAN :
    LET m    == DerivedPda(canonical, p, k, s)
        body == IF IsVacant(acct[m]) THEN payload ELSE acct[m].body
    IN  /\ \/ canonical \in IsProgramAuthority(p, supplied, k)
           \/ ValidBuffer(acct[m]) /\ acct[m].authority = k
        /\ \/ ValidBuffer(acct[m]) /\ payload = <<>>
           \/ IsVacant(acct[m]) /\ payload # <<>>
        /\ HeaderLen + Len(body) <= MaxLen
        /\ acct[m].lamports # 0
        /\ ValidDataLength(source, Len(body))
        /\ Put(k, m, MetadataHeader([acct[m] EXCEPT !.body = body],
                                    k, p, s, canonical, codec, source))

Initialize(k, p, s, supplied, codec, source, payload) ==
  \E canonical \in IsProgramAuthority(p, supplied, k) :
    LET m    == DerivedPda(canonical, p, k, s)
        body == IF IsVacant(acct[m]) THEN payload ELSE acct[m].body
    IN  /\ \/ ValidBuffer(acct[m]) /\ payload = <<>>
           \/ IsVacant(acct[m]) /\ payload # <<>>
        /\ HeaderLen + Len(body) <= MaxLen
        /\ acct[m].lamports # 0
        /\ ValidDataLength(source, Len(body))
        /\ Put(k, m, MetadataHeader([acct[m] EXCEPT !.body = body],
                                    k, p, s, canonical, codec, source))

-----------------------------------------------------------------------------
(* Write, from the instruction's data or from another buffer.              *)

WriteBytes(k, t, offset, src) ==
  LET after == Overwrite(acct[t].body, offset, src)
  IN  /\ ValidBuffer(acct[t])
      /\ acct[t].authority = k
      /\ Resizable(acct[t], Len(after))
      /\ Put(k, t, [acct[t] EXCEPT !.body = after])

WriteData(k, t, offset, payload) == WriteBytes(k, t, offset, payload)

WriteFromBuffer(k, t, offset, source) ==
  /\ acct[source].owner = "self"
  /\ ValidBuffer(acct[source])
  /\ source # t
  /\ WriteBytes(k, t, offset, acct[source].body)

-----------------------------------------------------------------------------
(* SetAuthority: new is None to remove the authority.                      *)

\* Mutants of the two below: a buffer may lose its authority, metadata that is not
\* canonical may change it.
SetBufferAuthorityToNone(k, b, new) ==
  /\ ValidBuffer(acct[b])
  /\ ValidAuthority(acct[b], k)
  /\ Put(k, b, [acct[b] EXCEPT !.authority = new])

SetAnyMetadataAuthority(k, m, new) ==
  /\ ValidMetadata(acct[m])
  /\ ValidAuthority(acct[m], k)
  /\ Put(k, m, [acct[m] EXCEPT !.authority = new])

SetBufferAuthority(k, b, new) ==
  /\ ValidBuffer(acct[b])
  /\ ValidAuthority(acct[b], k)
  /\ new # None
  /\ Put(k, b, [acct[b] EXCEPT !.authority = new])

SetMetadataAuthority(k, m, new) ==
  /\ ValidMetadata(acct[m])
  /\ acct[m].canonical
  /\ ValidAuthority(acct[m], k)
  /\ Put(k, m, [acct[m] EXCEPT !.authority = new])

-----------------------------------------------------------------------------
(* SetData: the codec alone, or with new data from the instruction or from *)
(* a buffer.                                                               *)

SetCodec(k, m, codec) ==
  /\ ValidMetadata(acct[m])
  /\ ValidAuthority(acct[m], k)
  /\ Put(k, m, [acct[m] EXCEPT !.codec = codec])

\* Mutants of SetBytes: the header keeps the length of the old data; or it is built
\* anew, as Initialize does; or the account only ever grows.
SetBytesWithoutLength(k, m, codec, source, data) ==
  /\ ValidMetadata(acct[m])
  /\ ValidAuthority(acct[m], k)
  /\ ValidDataLength(source, Len(data))
  /\ Resizable(acct[m], Len(data))
  /\ Put(k, m, [acct[m] EXCEPT !.codec = codec,
                               !.dataSource = source,
                               !.body = data])

SetBytesRebuildingHeader(k, m, codec, source, data) ==
  LET r == acct[m]
  IN  /\ ValidMetadata(r)
      /\ ValidAuthority(r, k)
      /\ ValidDataLength(source, Len(data))
      /\ Resizable(r, Len(data))
      /\ Put(k, m, MetadataHeader([r EXCEPT !.body = data],
                                  k, r.program, r.seed, r.canonical, codec, source))

SetBytesGrowing(k, m, codec, source, data) ==
  /\ ValidMetadata(acct[m])
  /\ ValidAuthority(acct[m], k)
  /\ ValidDataLength(source, Len(data))
  /\ Resizable(acct[m], Len(data))
  /\ Put(k, m, [acct[m] EXCEPT !.codec = codec,
                               !.dataSource = source,
                               !.dataLength = Len(data),
                               !.body = Overwrite(@, 0, data)])

SetBytes(k, m, codec, source, data) ==
  /\ ValidMetadata(acct[m])
  /\ ValidAuthority(acct[m], k)
  /\ ValidDataLength(source, Len(data))
  /\ Resizable(acct[m], Len(data))
  /\ Put(k, m, [acct[m] EXCEPT !.codec = codec,
                               !.dataSource = source,
                               !.dataLength = Len(data),
                               !.body = data])

SetData(k, m, codec, source, payload) == SetBytes(k, m, codec, source, payload)

SetDataFromBuffer(k, m, codec, source, b) ==
  /\ acct[b].owner = "self"
  /\ ValidBuffer(acct[b])
  /\ SetBytes(k, m, codec, source, acct[b].body)

SetImmutable(k, m) ==
  /\ ValidMetadata(acct[m])
  /\ ValidAuthority(acct[m], k)
  /\ Put(k, m, [acct[m] EXCEPT !.mutable = FALSE])

-----------------------------------------------------------------------------
(* Extend, Trim and Close.                                                 *)

Extend(k, a, n) ==
  /\ MayManage(acct[a], k)
  /\ Resizable(acct[a], Len(acct[a].body) + n)
  /\ Put(k, a, Resized(acct[a], Len(acct[a].body) + n))

\* Mutant of TrimmedLen: the data length is taken for the length of the account.
TrimmedLenOfAccount(r) ==
  IF r.discriminator = "Buffer" THEN Len(r.body)
  ELSE IF r.dataLength > HeaderLen THEN r.dataLength - HeaderLen ELSE 0

\* A buffer keeps its length; metadata is cut back to its data.
TrimmedLen(r) == IF r.discriminator = "Buffer" THEN Len(r.body) ELSE r.dataLength

\* The handlers credit `dest` before they set the balance of `a`.  When both are one
\* account the credit is overwritten, and the runtime rejects the instruction for
\* not conserving lamports unless there was nothing to move.
PayOut(k, a, r, dest, amount) ==
  /\ dest = a => amount = 0
  /\ acct' = [acct EXCEPT ![dest].lamports = @ + amount, ![a] = r]
  /\ Commit(k, {a, dest})

Trim(k, a, dest) ==
  LET n   == TrimmedLen(acct[a])
      min == MinBalance(HeaderLen + n)
  IN  /\ MayManage(acct[a], k)
      /\ Resizable(acct[a], n)
      /\ min <= acct[a].lamports
      /\ PayOut(k, a, [Resized(acct[a], n) EXCEPT !.lamports = min],
                dest, acct[a].lamports - min)

Close(k, a, dest) ==
  /\ MayManage(acct[a], k)
  /\ PayOut(k, a, Vacant(0), dest, acct[a].lamports)

-----------------------------------------------------------------------------
(* The system program and the loader, as the clients and tests use them.   *)

Transfer(k, to, n) ==
  /\ k \in Wallet \cup BufferKey
  /\ IsVacant(acct[k])
  /\ n <= acct[k].lamports
  /\ to # k
  /\ acct' = [acct EXCEPT ![k].lamports = @ - n, ![to].lamports = @ + n]
  /\ Commit(k, {k, to})

\* A key has its own vacant account allocated and given to an owner.
SystemCreate(k, space, owner) ==
  LET h == IF space < HeaderLen THEN space ELSE HeaderLen
  IN  /\ k \in BufferKey
      /\ IsVacant(acct[k])
      /\ Put(k, k, Zeroed(owner, acct[k].lamports, h, Fit(<<>>, space - h)))

SetProgram(p, kind, upgrade) ==
  /\ prog' = [prog EXCEPT ![p] = [kind |-> kind, upgrade |-> upgrade]]
  /\ UNCHANGED acct

Deploy(k, p) ==
  /\ prog[p].kind = "none"
  /\ SetProgram(p, "live", k)
  /\ signer' = k

\* new = None makes the program final.
SetUpgradeAuthority(p, new) ==
  /\ prog[p].kind = "live"
  /\ prog[p].upgrade # None
  /\ SetProgram(p, "live", new)
  /\ signer' = prog[p].upgrade

CloseProgram(p) ==
  /\ prog[p].kind = "live"
  /\ prog[p].upgrade # None
  /\ SetProgram(p, "closed", None)
  /\ signer' = prog[p].upgrade

-----------------------------------------------------------------------------
Create(k) ==
  \/ AllocateKeypair(k)
  \/ \E p \in Program, s \in Seed, supplied \in BOOLEAN :
       \/ AllocatePda(k, p, s, supplied)
       \/ \E codec \in Codec, source \in DataSource, payload \in Payload \cup {<<>>} :
            Initialize(k, p, s, supplied, codec, source, payload)

Fill(k, a) ==
  \/ \E offset \in 0 .. MaxLen, payload \in Payload : WriteData(k, a, offset, payload)
  \/ \E offset \in 0 .. MaxLen, b \in Address : WriteFromBuffer(k, a, offset, b)
  \/ \E codec \in Codec : SetCodec(k, a, codec)
  \/ \E codec \in Codec, source \in DataSource :
       \/ \E payload \in Payload : SetData(k, a, codec, source, payload)
       \/ \E b \in Address : SetDataFromBuffer(k, a, codec, source, b)

Govern(k, a) ==
  \/ \E new \in Signer \cup {None} :
       SetBufferAuthority(k, a, new) \/ SetMetadataAuthority(k, a, new)
  \/ SetImmutable(k, a)

Reshape(k, a) ==
  \/ \E n \in Extension : Extend(k, a, n)
  \/ \E dest \in Address : Trim(k, a, dest) \/ Close(k, a, dest)

SystemStep(k) ==
  \/ \E to \in Address, n \in Transfers : Transfer(k, to, n)
  \/ \E space \in Space, owner \in {"system", "self"} : SystemCreate(k, space, owner)

LoaderStep ==
  \E p \in Program :
    \/ \E k \in Key : Deploy(k, p)
    \/ \E new \in Key \cup {None} : SetUpgradeAuthority(p, new)
    \/ CloseProgram(p)

Next ==
  \/ \E k \in Signer :
       \/ Create(k)
       \/ \E a \in Address : Fill(k, a) \/ Govern(k, a) \/ Reshape(k, a)
       \/ SystemStep(k)
  \/ LoaderStep

Spec == Init /\ [][Next]_vars
===============================================================================
