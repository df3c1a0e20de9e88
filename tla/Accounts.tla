------------------------------- MODULE Accounts -------------------------------
(***************************************************************************)
(* Addresses and account contents of the Program Metadata program: what an *)
(* account holds, how its header is read, and how its data is resized and  *)
(* overwritten.  No state: the modules that extend this one keep it.       *)
(*                                                                         *)
(* An account's data is the header region followed by a body.  `head` is   *)
(* the number of header bytes present (HeaderLen once the account is large *)
(* enough for Header / Buffer, which have the same size) and `body` the    *)
(* bytes after it; the header's fields are fields of the record.           *)
(***************************************************************************)
EXTENDS Integers, Sequences

CONSTANTS
  Key,            \* keypairs that sign transactions
  ProgramKey,     \* programs whose deployment keypair may still sign
  Wallet,         \* keys whose own account pays for others
  BufferKey,      \* keys whose own account may become a keypair buffer
  Program,        \* accounts passed as `program`
  Seed,           \* 16-byte seeds
  Codec,          \* valid (encoding, compression, format) triples
  Byte,           \* byte values
  Zero,           \* the byte 0
  None,           \* the zero address, which ZeroableOption reads as None
  HeaderLen,      \* Header::LEN = Buffer::LEN
  ExternalLen,    \* ExternalData::LEN
  ReallocLimit,   \* the most an instruction may grow an account
  MaxLen,         \* the most data an account may hold
  MinBalance(_)   \* the rent-exempt balance of an account of that length

Signer == Key \cup ProgramKey

CanonicalPda(p, s) == <<p, s>>
NonCanonicalPda(p, k, s) == <<p, k, s>>

Pda == {CanonicalPda(p, s) : p \in Program, s \in Seed}
  \cup {NonCanonicalPda(p, k, s) : p \in Program, k \in Signer, s \in Seed}

Address == Wallet \cup BufferKey \cup Pda

ASSUME KeyAssumption ==
  /\ Wallet \subseteq Key
  /\ BufferKey \subseteq Key
  /\ ProgramKey \subseteq Program
  /\ None \notin Signer

\* A program-derived address lies off the curve: no keypair has it.
ASSUME PdaAssumption == Pda \cap Key = {}

ASSUME LengthAssumption ==
  /\ HeaderLen \in Nat \ {0}
  /\ ExternalLen \in Nat \ {0}
  /\ ReallocLimit \in Nat
  /\ MaxLen \in Nat
  /\ HeaderLen <= MaxLen
  /\ Zero \in Byte

ASSUME RentAssumption ==
  /\ \A n \in 0 .. MaxLen : MinBalance(n) \in Nat \ {0}
  /\ \A m, n \in 0 .. MaxLen : m <= n => MinBalance(m) <= MinBalance(n)

-----------------------------------------------------------------------------
Discriminator == {"Empty", "Buffer", "Metadata"}
DataSource == {"Direct", "Url", "External"}

AccountRecord ==
  [owner         : {"system", "self"},   \* "self" is the metadata program
   lamports      : Nat,
   head          : 0 .. HeaderLen,
   body          : Seq(Byte),
   discriminator : Discriminator,
   program       : Program \cup {None},
   authority     : Signer \cup {None},
   mutable       : BOOLEAN,
   canonical     : BOOLEAN,
   seed          : Seed \cup {None},
   codec         : Codec \cup {None},
   dataSource    : DataSource,
   dataLength    : Nat]

DataLen(r) == r.head + Len(r.body)

\* An account whose first h header bytes and whole body are zero.
Zeroed(owner, lamports, h, body) ==
  [owner |-> owner, lamports |-> lamports, head |-> h, body |-> body,
   discriminator |-> "Empty", program |-> None, authority |-> None,
   mutable |-> FALSE, canonical |-> FALSE, seed |-> None, codec |-> None,
   dataSource |-> "Direct", dataLength |-> 0]

\* A system account without data: never created, or closed.
Vacant(lamports) == Zeroed("system", lamports, 0, <<>>)

IsVacant(r) == r.owner = "system" /\ DataLen(r) = 0

-----------------------------------------------------------------------------
\* Buffer::from_bytes on an account with the Buffer discriminator.
ValidBuffer(r) == r.head = HeaderLen /\ r.discriminator = "Buffer"

\* validate_metadata: an initialized metadata account that is still mutable.
ValidMetadata(r) ==
  r.head = HeaderLen /\ r.discriminator = "Metadata" /\ r.mutable

ValidDataLength(source, n) ==
  IF source = "External" THEN n = ExternalLen ELSE n > 0

-----------------------------------------------------------------------------
\* The first n bytes of body, zero-filled where it is shorter.
Fit(body, n) ==
  [i \in 1 .. n |-> IF i \in DOMAIN body THEN body[i] ELSE Zero]

\* body with src copied over it at offset, grown if src reaches further.
Overwrite(body, offset, src) ==
  LET end   == offset + Len(src)
      grown == Fit(body, IF end > Len(body) THEN end ELSE Len(body))
  IN  [i \in DOMAIN grown |->
         IF i - offset \in DOMAIN src THEN src[i - offset] ELSE grown[i]]

\* The runtime accepts the new body length n of account r.
Resizable(r, n) ==
  /\ n - Len(r.body) <= ReallocLimit
  /\ HeaderLen + n <= MaxLen

\* resize_unchecked to a body of n bytes, then nothing copied.
Resized(r, n) == [r EXCEPT !.body = Fit(@, n)]

\* The runtime's rule on every account a transaction leaves behind: it holds the
\* rent-exempt balance of its length, or it has no lamports and no contents.
RentExempt(r) ==
  \/ r.lamports = 0 /\ IsVacant(r)
  \/ r.lamports >= MinBalance(DataLen(r))
===============================================================================
