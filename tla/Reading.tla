-------------------------------- MODULE Reading --------------------------------
(***************************************************************************)
(* What readers make of the accounts: the types of the program's own crate *)
(* and the decoders and fetchers of the generated Rust client.  A reader   *)
(* that returns an error yields the empty set, one that succeeds the set   *)
(* of what it returns.                                                     *)
(***************************************************************************)
EXTENDS ProgramMetadata

CONSTANTS
  BufferPadding,    \* bytes of padding at the end of a buffer's header
  MetadataPadding,  \* and of metadata's
  ExternalAlign,    \* ExternalData is at a multiple of this in memory
  Base,             \* where in memory the bytes of an account may begin
  Letter            \* bytes that UTF-8 text may hold; the others occur in none

ASSUME PaddingAssumption ==
  BufferPadding \in 1 .. HeaderLen /\ MetadataPadding \in 1 .. HeaderLen

ASSUME LetterAssumption == Zero \in Letter

IsMultiple(n, m) == \E i \in 0 .. n : n = i * m

\* The data section begins at such a multiple if the account does.
ASSUME AlignAssumption ==
  Base \subseteq Nat /\ ExternalAlign \in Nat \ {0} /\ IsMultiple(HeaderLen, ExternalAlign)

-----------------------------------------------------------------------------
(* The program's crate.                                                    *)

IsText(bytes) == \A i \in DOMAIN bytes : bytes[i] \in Letter

\* Data::from_bytes: the source decides how the bytes after the header are read, which
\* are in memory from `at` on.  An external reference is the first bytes of them.
DataOf(source, bytes, at) ==
  {d \in {IF source = "External" THEN SubSeq(bytes, 1, ExternalLen) ELSE bytes} :
     /\ source = "Url" => IsText(bytes)
     /\ source = "External" => Len(bytes) >= ExternalLen /\ IsMultiple(at, ExternalAlign)}

\* Metadata::from_bytes of an account that is in memory from `base` on: it looks at the
\* length, not at the discriminator.
Read(r, base) ==
  {[header |-> r, data |-> d] :
     d \in IF r.head = HeaderLen THEN DataOf(r.dataSource, r.body, base + HeaderLen) ELSE {}}

-----------------------------------------------------------------------------
(* The Rust client.                                                        *)

\* The bytes after the first n of the header, where those there are of it are zero.
RestAfter(r, n) == Fit(<<>>, r.head - n) \o r.body

\* Buffer::from_bytes: the data starts right after the seed.
DecodeBuffer(r) ==
  {[discriminator |-> r.discriminator, program |-> r.program, authority |-> r.authority,
    canonical |-> IF r.discriminator = "Metadata" THEN r.mutable ELSE r.canonical,
    data |-> rest]
   : rest \in IF r.head >= HeaderLen - BufferPadding
              THEN {RestAfter(r, HeaderLen - BufferPadding)} ELSE {}}

\* Metadata::from_bytes: the data starts right after the data length.  A buffer's seed
\* begins where metadata says whether it is canonical; no letter is a Boolean there.
DecodeMetadata(r) ==
  {[discriminator |-> r.discriminator, program |-> r.program, authority |-> r.authority,
    mutable |-> IF r.discriminator = "Buffer" THEN r.canonical ELSE r.mutable,
    codec |-> r.codec, dataSource |-> r.dataSource, dataLength |-> r.dataLength,
    data |-> rest]
   : rest \in IF /\ r.head >= HeaderLen - MetadataPadding
                 /\ r.discriminator = "Buffer" => r.seed = None
              THEN {RestAfter(r, HeaderLen - MetadataPadding)} ELSE {}}

\* The RPC node knows the accounts that have lamports.
Exists(a) == acct[a].lamports > 0

\* fetch_all_buffer and fetch_all_metadata: one that is missing or malformed fails all.
FetchAll(decode(_), as) ==
  {found \in [as -> UNION {decode(acct[a]) : a \in as}] :
     \A a \in as : Exists(a) /\ found[a] \in decode(acct[a])}

\* fetch_all_maybe_buffer and fetch_all_maybe_metadata: one that is missing is reported.
FetchAllMaybe(decode(_), as) ==
  {found \in [as -> (UNION {decode(acct[a]) : a \in as}) \cup {None}] :
     \A a \in as : IF Exists(a) THEN found[a] \in decode(acct[a]) ELSE found[a] = None}

FetchAllBuffer(as) == FetchAll(DecodeBuffer, as)
FetchAllMetadata(as) == FetchAll(DecodeMetadata, as)
FetchAllMaybeBuffer(as) == FetchAllMaybe(DecodeBuffer, as)
FetchAllMaybeMetadata(as) == FetchAllMaybe(DecodeMetadata, as)

-----------------------------------------------------------------------------
MetadataAccounts == {a \in Address : acct[a].discriminator = "Metadata"}
BufferAccounts == {a \in Address : acct[a].discriminator = "Buffer"}
Missing == {a \in Address : ~Exists(a)}

\* The data that the header declares.
Declared(r) == SubSeq(r.body, 1, r.dataLength)

\* What a decoder found has this data behind n bytes of padding.
Behind(n, data, found) == SubSeq(found.data, n + 1, n + Len(data)) = data

(***************************************************************************)
(* Whatever the program has done to them, readers can read all metadata    *)
(* there is.  The program's types find in it the data that its header      *)
(* declares, extended accounts included: external references if the bytes  *)
(* of the account are aligned in memory (data.rs:34), URLs if that data is *)
(* text (data.rs:27: nothing behind it spoils it).  The Rust client        *)
(* fetches it and the buffers in one go, missing ones reported; it agrees  *)
(* on the header, and returns the padding of the header with the data      *)
(* behind it (metadata.rs:33, metadata.rs:63; DecodedDataIsBody says what  *)
(* it should return).                                                      *)
(***************************************************************************)
MetadataReadable ==
  /\ \A a \in MetadataAccounts, base \in Base :
       LET r == acct[a]
       IN  /\ r.dataSource = "External" => IsMultiple(base, ExternalAlign)
           /\ r.dataSource = "Url" => IsText(Declared(r))
           => \E m \in Read(r, base) :
                m.header = r /\ SubSeq(m.data, 1, r.dataLength) = Declared(r)
  /\ \E found \in FetchAllMetadata(MetadataAccounts) :
       \A a \in MetadataAccounts :
         /\ found[a].mutable = acct[a].mutable
         /\ found[a].dataSource = acct[a].dataSource
         /\ found[a].dataLength = acct[a].dataLength
         /\ Behind(MetadataPadding, Declared(acct[a]), found[a])
  /\ \E found \in FetchAllMaybeMetadata(MetadataAccounts \cup Missing) :
       \A a \in MetadataAccounts : Behind(MetadataPadding, Declared(acct[a]), found[a])
  /\ \E found \in FetchAllBuffer(BufferAccounts) :
       \A a \in BufferAccounts : Behind(BufferPadding, acct[a].body, found[a])
  /\ \E found \in FetchAllMaybeBuffer(BufferAccounts \cup Missing) :
       \A a \in BufferAccounts : Behind(BufferPadding, acct[a].body, found[a])

\* header.rs:69 "This allows the data section to start at a 8-byte boundary." (and
\* buffer.rs:33 of the program: the header sections have the same size): the data the
\* client decodes is the data section.
DecodedDataIsBody ==
  \A a \in Address :
    /\ \A found \in FetchAllBuffer({a}) :
         ValidBuffer(acct[a]) => found[a].data = acct[a].body
    /\ \A found \in FetchAllMetadata({a}) :
         ValidMetadata(acct[a]) => found[a].data = acct[a].body

\* data.rs:52 "URL data is stored as a `str` value in the account.": it is text.
UrlIsText ==
  \A a \in MetadataAccounts : acct[a].dataSource = "Url" => IsText(Declared(acct[a]))
===============================================================================
