-------------------------------- MODULE Fetching --------------------------------
(***************************************************************************)
(* How the JavaScript client reads contents, while the program goes on.    *)
(* A reader asks the RPC node twice: for the metadata accounts, and then   *)
(* for the accounts that external metadata refers to.  What it returns is  *)
(* put together from answers given at two moments.                         *)
(*                                                                         *)
(* fetchMetadataContent is fetchAllMetadataContent of one account.         *)
(***************************************************************************)
EXTENDS ProgramMetadata, FiniteSets

CONSTANTS
  Query,          \* what may be asked for: sequences of metadata's addresses
  RecordOf(_),    \* the [address, offset, length] that ExternalLen bytes encode
  HeaderByte      \* stands for each byte of a header

ASSUME QueryAssumption ==
  \A q \in Query : q \in Seq(Pda) /\ q # <<>>

ASSUME RecordAssumption ==
  /\ \A bytes \in [1 .. ExternalLen -> Byte] :
       RecordOf(bytes) \in [address : Address, offset : Nat, length : Nat]
  /\ None \notin Nat

VARIABLE
  read   \* the reader: how far it is, what it asked for, was answered and returns

fetchVars == <<vars, read>>

Idle == [status |-> "idle", input |-> <<>>, strict |-> TRUE, accounts |-> <<>>, result |-> <<>>]

-----------------------------------------------------------------------------
(* The first answer.                                                       *)

Exists(a) == acct[a].lamports > 0

\* getMetadataDecoder: it does not look at the discriminator.  Where metadata says
\* whether it is mutable a buffer says whether it is canonical; the codec and source of
\* a buffer are zero.
Decoded(a) ==
  LET r == acct[a]
  IN  [address |-> a, discriminator |-> r.discriminator,
       mutable |-> IF r.discriminator = "Buffer" THEN r.canonical ELSE r.mutable,
       codec |-> r.codec, dataSource |-> r.dataSource, data |-> r.body]

\* fetchAllMaybeMetadata; fetchAllMetadataContent (strict) throws if one is missing,
\* fetchAndParseAllMetadataContent leaves it out.
FetchMetadata(input, strict) ==
  LET asked  == [read EXCEPT !.input = input, !.strict = strict]
      broken == \E i \in DOMAIN input : Exists(input[i]) /\ acct[input[i]].head < HeaderLen
      absent == \E i \in DOMAIN input : ~Exists(input[i])
  IN  /\ read.status = "idle"
      /\ read' = IF broken \/ (strict /\ absent)
                 THEN [asked EXCEPT !.status = "failed"]
                 ELSE [asked EXCEPT
                         !.status = "fetched",
                         !.accounts = [i \in DOMAIN input |->
                                         IF Exists(input[i]) THEN Decoded(input[i]) ELSE None]]
      /\ UNCHANGED vars

-----------------------------------------------------------------------------
(* The second answer.                                                      *)

\* unpackExternalData: no length means all there is.
UnpackExternalData(m) ==
  LET e == RecordOf(SubSeq(m.data, 1, ExternalLen))
  IN  [e EXCEPT !.length = IF @ = 0 THEN None ELSE @]

\* The bytes of an account, its header included.
AccountData(r) == [i \in 1 .. r.head |-> HeaderByte] \o r.body

\* unpackFetchedExternalData: data.slice(offset), then slice(0, length).
Slice(bytes, e) ==
  LET rest == SubSeq(bytes, e.offset + 1, Len(bytes))
  IN  IF e.length = None \/ e.length > Len(rest) THEN rest ELSE SubSeq(rest, 1, e.length)

\* Uncompressed and decoded; a page has to be fetched from its server in addition.
Text(codec, bytes) == [kind |-> "text", codec |-> codec, bytes |-> bytes]
Page(codec, bytes) == [kind |-> "page", codec |-> codec, bytes |-> bytes]
NoText == [kind |-> "text", codec |-> None, bytes |-> <<>>]

\* The n-th of a set of places, and a filtered list: the elements at those places.
Nth(places, n) == CHOOSE i \in places : Cardinality({j \in places : j <= i}) = n
Filtered(s, places) == [n \in 1 .. Cardinality(places) |-> s[Nth(places, n)]]

Externals(ms) == Filtered(ms, {i \in DOMAIN ms : ms[i].dataSource = "External"})

\* Mutant of FindIndex: the first external account, whichever is asked for.
FindIndexFirst(ms, a) == 1

\* Where the account of metadata a is among those fetched.
FindIndex(ms, a) ==
  CHOOSE i \in DOMAIN ms : ms[i].address = a /\ \A j \in 1 .. i - 1 : ms[j].address # a

\* unpackAndFetchAllData.
Unpacked(ms) ==
  LET externals == Externals(ms)
      unpacked  == [i \in DOMAIN externals |-> UnpackExternalData(externals[i])]
      fetched   == [i \in DOMAIN externals |-> AccountData(acct[unpacked[i].address])]
      own(m)    == LET i == FindIndex(externals, m.address)
                       bytes == Slice(fetched[i], unpacked[i])
                   IN  IF bytes = <<>> THEN NoText ELSE Text(m.codec, bytes)
  IN  [i \in DOMAIN ms |->
         CASE ms[i].dataSource = "Direct"   -> Text(ms[i].codec, ms[i].data)
           [] ms[i].dataSource = "Url"      -> Page(ms[i].codec, ms[i].data)
           [] ms[i].dataSource = "External" -> own(ms[i])]

\* An account referred to that is missing fails the whole.
Unpack ==
  LET ms == Filtered(read.accounts, {i \in DOMAIN read.accounts : read.accounts[i] # None})
      absent == \E i \in DOMAIN Externals(ms) :
                  ~Exists(UnpackExternalData(Externals(ms)[i]).address)
  IN  /\ read.status = "fetched"
      /\ read' = IF absent THEN [read EXCEPT !.status = "failed"]
                           ELSE [read EXCEPT !.status = "done", !.result = Unpacked(ms)]
      /\ UNCHANGED vars

Read == Unpack \/ \E q \in Query, strict \in BOOLEAN : FetchMetadata(q, strict)

FetchInit == Init /\ read = Idle

FetchNext == Read \/ (Next /\ UNCHANGED read)

FetchSpec == FetchInit /\ [][FetchNext]_fetchVars

-----------------------------------------------------------------------------
(* Properties.                                                             *)

\* The bytes of account a from an offset on: all of them, or length.
IsRange(bytes, a, offset, length) ==
  LET whole == AccountData(acct[a])
  IN  /\ \A i \in DOMAIN bytes : bytes[i] = whole[offset + i]
      /\ \/ Len(bytes) = length
         \/ (length = 0 \/ Len(bytes) < length) /\ offset + Len(bytes) = Len(whole)
         \/ bytes = <<>> /\ offset >= Len(whole)

\* The content c of metadata m: its own data, or the range it refers to.
IsContent(c, m) ==
  LET e == RecordOf(SubSeq(m.data, 1, ExternalLen))
  IN  /\ m.dataSource # "External" => c.codec = m.codec /\ c.bytes = m.data
      /\ m.dataSource = "External" => IsRange(c.bytes, e.address, e.offset, e.length)
      /\ c.kind = "page" <=> m.dataSource = "Url"

(***************************************************************************)
(* However direct, external and missing accounts are mixed, repeated and   *)
(* changed between the two answers, the i-th content returned is the one   *)
(* of the i-th account there is: an external one gets the bytes of the     *)
(* account it names itself, in the range it names (packData.ts:192-224,    *)
(* fetchMetadataContent.ts:90).                                            *)
(***************************************************************************)
EachGetsItsOwn ==
  [][read'.status = "done" /\ read.status # "done" =>
       \E at \in [DOMAIN read'.result -> DOMAIN read.input] :
         /\ {at[i] : i \in DOMAIN at} = {i \in DOMAIN read.input : read.accounts[i] # None}
         /\ \A i, j \in DOMAIN at : i < j => at[i] < at[j]
         /\ \A i \in DOMAIN at : IsContent(read'.result[i], read.accounts[at[i]])]_fetchVars

\* Metadata that a reader found immutable may be kept for good: whatever anybody does
\* afterwards, fetching it again would give the same (decoded from accounts/metadata.ts,
\* upheld by every handler that calls validate_metadata).
ImmutableReadsLast ==
  \A i \in DOMAIN read.accounts :
    LET m == read.accounts[i]
    IN  (m # None /\ m.discriminator = "Metadata" /\ ~m.mutable) =>
          Exists(read.input[i]) /\ Decoded(read.input[i]) = m

\* cli/commands/fetch.ts:17 "Fetch the content of a metadata account for a given
\* program.": what is returned is the content of metadata.
FetchesMetadata ==
  read.status = "done" =>
    \A i \in DOMAIN read.accounts :
      read.accounts[i] # None => read.accounts[i].discriminator = "Metadata"
================================================================================
