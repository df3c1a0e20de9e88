--------------------------- MODULE AtomicUploadProofs ---------------------------
(***************************************************************************)
(* The plans of the JavaScript client implement AtomicUploads, for any     *)
(* number of clients and data of any length.  In the order of the module:  *)
(*   what an instruction of a plan does to what the accounts show: nothing *)
(*   (QuietShowing), unless it publishes (PublicationShows) or closes what *)
(*   it was sent to close (CloseRemoves);                                  *)
(*   that a plan publishes once, so that a transaction, as long as it is,  *)
(*   makes at most one such Progress;                                      *)
(*   that plans begin with a publication to come, of the right kind;       *)
(*   each action of ClientPlans as one of AtomicUploads or a stutter, and  *)
(*   the theorem.                                                          *)
(***************************************************************************)
EXTENDS UploadRefinement, UploadProofs

-----------------------------------------------------------------------------
(* What accounts show.                                                     *)

\* Where r is replaced by s the same document shows, or none.
ShowsAlike(r, s) ==
  (IsMetadata(s) <=> IsMetadata(r)) /\ (IsMetadata(r) => Document(s) = Document(r))

LEMMA SameShowing ==
  ASSUME NEW A, NEW B, \A a \in Pda : ShowsAlike(A[a], B[a])
  PROVE  Showing(B) = Showing(A)
<1> DEFINE S == {a \in Pda : IsMetadata(A[a])}
           T == {a \in Pda : IsMetadata(B[a])}
<1>1. S = T
  BY DEF ShowsAlike
<1>2. \A a \in S : Document(B[a]) = Document(A[a])
  BY DEF ShowsAlike
<1>3. Showing(A) = [a \in S |-> Document(A[a])] /\ Showing(B) = [a \in T |-> Document(B[a])]
  BY DEF Showing
<1> HIDE DEF S, T
<1> QED
  BY <1>1, <1>2, <1>3

LEMMA AlikeShows ==
  ASSUME NEW r, NEW s, Alike(r, s)
  PROVE  ShowsAlike(r, s)
BY DEF Alike, SameKind, ShowsAlike, IsMetadata, Document

LEMMA FitContent ==
  ASSUME NEW body \in Seq(Byte), NEW n \in Nat, NEW len \in Nat, len <= n, len <= Len(body)
  PROVE  SubSeq(Fit(body, n), 1, len) = SubSeq(body, 1, len)
<1>1. Fit(body, n) \in Seq(Byte) /\ Len(Fit(body, n)) = n
  BY FitType
<1>2. \A p \in 1 .. len : Fit(body, n)[p] = body[p]
  BY DEF Fit
<1> QED
  BY <1>1, <1>2

\* Resizing metadata to no less than its data does not show.
LEMMA ResizedShows ==
  ASSUME NEW r \in AccountRecord, DataPresent(r), NEW n \in Nat,
         IsMetadata(r) => r.dataLength <= n, NEW s, SameKind(r, s), s.body = Fit(r.body, n)
  PROVE  ShowsAlike(r, s)
<1>1. IsMetadata(s) <=> IsMetadata(r)
  BY DEF SameKind, IsMetadata
<1>2. ASSUME IsMetadata(r) PROVE Document(s) = Document(r)
  <2>1. r.body \in Seq(Byte) /\ r.dataLength \in Nat /\ r.dataLength <= Len(r.body) /\ r.dataLength <= n
    BY <1>2 DEF DataPresent, AccountRecord, IsMetadata
  <2>2. SubSeq(Fit(r.body, n), 1, r.dataLength) = SubSeq(r.body, 1, r.dataLength)
    BY <2>1, FitContent
  <2> QED
    BY <2>2 DEF Document, SameKind
<1> QED
  BY <1>1, <1>2 DEF ShowsAlike

\* Zeros at the end make no other document.
LEMMA PaddedDocument ==
  ASSUME NEW body \in Seq(Byte), NEW data \in Seq(Byte), Padded(body, data)
  PROVE  Stripped(body) = Stripped(data)
<1> DEFINE S == {i \in DOMAIN body : \E k \in DOMAIN body : i <= k /\ body[k] # Zero}
           T == {i \in DOMAIN data : \E k \in DOMAIN data : i <= k /\ data[k] # Zero}
<1>1. /\ DOMAIN body = 1 .. Len(body) /\ DOMAIN data = 1 .. Len(data)
      /\ Len(body) \in Nat /\ Len(data) \in Nat /\ Len(data) <= Len(body)
      /\ \A k \in DOMAIN data : body[k] = data[k]
      /\ \A k \in DOMAIN body : body[k] # Zero => k \in DOMAIN data
  BY DEF Padded
<1>2. S = T
  <2>1. ASSUME NEW i \in S PROVE i \in T
    <3>1. PICK k \in DOMAIN body : i <= k /\ body[k] # Zero
      OBVIOUS
    <3>2. k \in DOMAIN data /\ data[k] # Zero /\ i \in DOMAIN data
      BY <1>1, <3>1
    <3> QED
      BY <3>1, <3>2
  <2>2. ASSUME NEW i \in T PROVE i \in S
    <3>1. PICK k \in DOMAIN data : i <= k /\ data[k] # Zero
      OBVIOUS
    <3>2. k \in DOMAIN body /\ body[k] # Zero /\ i \in DOMAIN body
      BY <1>1, <3>1
    <3> QED
      BY <3>1, <3>2
  <2> QED
    BY <2>1, <2>2
<1>3. \A i \in T : body[i] = data[i]
  BY <1>1
<1>4. Stripped(body) = [i \in S |-> body[i]] /\ Stripped(data) = [i \in T |-> data[i]]
  BY DEF Stripped
<1> HIDE DEF S, T
<1> QED
  BY <1>2, <1>3, <1>4

LEMMA PublishedDocument ==
  ASSUME NEW j, JobOK(j), NEW s, NEW body \in Seq(Byte), Padded(body, j.data),
         Publishes(j, s, body)
  PROVE  IsMetadata(s) /\ Document(s) = DocumentOf(j)
<1>1. j.data \in Seq(Byte)
  BY DEF JobOK
<1>2. SubSeq(body, 1, Len(body)) = body
  OBVIOUS
<1>3. Stripped(body) = Stripped(j.data)
  BY <1>1, PaddedDocument
<1> QED
  BY <1>2, <1>3 DEF Publishes, Document, DocumentOf

\* Metadata is no vacant account and no buffer.
LEMMA MetadataIsNothingElse ==
  ASSUME NEW a, NEW r \in AccountRecord, WellFormed(a, r), IsMetadata(r)
  PROVE  ~IsVacant(r) /\ ~ValidBuffer(r)
BY VacantEmpty DEF WellFormed, HeaderOwned, ValidBuffer, IsMetadata

-----------------------------------------------------------------------------
(* What an instruction of a plan does to what shows.                       *)

\* It closes what its job is to close.
Removes(j, i) == i.do = "close" /\ j.op = "close-buffer"

\* A plan closes no metadata of its own accord.
LEMMA ClosesNoMetadata ==
  ASSUME NEW J, NEW A, NEW c, NEW i, NEW J2, NEW A2, Stepped(J, A, c, i, J2, A2),
         i.do = "close", J[c].input.op # "close-buffer", i.account \in Pda
  PROVE  ~IsMetadata(A[i.account])
<1> DEFINE j == J[c].input
           P == J[c].plan
           a == i.account
<1> SUFFICES ASSUME IsMetadata(A[a]) PROVE FALSE
  OBVIOUS
<1>1. c \in Client /\ J[c].status = "running" /\ Fitting(j, i) /\ Leaves(P, i, J2[c].plan)
  BY DEF Stepped
<1>2. /\ JobOK(j) /\ PlaceHolds(J, j, P, A) /\ GivenHolds(j, A)
      /\ A \in [Address -> AccountRecord] /\ \A b \in Address : WellFormed(b, A[b])
  BY <1>1, SteppedJobs
<1>3. a \in Closable(j) /\ a \in Address
  BY <1>1, <1>2, JobAddresses DEF Fitting
<1>4. ~IsVacant(A[a]) /\ ~ValidBuffer(A[a])
  BY <1>2, <1>3, MetadataIsNothingElse
<1>5. a \notin Given(j)
  BY <1>2, <1>4 DEF GivenHolds
<1>6. a \notin Fresh(j)
  BY <1>2, JobAddresses, PdaAssumption, KeyAssumption
<1>7. ~(j.op = "create-buffer" /\ a \in Place(j))
  <2> SUFFICES ASSUME j.op = "create-buffer", a \in Place(j) PROVE FALSE
    OBVIOUS
  <2>1. HoldsPlace(j, P) /\ a = MetadataPda(j)
    BY <1>1, <1>2, HoldsWhatItWrites DEF Place
  <2> QED
    BY <1>2, <1>4, <2>1 DEF HoldsPlace, PlaceHolds
<1> QED
  BY <1>3, <1>5, <1>6, <1>7 DEF Closable

LEMMA QuietShows ==
  ASSUME NEW J, NEW A, NEW c, NEW i, NEW J2, NEW A2, Stepped(J, A, c, i, J2, A2),
         i.do \notin Publication, ~Removes(J[c].input, i), NEW a \in Pda
  PROVE  ShowsAlike(A[a], A2[a])
<1> DEFINE j == J[c].input
           r == A[a]
           s == A2[a]
<1>1. c \in Client /\ Fitting(j, i) /\ Changes(j, i, A, A2)
  BY DEF Stepped
<1>2. a \in Address
  BY DEF Address
<1>3. JobOK(j) /\ r \in AccountRecord /\ WellFormed(a, r) /\ DataPresent(r)
  BY <1>1, <1>2, SteppedJobs DEF WellFormed
<1>4. CASE Spot(j, i) # a
  BY <1>1, <1>2, <1>4, AlikeShows DEF Changes
<1>5. CASE Spot(j, i) = a
  <2>1. Outcome(j, i, A, s)
    BY <1>1, <1>5 DEF Changes
  <2>2. CASE i.do = "transfer"
    BY <1>5, <2>1, <2>2, AlikeShows DEF Outcome
  <2>3. i.do \notin {"createAccount", "allocateKeypair", "setAuthority"}
    <3>1. i.do \in {"createAccount", "allocateKeypair", "setAuthority"} => a \in Fresh(j)
      BY <1>1, <1>5 DEF Spot, Fitting
    <3> QED
      BY <1>3, <3>1, JobAddresses, PdaAssumption, KeyAssumption
  <2>4. CASE i.do \in {"allocate", "write", "writeFrom"}
    <3>1. ~IsMetadata(s)
      BY <1>5, <2>1, <2>4 DEF Outcome, ValidBuffer, SameKind, IsMetadata
    <3>2. IsVacant(r) \/ ValidBuffer(r)
      BY <1>5, <2>1, <2>4 DEF Outcome
    <3> QED
      BY <1>3, <3>1, <3>2, MetadataIsNothingElse DEF ShowsAlike
  <2>5. CASE i.do = "extend"
    <3>1. Len(r.body) + i.length \in Nat /\ (IsMetadata(r) => r.dataLength <= Len(r.body) + i.length)
      BY <1>1, <1>3, <2>5 DEF Fitting, DataPresent, AccountRecord
    <3>2. SameKind(r, s) /\ s.body = Fit(r.body, Len(r.body) + i.length)
      BY <1>5, <2>1, <2>5 DEF Outcome
    <3> QED
      BY <1>3, <3>1, <3>2, ResizedShows
  <2>6. CASE i.do = "trim"
    <3>1. TrimmedLen(r) \in Nat /\ (IsMetadata(r) => r.dataLength <= TrimmedLen(r))
      BY <1>3 DEF TrimmedLen, IsMetadata, AccountRecord
    <3>2. SameKind(r, s) /\ s.body = Fit(r.body, TrimmedLen(r))
      BY <1>5, <2>1, <2>6 DEF Outcome
    <3> QED
      BY <1>3, <3>1, <3>2, ResizedShows
  <2>7. CASE i.do = "close"
    <3>1. i.account = a
      BY <1>5, <2>7 DEF Spot
    <3>2. ~IsMetadata(r)
      BY <2>7, <3>1, ClosesNoMetadata DEF Removes
    <3>3. ~IsMetadata(s)
      BY <2>1, <2>7 DEF Outcome, IsMetadata
    <3> QED
      BY <3>2, <3>3 DEF ShowsAlike
  <2> QED
    BY <1>1, <2>2, <2>3, <2>4, <2>5, <2>6, <2>7 DEF Fitting, Publication
<1> QED
  BY <1>4, <1>5

LEMMA QuietShowing ==
  ASSUME NEW J, NEW A, NEW c, NEW i, NEW J2, NEW A2, Stepped(J, A, c, i, J2, A2),
         i.do \notin Publication, ~Removes(J[c].input, i)
  PROVE  Showing(A2) = Showing(A)
BY QuietShows, SameShowing

\* A publication leaves metadata with the data of its job, all of it, and zeros behind.
LEMMA PublicationPublishes ==
  ASSUME NEW J, NEW A, NEW c, NEW i, NEW J2, NEW A2, Stepped(J, A, c, i, J2, A2),
         i.do \in Publication
  PROVE  LET j == J[c].input
             m == MetadataPda(j)
         IN  /\ Spot(j, i) = m /\ Outcome(j, i, A, A2[m])
             /\ \E body \in Seq(Byte) :
                  /\ Padded(body, j.data) /\ Publishes(j, A2[m], body)
                  /\ body = j.data \/ Misled(J, m)
<1> DEFINE j == J[c].input
           m == MetadataPda(j)
           s == A2[m]
<1>1. c \in Client /\ Fitting(j, i) /\ Changes(j, i, A, A2) /\ i.do \in {"initialize", "setData", "setDataFrom"}
  BY DEF Stepped, Publication
<1>2. Spot(j, i) = m
  <2>1. i.do \in {"setData", "setDataFrom"} => i.account \in {m}
    BY <1>1 DEF Fitting, Target, Place
  <2> QED
    BY <1>1, <2>1 DEF Spot
<1>3. Outcome(j, i, A, s)
  BY <1>1, <1>2 DEF Changes
<1>5. /\ A[m] \in AccountRecord /\ A[m].body \in Seq(Byte)
      /\ j.data \in Seq(Byte) /\ Padded(j.data, j.data)
  <2>1. JobOK(j) /\ A \in [Address -> AccountRecord]
    BY <1>1, SteppedJobs
  <2>2. A[m] \in AccountRecord
    BY <2>1, JobAddresses
  <2> QED
    BY <2>1, <2>2, JobData, PaddedItself DEF AccountRecord
<1>4. \E body \in Seq(Byte) :
        /\ Padded(body, j.data) /\ Publishes(j, s, body)
        /\ body = j.data \/ Misled(J, m)
  <2>1. CASE i.do = "initialize"
    <3>1. \/ ValidBuffer(A[m]) /\ i.data = <<>> /\ Publishes(j, s, A[m].body)
          \/ i.data # <<>> /\ Publishes(j, s, i.data)
      BY <1>2, <1>3, <2>1 DEF Outcome
    <3>2. i.data \in {<<>>, j.data}
      BY <1>1, <2>1 DEF Fitting
    <3> QED
      BY <1>5, <2>1, <3>1, <3>2, TakenIsWhole
  <2>2. CASE i.do = "setData"
    BY <1>1, <1>3, <1>5, <2>2 DEF Outcome, Fitting
  <2>3. CASE i.do = "setDataFrom"
    <3>1. ValidBuffer(A[i.source]) /\ Publishes(j, s, A[i.source].body)
      BY <1>3, <2>3 DEF Outcome
    <3>2. A[i.source].body = j.data
      BY <2>3, <3>1, TakenIsWhole
    <3> QED
      BY <1>5, <3>1, <3>2
  <2> QED
    BY <1>1, <2>1, <2>2, <2>3
<1> QED
  BY <1>2, <1>3, <1>4

\* It shows, and the rest is left alone.
LEMMA PublicationShows ==
  ASSUME NEW J, NEW A, NEW c, NEW i, NEW J2, NEW A2, Stepped(J, A, c, i, J2, A2),
         i.do \in Publication
  PROVE  LET j == J[c].input
             m == MetadataPda(j)
         IN  /\ j.op \in {"create", "update", "write"} /\ m \in Pda
             /\ i.do = "initialize" => ~IsMetadata(A[m])
             /\ i.do \in {"setData", "setDataFrom"} => IsMetadata(A[m])
             /\ Showing(A2) = WithDocument(Showing(A), j)
<1> DEFINE j == J[c].input
           m == MetadataPda(j)
           r == A[m]
           s == A2[m]
<1>1. c \in Client /\ Fitting(j, i) /\ Changes(j, i, A, A2) /\ i.do \in {"initialize", "setData", "setDataFrom"}
  BY DEF Stepped, Publication
<1>2. JobOK(j) /\ m \in Pda /\ m \in Address
  BY <1>1, SteppedJobs, JobAddresses
<1>3. r \in AccountRecord /\ WellFormed(m, r)
  BY <1>1, <1>2, SteppedJobs
<1>4. j.op \in {"create", "update", "write"}
  BY <1>1 DEF Fitting, Target, Place, AtPlace
<1>5. Spot(j, i) = m /\ Outcome(j, i, A, s)
  BY PublicationPublishes
<1>6. PICK body \in Seq(Byte) : Padded(body, j.data) /\ Publishes(j, s, body)
  BY PublicationPublishes
<1>7. i.do = "initialize" => ~IsMetadata(r)
  <2>1. i.do = "initialize" => IsVacant(r) \/ ValidBuffer(r)
    BY <1>5 DEF Outcome
  <2> QED
    BY <1>3, <2>1, MetadataIsNothingElse
<1>8. i.do \in {"setData", "setDataFrom"} => IsMetadata(r)
  BY <1>5 DEF Outcome, ValidMetadata, IsMetadata
<1>10. IsMetadata(s) /\ Document(s) = DocumentOf(j)
  BY <1>2, <1>6, PublishedDocument
<1>11. \A a \in Pda \ {m} : ShowsAlike(A[a], A2[a])
  <2> TAKE a \in Pda \ {m}
  <2>1. a \in Address
    BY DEF Address
  <2> QED
    BY <1>1, <1>5, <2>1, AlikeShows DEF Changes
<1>12. Showing(A2) = WithDocument(Showing(A), j)
  <2> DEFINE S == {a \in Pda : IsMetadata(A[a])}
             T == {a \in Pda : IsMetadata(A2[a])}
             W == WithDocument(Showing(A), j)
  <2>1. /\ DOMAIN Showing(A) = S /\ \A a \in S : Showing(A)[a] = Document(A[a])
        /\ Showing(A2) = [a \in T |-> Document(A2[a])]
    BY DEF Showing
  <2>2. T = S \cup {m}
    BY <1>2, <1>10, <1>11 DEF ShowsAlike
  <2>3. \A a \in S \ {m} : Document(A2[a]) = Document(A[a])
    BY <1>11 DEF ShowsAlike
  <2> HIDE DEF S, T, m
  <2>4. W = [a \in S \cup {m} |-> IF a = m THEN DocumentOf(j) ELSE Showing(A)[a]]
    BY <2>1 DEF WithDocument, m
  <2>5. \A a \in T : Document(A2[a]) = IF a = m THEN DocumentOf(j) ELSE Showing(A)[a]
    BY <1>10, <2>1, <2>2, <2>3
  <2> QED
    BY <2>1, <2>2, <2>4, <2>5
<1> QED
  BY <1>2, <1>4, <1>7, <1>8, <1>12

\* Documents S, without the one at p.
WithoutDocument(S, p) == [a \in DOMAIN S \ {p} |-> S[a]]

\* What is closed at a user's request shows no more, and nothing else happens.
LEMMA CloseRemoves ==
  ASSUME NEW J, NEW A, NEW c, NEW i, NEW J2, NEW A2, Stepped(J, A, c, i, J2, A2),
         J[c].input.op = "close-buffer"
  PROVE  LET t == J[c].input.target
         IN  /\ J2[c].plan = <<>>
             /\ Showing(A2) = WithoutDocument(Showing(A), t)
<1> DEFINE j == J[c].input
           t == j.target
<1>1. c \in Client /\ Fitting(j, i) /\ Changes(j, i, A, A2)
  BY DEF Stepped
<1>2. /\ JobOK(j) /\ Fresh(j) = {} /\ Given(j) = {} /\ ~AtPlace(j) /\ Place(j) = {}
      /\ Target(j) = {} /\ Closable(j) = {t}
  <2>1. JobOK(j) /\ Fresh(j) = {} /\ Given(j) = {} /\ ~AtPlace(j)
    BY <1>1, SteppedJobs DEF JobOK, AtPlace
  <2>2. Place(j) = {} /\ Target(j) = {}
    BY <2>1 DEF Place, Target
  <2> QED
    BY <2>1, <2>2 DEF Closable
<1>3. i.do = "close" /\ i.account = t
  BY <1>1, <1>2, SMTT(60) DEF Fitting
<1>4. J2[c].plan = <<>>
  BY <1>2, <1>3, CloseIsLast
<1>5. ~IsMetadata(A2[t])
  BY <1>1, <1>3 DEF Changes, Outcome, Spot, IsMetadata
<1>6. \A a \in Pda \ {t} : ShowsAlike(A[a], A2[a])
  <2> TAKE a \in Pda \ {t}
  <2>1. a \in Address
    BY DEF Address
  <2> QED
    BY <1>1, <1>3, <2>1, AlikeShows DEF Changes, Spot
<1>7. Showing(A2) = [a \in DOMAIN Showing(A) \ {t} |-> Showing(A)[a]]
  <2> DEFINE S == {a \in Pda : IsMetadata(A[a])}
             T == {a \in Pda : IsMetadata(A2[a])}
  <2>1. /\ DOMAIN Showing(A) = S /\ \A a \in S : Showing(A)[a] = Document(A[a])
        /\ Showing(A2) = [a \in T |-> Document(A2[a])]
    BY DEF Showing
  <2>2. T = S \ {t} /\ \A a \in T : Document(A2[a]) = Document(A[a])
    BY <1>5, <1>6 DEF ShowsAlike
  <2> HIDE DEF S, T, t
  <2> QED
    BY <2>1, <2>2
<1> QED
  BY <1>4, <1>7 DEF WithoutDocument

-----------------------------------------------------------------------------
(* A plan publishes once.                                                  *)

LEMMA StepProgress ==
  ASSUME NEW J, NEW A, NEW c, NEW i, NEW J2, NEW A2, Stepped(J, A, c, i, J2, A2),
         J[c].input.op # "close-buffer", Aims(J[c].input, J[c].plan)
  PROVE  /\ Progress(J[c].input, J[c].plan, A, J2[c].plan, A2)
         /\ Aims(J[c].input, J2[c].plan)
<1> DEFINE j == J[c].input
           P == J[c].plan
           Q == J2[c].plan
           m == MetadataPda(j)
<1>1. /\ Leaves(P, i, Q) /\ i \in Remaining(P)
      /\ Remaining(Q) \subseteq Remaining(P) /\ Remaining(P) \subseteq Remaining(Q) \cup {i}
  BY DEF Stepped, Leaves
<1>2. Aims(j, Q)
  BY <1>1 DEF Aims, Has
<1>3. CASE i.do \notin Publication
  <2>1. Showing(A2) = Showing(A)
    BY <1>3, QuietShowing DEF Removes
  <2>2. ToPublish(P) <=> ToPublish(Q)
    BY <1>1, <1>3 DEF ToPublish
  <2> QED
    BY <1>2, <2>1, <2>2 DEF Progress
<1>4. CASE i.do \in Publication
  <2>1. /\ j.op \in {"create", "update", "write"} /\ m \in Pda
        /\ i.do = "initialize" => ~IsMetadata(A[m])
        /\ i.do \in {"setData", "setDataFrom"} => IsMetadata(A[m])
        /\ Showing(A2) = WithDocument(Showing(A), j)
    BY <1>4, PublicationShows
  <2>2. ToPublish(P) /\ ~ToPublish(Q)
    <3>1. ToPublish(P)
      BY <1>1, <1>4 DEF ToPublish
    <3>2. i.do \in {"initialize", "setData", "setDataFrom"}
      BY <1>4 DEF Publication
    <3>3. \A k \in Remaining(Q) : k.do \notin {"initialize", "setData", "setDataFrom"}
      BY <1>1, <3>2, Behind
    <3> QED
      BY <3>1, <3>3 DEF ToPublish, Publication
  <2>3. j.op = "create" => i.do = "initialize"
    BY <1>1, <1>4 DEF Aims, Has, Publication
  <2>4. j.op = "update" => i.do \in {"setData", "setDataFrom"}
    BY <1>1, <1>4 DEF Aims, Has, Publication
  <2>5. m \in DOMAIN Showing(A) <=> IsMetadata(A[m])
    BY <2>1 DEF Showing
  <2>6. /\ j.op = "create" => m \notin DOMAIN Showing(A)
        /\ j.op = "update" => m \in DOMAIN Showing(A)
    BY <2>1, <2>3, <2>4, <2>5
  <2> QED
    BY <1>2, <2>1, <2>2, <2>6 DEF Progress
<1> QED
  BY <1>3, <1>4

LEMMA ProgressGoesOn ==
  ASSUME NEW j, NEW P, NEW A, NEW Q, NEW B, NEW R, NEW C,
         Progress(j, P, A, Q, B), Progress(j, Q, B, R, C)
  PROVE  Progress(j, P, A, R, C)
BY DEF Progress

-----------------------------------------------------------------------------
(* A client begins.                                                        *)

\* It has rejected its job, or has a plan that is yet to publish, if it is to publish.
Begun(c) ==
  /\ SameJobs(job, job', c) /\ UNCHANGED <<vars, open>>
  /\ \/ job'[c].status = "rejected"
     \/ /\ job'[c].status = "running"
        /\ Aims(job[c].input, job'[c].plan)
        /\ Publishing(c) => ToPublish(job'[c].plan)

LEMMA CreatingAims ==
  ASSUME NEW j, j.op \in {"create", "write"}, NEW P, Creating(P)
  PROVE  Aims(j, P) /\ ToPublish(P)
BY DEF Creating, Aims, ToPublish, Publication, Has

LEMMA UpdatingAims ==
  ASSUME NEW j, j.op \in {"update", "write"}, NEW P, Updating(P)
  PROVE  Aims(j, P) /\ ToPublish(P)
BY DEF Updating, Aims, ToPublish, Publication, Has

LEMMA StartBegins ==
  ASSUME UploadInv, NEW c \in Client, job[c].status = "waiting",
         NEW a, NEW plan, NEW whole, Start(c, a, plan, whole),
         Aims(job[c].input, plan), Publishing(c) => ToPublish(plan)
  PROVE  Begun(c)
<1>1. DOMAIN job = Client /\ \A d \in Client : DOMAIN job[d] = ClientJob
  BY DEF UploadInv, JobsOK
<1>2. job' = StartedWith(c, a, "running", plan, whole) /\ UNCHANGED <<vars, open>>
  BY DEF Start
<1>3. SameJobs(job, job', c) /\ job'[c].status = "running" /\ job'[c].plan = plan
  BY <1>1, <1>2, StartedJobs
<1> QED
  BY <1>2, <1>3 DEF Begun

LEMMA RejectBegins ==
  ASSUME UploadInv, NEW c \in Client, job[c].status = "waiting", NEW a, Reject(c, a)
  PROVE  Begun(c)
<1> DEFINE none == <<>>
           no == FALSE
<1>1. DOMAIN job = Client /\ \A d \in Client : DOMAIN job[d] = ClientJob
  BY DEF UploadInv, JobsOK
<1>2. job' = StartedWith(c, a, "rejected", none, no) /\ UNCHANGED <<vars, open>>
  BY DEF Reject
<1> HIDE DEF none, no
<1>3. SameJobs(job, job', c) /\ job'[c].status = "rejected"
  BY <1>1, <1>2, StartedJobs
<1> QED
  BY <1>2, <1>3 DEF Begun

LEMMA CreateBegins ==
  ASSUME UploadInv, NEW c \in Client, job[c].status = "waiting",
         job[c].input.op \in {"create", "write"}, StartCreate(c)
  PROVE  Begun(c)
<1> DEFINE j == job[c].input
           a == MetadataPda(j)
<1>1. Ready(j) /\ AtPlace(j) /\ j.op # "create-buffer"
  BY JobReady DEF UploadInv, AtPlace
<1>2. ASSUME NEW plan, NEW whole, Start(c, a, plan, whole), Creating(plan) PROVE Begun(c)
  BY <1>2, CreatingAims, StartBegins
<1>3. CASE FromExisting(j) /\ ~Decodable(j.buffer) /\ Reject(c, a)
  BY <1>3, RejectBegins
<1>4. CASE /\ FromExisting(j) /\ Decodable(j.buffer)
           /\ Start(c, a, CreateUsingExistingBuffer(j, BodyLen(j.buffer)), FALSE)
  <2>1. j.buffer \in Given(j)
    BY <1>4 DEF FromExisting, Given
  <2>2. BodyLen(j.buffer) = Len(j.data)
    BY <1>4, <2>1, GivenLength
  <2>3. Creating(CreateUsingExistingBuffer(j, BodyLen(j.buffer)))
    BY <1>1, <2>1, <2>2, ExistingBufferCreates
  <2> QED
    BY <1>2, <1>4, <2>3
<1>5. CASE Inline(j) /\ Start(c, a, CreateUsingInstructionData(j), TRUE)
  BY <1>1, <1>2, <1>5, InstructionDataCreates
<1>6. CASE Start(c, a, CreateUsingNewBuffer(j), FALSE)
  BY <1>1, <1>2, <1>6, NewBufferCreates
<1> QED
  BY <1>3, <1>4, <1>5, <1>6 DEF StartCreate

LEMMA UpdateBegins ==
  ASSUME UploadInv, NEW c \in Client, job[c].status = "waiting",
         job[c].input.op \in {"update", "write"}, StartUpdate(c)
  PROVE  Begun(c)
<1> DEFINE j == job[c].input
           a == MetadataPda(j)
<1>1. /\ Ready(j) /\ JobOK(j) /\ AtPlace(j) /\ j.op # "create-buffer" /\ Len(j.data) \in Nat
  BY JobReady, JobData DEF UploadInv, AtPlace, Ready
<1>2. BodyLen(a) \in Nat
  BY <1>1, JobAddresses, BodyLengths
<1>3. ASSUME NEW plan, NEW whole, Start(c, a, plan, whole), Updating(plan) PROVE Begun(c)
  BY <1>3, UpdatingAims, StartBegins
<1>4. CASE Reject(c, a)
  BY <1>4, RejectBegins
<1>5. CASE /\ FromExisting(j) /\ Decodable(j.buffer)
           /\ Start(c, a, UpdateUsingExistingBuffer(j, BodyLen(j.buffer) - BodyLen(a)), FALSE)
  <2>1. j.buffer \in Given(j)
    BY <1>5 DEF FromExisting, Given
  <2>2. BodyLen(j.buffer) = Len(j.data)
    BY <1>5, <2>1, GivenLength
  <2> DEFINE extra == BodyLen(j.buffer) - BodyLen(a)
  <2>3. Extra(j, extra)
    BY <1>1, <1>2, <2>2 DEF Extra
  <2> HIDE DEF extra
  <2>4. Updating(UpdateUsingExistingBuffer(j, extra))
    BY <1>1, <2>1, <2>3, ExistingBufferUpdates
  <2> QED
    BY <1>3, <1>5, <2>4 DEF extra
<1> DEFINE extra == Len(j.data) - BodyLen(a)
<1>6. Extra(j, extra)
  BY <1>1, <1>2 DEF Extra
<1>7. CASE Start(c, a, UpdateUsingInstructionData(j, extra), TRUE)
  <2> HIDE DEF extra
  <2>1. Updating(UpdateUsingInstructionData(j, extra))
    BY <1>1, <1>6, InstructionDataUpdates
  <2> QED
    BY <1>3, <1>7, <2>1
<1>8. CASE ~FromExisting(j) /\ ~Inline(j) /\ Start(c, a, UpdateUsingNewBuffer(j, extra), FALSE)
  <2>1. Given(j) = {} /\ Len(j.data) > InlineLimit
    BY <1>1, <1>8, PlanAssumption DEF FromExisting, Inline, Given
  <2>2. Fresh(j) # {}
    BY <1>1, <2>1 DEF JobOK
  <2> HIDE DEF extra
  <2>3. Updating(UpdateUsingNewBuffer(j, extra))
    BY <1>1, <1>6, <2>2, NewBufferUpdates
  <2> QED
    BY <1>3, <1>8, <2>3
<1> QED
  BY <1>4, <1>5, <1>7, <1>8 DEF StartUpdate

LEMMA BeginBegins ==
  ASSUME UploadInv, NEW c \in Client, Begin(c)
  PROVE  Begun(c)
<1>1. job[c].input.op # "update-buffer" /\ job[c].status = "waiting"
  BY DEF UploadInv, JobsOK, JobOK, Begin
<1>2. ASSUME job[c].input.op \in {"create-buffer", "close-buffer"},
             NEW a, NEW plan, NEW whole, Start(c, a, plan, whole)
      PROVE  Begun(c)
  BY <1>1, <1>2, StartBegins DEF Aims, Publishing
<1>3. CASE job[c].input.op = "create" /\ StartCreate(c)
  BY <1>1, <1>3, CreateBegins
<1>4. CASE job[c].input.op = "update" /\ StartUpdate(c)
  BY <1>1, <1>4, UpdateBegins
<1>5. CASE job[c].input.op = "write" /\ StartWrite(c)
  BY <1>1, <1>5, CreateBegins, UpdateBegins DEF StartWrite
<1>6. CASE job[c].input.op = "create-buffer" /\ StartCreateBuffer(c)
  BY <1>1, <1>2, <1>6, RejectBegins DEF StartCreateBuffer
<1>7. CASE job[c].input.op = "close-buffer" /\ StartCloseBuffer(c)
  BY <1>1, <1>2, <1>7, RejectBegins DEF StartCloseBuffer
<1> QED
  BY <1>1, <1>3, <1>4, <1>5, <1>6, <1>7 DEF Begin


-----------------------------------------------------------------------------
(* The actions.                                                            *)

AtomicStep == Atomic!Next \/ UNCHANGED Atomic!vars

\* The rest of AtomicInv, besides UploadInv.
AimsOK == \A c \in Client : Running(c) => Aims(job[c].input, job[c].plan)

TransactionOK ==
  open # None =>
    LET j == job[open.client].input
    IN  /\ Running(open.client) /\ j.op # "close-buffer"
        /\ Progress(j, open.plan, open.acct, job[open.client].plan, acct)

LEMMA AtomicInvParts == AtomicInv <=> UploadInv /\ AimsOK /\ TransactionOK
BY DEF AtomicInv, AimsOK, TransactionOK

LEMMA RequestsStay ==
  ASSUME NEW c \in Client, SameJobs(job, job', c)
  PROVE  [d \in Client |-> RequestOf(job[d].input)]' = [d \in Client |-> RequestOf(job[d].input)]
<1>1. \A d \in Client : job'[d].input = job[d].input
  BY DEF SameJobs
<1>2. \A d \in Client : RequestOf(job'[d].input) = RequestOf(job[d].input)
  BY <1>1
<1> QED
  BY <1>2

\* The stage of a client, from which transaction it is settled in and what it is about.
LEMMA OtherStageStays ==
  ASSUME NEW c \in Client, SameJobs(job, job', c), NEW d \in Client \ {c},
         open # None => open.client = c, open' # None => open'.client = c
  PROVE  StageOf(d)' = StageOf(d)
<1>1. /\ job'[d].input = job[d].input /\ job'[d].status = job[d].status
      /\ job'[d].plan = job[d].plan
  BY DEF SameJobs
<1>2. SettledPlan(d) = job[d].plan /\ SettledPlan(d)' = job[d].plan
  BY <1>1 DEF SettledPlan
<1>3. (Running(d)' <=> Running(d)) /\ (Publishing(d)' <=> Publishing(d))
  BY <1>1 DEF Running, Publishing
<1>4. ToPublish(SettledPlan(d))' <=> ToPublish(SettledPlan(d))
  <2>1. ToPublish(SettledPlan(d))' <=> ToPublish(SettledPlan(d)')
    BY DEF ToPublish, Remaining
  <2> QED
    BY <1>2, <2>1
<1> QED
  BY <1>1, <1>3, <1>4 DEF StageOf

\* A step of client c from stage to stage.
LEMMA StageMoves ==
  ASSUME NEW c \in Client, SameJobs(job, job', c),
         open # None => open.client = c, open' # None => open'.client = c,
         NEW from, StageOf(c) \in from, NEW to, StageOf(c)' \in to
  PROVE  Atomic!Moves(c, from, to)
<1> DEFINE S == [d \in Client |-> StageOf(d)]
           T == [d \in Client |-> StageOf(d)']
<1>1. \A d \in Client \ {c} : StageOf(d)' = StageOf(d)
  BY OtherStageStays
<1>2. T = [S EXCEPT ![c] = StageOf(c)']
  BY <1>1
<1>3. S[c] \in from
  OBVIOUS
<1>4. [d \in Client |-> StageOf(d)]' = T
  OBVIOUS
<1> QED
  BY <1>2, <1>3, <1>4, RequestsStay DEF Atomic!Moves

\* ...or within its stage, in which nothing comes to show.
LEMMA StageStutters ==
  ASSUME NEW c \in Client, SameJobs(job, job', c),
         open # None => open.client = c, open' # None => open'.client = c,
         StageOf(c)' = StageOf(c), Showing(SettledAccounts)' = Showing(SettledAccounts)
  PROVE  UNCHANGED Atomic!vars
<1>1. \A d \in Client : StageOf(d)' = StageOf(d)
  BY OtherStageStays
<1>2. [d \in Client |-> StageOf(d)]' = [d \in Client |-> StageOf(d)]
  BY <1>1
<1> QED
  BY <1>2, RequestsStay DEF Atomic!vars

\* The request as AtomicUploads reads it.
LEMMA Requests ==
  ASSUME NEW c \in Client
  PROVE  LET j == job[c].input
             r == [d \in Client |-> RequestOf(job[d].input)][c]
         IN  /\ Publishing(c) <=> r.goal \in {"create", "update", "write"}
             /\ Publishing(c) => r.goal = j.op /\ r.place = MetadataPda(j)
             /\ r.document = DocumentOf(j)
             /\ j.op = "close-buffer" <=> r.goal = "remove"
             /\ j.op = "close-buffer" => r.place = j.target
<1> DEFINE j == job[c].input
<1>1. [d \in Client |-> RequestOf(job[d].input)][c] = RequestOf(j)
  OBVIOUS
<1>2. Publishing(c) <=> j.op \in {"create", "update", "write"}
  BY DEF Publishing
<1>3. RequestOf(j).document = DocumentOf(j)
  BY DEF RequestOf
<1>4. RequestOf(j).place = IF j.op = "close-buffer" THEN j.target ELSE MetadataPda(j)
  BY DEF RequestOf
<1>5. CASE j.op = "close-buffer"
  <2>1. RequestOf(j).goal = "remove"
    BY <1>5 DEF RequestOf
  <2> QED
    BY <1>1, <1>2, <1>3, <1>4, <1>5, <2>1
<1>6. CASE j.op \in {"create", "update", "write"}
  <2>1. RequestOf(j).goal = j.op
    BY <1>6 DEF RequestOf
  <2> QED
    BY <1>1, <1>2, <1>3, <1>4, <1>6, <2>1
<1>7. CASE j.op \notin {"create", "update", "write", "close-buffer"}
  <2>1. RequestOf(j).goal = "prepare"
    BY <1>7 DEF RequestOf
  <2> QED
    BY <1>1, <1>2, <1>3, <1>4, <1>7, <2>1
<1> QED
  BY <1>5, <1>6, <1>7


\* The stage of the client that moves, after its move.
LEMMA StageAfter ==
  ASSUME NEW c \in Client, SameJobs(job, job', c), NEW Q, SettledPlan(c)' = Q
  PROVE  StageOf(c)' =
           IF job'[c].status = "running" /\ Publishing(c) /\ ~ToPublish(Q) THEN "published"
           ELSE job'[c].status
<1>1. job'[c].input = job[c].input
  BY DEF SameJobs
<1>2. (Publishing(c)' <=> Publishing(c)) /\ (Running(c)' <=> job'[c].status = "running")
  BY <1>1 DEF Publishing, Running
<1>3. ToPublish(SettledPlan(c))' <=> ToPublish(Q)
  <2>1. ToPublish(SettledPlan(c))' <=> ToPublish(SettledPlan(c)')
    BY DEF ToPublish, Remaining
  <2> QED
    BY <2>1
<1> QED
  BY <1>2, <1>3 DEF StageOf

\* What makes a step of the client the moment of its upload...
LEMMA PublishesNow ==
  ASSUME NEW c \in Client, Publishing(c), Atomic!Moves(c, {"running"}, {"published", "done"}),
         LET j == job[c].input
             S == Showing(SettledAccounts)
         IN  /\ j.op = "create" => MetadataPda(j) \notin DOMAIN S
             /\ j.op = "update" => MetadataPda(j) \in DOMAIN S
             /\ Showing(SettledAccounts)' = WithDocument(S, j)
  PROVE  Atomic!Publish(c)
<1> DEFINE j == job[c].input
           S == Showing(SettledAccounts)
           r == [d \in Client |-> RequestOf(job[d].input)][c]
           T == [p \in DOMAIN S \cup {r.place} |-> IF p = r.place THEN r.document ELSE S[p]]
<1>1. /\ r.goal \in {"create", "update", "write"} /\ r.goal = j.op
      /\ r.place = MetadataPda(j) /\ r.document = DocumentOf(j)
  BY Requests
<1> HIDE DEF r
<1>2. /\ r.goal = "create" => r.place \notin DOMAIN S
      /\ r.goal = "update" => r.place \in DOMAIN S
  BY <1>1
<1>3. Showing(SettledAccounts)' = T
  BY <1>1 DEF WithDocument
<1> HIDE DEF S, T
<1> QED
  BY <1>1, <1>2, <1>3 DEF Atomic!Publish, Atomic!Uploading, r, S, T

\* ...its end, when it had published or had nothing to publish...
LEMMA FinishesNow ==
  ASSUME NEW c \in Client, job[c].input.op # "close-buffer",
         Atomic!Moves(c, IF Publishing(c) THEN {"published"} ELSE {"running"}, {"done"}),
         Showing(SettledAccounts)' = Showing(SettledAccounts)
  PROVE  Atomic!Finish(c)
<1> DEFINE r == [d \in Client |-> RequestOf(job[d].input)][c]
<1>1. r.goal # "remove" /\ (Publishing(c) <=> r.goal \in {"create", "update", "write"})
  BY Requests
<1> HIDE DEF r
<1>2. Atomic!Uploading(c) <=> Publishing(c)
  BY <1>1 DEF Atomic!Uploading, r
<1> QED
  BY <1>1, <1>2 DEF Atomic!Finish, r

\* ...and the removal it was asked for.
LEMMA RemovesNow ==
  ASSUME NEW c \in Client, job[c].input.op = "close-buffer",
         Atomic!Moves(c, {"running"}, {"done"}),
         Showing(SettledAccounts)' =
           WithoutDocument(Showing(SettledAccounts), job[c].input.target)
  PROVE  Atomic!Remove(c)
<1> DEFINE r == [d \in Client |-> RequestOf(job[d].input)][c]
           S == Showing(SettledAccounts)
           T == [a \in DOMAIN S \ {r.place} |-> S[a]]
<1>1. r.goal = "remove" /\ r.place = job[c].input.target
  BY Requests
<1> HIDE DEF r
<1>2. Showing(SettledAccounts)' = T
  BY <1>1 DEF WithoutDocument
<1> HIDE DEF S, T
<1> QED
  BY <1>1, <1>2 DEF Atomic!Remove, r, S, T


LEMMA StepIsAtomic ==
  ASSUME UploadInv, AimsOK, TransactionOK, NEW c \in Client, Step(c)
  PROVE  AtomicStep /\ AimsOK' /\ TransactionOK'
<1> DEFINE j == job[c].input
           P == job[c].plan
           Q == job'[c].plan
           P0 == SettledPlan(c)
           A0 == SettledAccounts
<1>1. PICK i : Goes(c, i)
  BY StepGoes
<1>2. /\ Stepped(job, acct, c, i, job', acct') /\ SameJobs(job, job', c)
      /\ open # None => open.client = c
      /\ open' # None =>
           /\ Q # <<>>
           /\ open' = IF open # None THEN open ELSE [client |-> c, acct |-> acct, plan |-> P]
      /\ job[c].status = "running"
      /\ job'[c].status = IF Q = <<>> THEN "done" ELSE "running"
      /\ job'[c].input = j
  BY <1>1 DEF Goes, Stepped, SameJobs
<1>3. open' # None => open'.client = c
  BY <1>2
<1>4. Running(c) /\ Aims(j, P)
  BY <1>2 DEF Running, AimsOK
<1>5. StageOf(c) = IF Publishing(c) /\ ~ToPublish(P0) THEN "published" ELSE "running"
  BY <1>2, <1>4 DEF StageOf
<1>6. open' = None => SettledPlan(c)' = Q /\ Showing(SettledAccounts)' = Showing(acct')
  <2> SUFFICES ASSUME open' = None
               PROVE  SettledPlan(c)' = Q /\ Showing(SettledAccounts)' = Showing(acct')
    OBVIOUS
  <2>1. SettledPlan(c)' = Q
    BY DEF SettledPlan
  <2>2. SettledAccounts' = acct'
    BY DEF SettledAccounts
  <2>3. Showing(SettledAccounts)' = Showing(SettledAccounts')
    BY DEF Showing, IsMetadata, Document
  <2> QED
    BY <2>1, <2>2, <2>3
<1>7. ASSUME NEW d \in Client \ {c} PROVE Running(d)' => Aims(job'[d].input, job'[d].plan)
  BY <1>2 DEF Running, AimsOK, SameJobs
<1>8. CASE j.op = "close-buffer"
  <2>1. open = None
    BY <1>2, <1>8 DEF TransactionOK
  <2>2. Q = <<>> /\ Showing(acct') = WithoutDocument(Showing(acct), j.target)
    BY <1>2, <1>8, CloseRemoves
  <2>3. open' = None /\ job'[c].status = "done" /\ A0 = acct
    BY <1>2, <2>1, <2>2 DEF SettledAccounts
  <2>4. ~Publishing(c) /\ StageOf(c) \in {"running"}
    BY <1>5, <1>8 DEF Publishing
  <2>5. StageOf(c)' \in {"done"}
    BY <1>2, <1>6, <2>3, StageAfter
  <2>6. Atomic!Moves(c, {"running"}, {"done"})
    BY <1>2, <1>3, <2>4, <2>5, StageMoves
  <2>7. Atomic!Remove(c)
    BY <1>6, <1>8, <2>2, <2>3, <2>6, RemovesNow
  <2>8. AimsOK'
    BY <1>7, <2>3 DEF AimsOK, Running
  <2>9. TransactionOK'
    BY <2>3 DEF TransactionOK
  <2> QED
    BY <2>7, <2>8, <2>9 DEF AtomicStep, Atomic!Next
<1>9. CASE j.op # "close-buffer"
  <2>1. Progress(j, P0, A0, P, acct)
    <3>1. CASE open = None
      BY <3>1 DEF SettledPlan, SettledAccounts, Progress
    <3>2. CASE open # None
      BY <1>2, <3>2 DEF SettledPlan, SettledAccounts, TransactionOK
    <3> QED
      BY <3>1, <3>2
  <2>2. Progress(j, P, acct, Q, acct') /\ Aims(j, Q)
    BY <1>2, <1>4, <1>9, StepProgress
  <2>3. Progress(j, P0, A0, Q, acct')
    BY <2>1, <2>2, ProgressGoesOn
  <2>4. AimsOK'
    BY <1>2, <1>7, <2>2 DEF AimsOK
  <2>5. CASE open' # None
    <3>1. open'.plan = P0 /\ open'.acct = A0 /\ open'.client = c
      BY <1>2, <2>5 DEF SettledPlan, SettledAccounts
    <3>2. Running(c)' /\ TransactionOK'
      <4>1. Running(c)'
        BY <1>2, <2>5 DEF Running
      <4>2. Progress(job[open.client].input, open.plan, open.acct, job[open.client].plan, acct)'
        <5>1. Progress(job[open.client].input, open.plan, open.acct, job[open.client].plan, acct)'
              <=> Progress(job'[open'.client].input, open'.plan, open'.acct,
                           job'[open'.client].plan, acct')
          BY DEF Progress, ToPublish, Remaining, Showing, IsMetadata, Document, MetadataPda,
                 WithDocument, DocumentOf
        <5> HIDE DEF P0, A0
        <5> QED
          BY <1>2, <2>3, <3>1, <5>1
      <4> QED
        BY <1>2, <1>9, <3>1, <4>1, <4>2 DEF TransactionOK
    <3>3. SettledPlan(c)' = P0 /\ SettledAccounts' = A0
      BY <2>5, <3>1 DEF SettledPlan, SettledAccounts
    <3>4. StageOf(c)' = StageOf(c)
      <4> HIDE DEF P0
      <4> QED
        BY <1>2, <1>5, <2>5, <3>3, StageAfter
    <3>5. Showing(SettledAccounts)' = Showing(A0)
      <4>1. Showing(SettledAccounts)' = Showing(SettledAccounts')
        BY DEF Showing, IsMetadata, Document
      <4> QED
        BY <3>3, <4>1
    <3>6. UNCHANGED Atomic!vars
      BY <1>2, <1>3, <3>4, <3>5, StageStutters
    <3> QED
      BY <2>4, <3>2, <3>6 DEF AtomicStep
  <2>6. CASE open' = None
    <3>1. SettledPlan(c)' = Q /\ Showing(SettledAccounts)' = Showing(acct') /\ TransactionOK'
      BY <1>6, <2>6 DEF TransactionOK
    <3>2. StageOf(c)' = IF Q = <<>> THEN "done"
                        ELSE IF Publishing(c) /\ ~ToPublish(Q) THEN "published" ELSE "running"
      BY <1>2, <3>1, StageAfter
    <3>3. Q = <<>> => ~ToPublish(Q)
      BY DEF ToPublish, Remaining
    <3> HIDE DEF P0, A0, Q, P
    <3>4. CASE (ToPublish(P0) <=> ToPublish(Q)) /\ Showing(acct') = Showing(A0)
      <4>1. CASE Q = <<>>
        <5>1. StageOf(c) \in (IF Publishing(c) THEN {"published"} ELSE {"running"})
          BY <1>5, <3>3, <3>4, <4>1
        <5>2. StageOf(c)' \in {"done"}
          BY <3>2, <4>1
        <5>3. Atomic!Moves(c, IF Publishing(c) THEN {"published"} ELSE {"running"}, {"done"})
          BY <1>2, <1>3, <5>1, <5>2, StageMoves
        <5>4. Atomic!Finish(c)
          BY <1>9, <3>1, <3>4, <5>3, FinishesNow DEF A0
        <5> QED
          BY <2>4, <3>1, <5>4 DEF AtomicStep, Atomic!Next
      <4>2. CASE Q # <<>>
        <5>1. StageOf(c)' = StageOf(c)
          BY <1>5, <3>2, <3>4, <4>2
        <5>2. UNCHANGED Atomic!vars
          BY <1>2, <1>3, <3>1, <3>4, <5>1, StageStutters DEF A0
        <5> QED
          BY <2>4, <3>1, <5>2 DEF AtomicStep
      <4> QED
        BY <4>1, <4>2
    <3>5. CASE /\ j.op \in {"create", "update", "write"}
               /\ ToPublish(P0) /\ ~ToPublish(Q)
               /\ j.op = "create" => MetadataPda(j) \notin DOMAIN Showing(A0)
               /\ j.op = "update" => MetadataPda(j) \in DOMAIN Showing(A0)
               /\ Showing(acct') = WithDocument(Showing(A0), j)
      <4>1. Publishing(c)
        BY <3>5 DEF Publishing
      <4>2. StageOf(c) \in {"running"} /\ StageOf(c)' \in {"published", "done"}
        BY <1>5, <3>2, <3>5, <4>1
      <4>3. Atomic!Moves(c, {"running"}, {"published", "done"})
        BY <1>2, <1>3, <4>2, StageMoves
      <4>4. Atomic!Publish(c)
        BY <3>1, <3>5, <4>1, <4>3, PublishesNow DEF A0
      <4> QED
        BY <2>4, <3>1, <4>4 DEF AtomicStep, Atomic!Next
    <3> QED
      BY <2>3, <3>4, <3>5 DEF Progress
  <2> QED
    BY <2>5, <2>6
<1> QED
  BY <1>8, <1>9


\* A client that is not in a transaction, before or after.
LEMMA BeginIsAtomic ==
  ASSUME UploadInv, AimsOK, NEW c \in Client, Begin(c)
  PROVE  AtomicStep /\ AimsOK' /\ TransactionOK'
<1> DEFINE Q == job'[c].plan
<1>1. Begun(c) /\ job[c].status = "waiting" /\ open = None
  BY BeginBegins DEF Begin
<1>2. SameJobs(job, job', c) /\ UNCHANGED <<acct, open>> /\ job'[c].input = job[c].input
  BY <1>1 DEF Begun, SameJobs, vars
<1>3. \/ job'[c].status = "rejected"
      \/ /\ job'[c].status = "running" /\ Aims(job[c].input, Q)
         /\ Publishing(c) => ToPublish(Q)
  BY <1>1 DEF Begun
<1>4. SettledPlan(c)' = Q /\ SettledAccounts = acct
  BY <1>1, <1>2 DEF SettledPlan, SettledAccounts
<1>5. Showing(SettledAccounts)' = Showing(SettledAccounts)
  BY <1>1, <1>2 DEF SettledAccounts, Showing
<1>6. StageOf(c) \in {"waiting"}
  BY <1>1 DEF StageOf, Running
<1>7. StageOf(c)' \in {"running", "rejected"}
  <2> HIDE DEF Q
  <2> QED
    BY <1>2, <1>3, <1>4, StageAfter
<1>8. Atomic!Moves(c, {"waiting"}, {"running", "rejected"})
  BY <1>1, <1>2, <1>6, <1>7, StageMoves
<1>9. Atomic!Begin(c)
  BY <1>5, <1>8 DEF Atomic!Begin
<1>10. AimsOK'
  BY <1>2, <1>3 DEF AimsOK, Running, SameJobs
<1>11. TransactionOK'
  BY <1>1, <1>2 DEF TransactionOK
<1> QED
  BY <1>9, <1>10, <1>11 DEF AtomicStep, Atomic!Next

LEMMA StopIsAtomic ==
  ASSUME UploadInv, AimsOK, TransactionOK, NEW c \in Client, Refuse(c) \/ Crash(c)
  PROVE  AtomicStep /\ AimsOK' /\ TransactionOK'
<1> DEFINE none == <<>>
<1>1. DOMAIN job = Client /\ \A d \in Client : DOMAIN job[d] = ClientJob
  BY DEF UploadInv, JobsOK
<1>2. job[c].status = "running" /\ (open # None => open.client = c) /\ open' = None
  BY DEF Refuse, Crash, Turn, Running
<1>3. acct' = SettledAccounts
  BY DEF Refuse, Crash, SettledAccounts, vars
<1>4. PICK status \in {"refused", "crashed"} :
        job' = [job EXCEPT ![c].status = status, ![c].plan = none]
  BY DEF Refuse, Crash
<1> HIDE DEF none
<1>5. \A d \in Client \ {c} : job'[d] = job[d]
  BY <1>1, <1>4
<1>6. /\ job'[c].status = status /\ job'[c].input = job[c].input
      /\ job'[c].found = job[c].found /\ job'[c].alone = job[c].alone
  BY <1>1, <1>4 DEF ClientJob
<1>7. SameJobs(job, job', c)
  BY <1>5, <1>6 DEF SameJobs
<1>8. Showing(SettledAccounts)' = Showing(SettledAccounts)
  <2>1. SettledAccounts' = SettledAccounts
    BY <1>2, <1>3 DEF SettledAccounts
  <2>2. Showing(SettledAccounts)' = Showing(SettledAccounts')
    BY DEF Showing, IsMetadata, Document
  <2> QED
    BY <2>1, <2>2
<1>9. StageOf(c) \in {"running", "published"}
  BY <1>2 DEF StageOf
<1>10. StageOf(c)' \in Atomic!Failed
  BY <1>6 DEF StageOf, Running, Atomic!Failed
<1>11. Atomic!Moves(c, {"running", "published"}, Atomic!Failed)
  BY <1>2, <1>7, <1>9, <1>10, StageMoves
<1>12. Atomic!Fail(c)
  BY <1>8, <1>11 DEF Atomic!Fail
<1>13. AimsOK'
  BY <1>5, <1>6 DEF AimsOK, Running
<1>14. TransactionOK'
  BY <1>2 DEF TransactionOK
<1> QED
  BY <1>12, <1>13, <1>14 DEF AtomicStep, Atomic!Next

-----------------------------------------------------------------------------
(* The theorem.                                                            *)

LEMMA AtomicInit ==
  ASSUME UploadScene, PlanInit
  PROVE  AtomicInv /\ Atomic!Init
<1>1. UploadInv /\ open = None
  BY UploadInit DEF PlanInit
<1>2. \A c \in Client : job[c].status = "waiting"
  BY DEF PlanInit, Waiting
<1>3. \A c \in Client : ~Running(c) /\ StageOf(c) = "waiting"
  BY <1>2 DEF Running, StageOf
<1>4. AtomicInv
  BY <1>1, <1>3, AtomicInvParts DEF AimsOK, TransactionOK
<1>5. Atomic!Init
  BY <1>3 DEF Atomic!Init
<1> QED
  BY <1>4, <1>5

LEMMA AtomicNext ==
  ASSUME AtomicInv, [PlanNext]_planVars
  PROVE  AtomicInv' /\ [Atomic!Next]_Atomic!vars
<1>1. UploadInv /\ AimsOK /\ TransactionOK
  BY AtomicInvParts
<1>2. UploadInv'
  BY <1>1, UploadNext
<1>3. CASE UNCHANGED planVars
  <2>1. UNCHANGED <<acct, job, open>>
    BY <1>3 DEF planVars, vars
  <2>2. AimsOK' /\ TransactionOK'
    BY <1>1, <2>1 DEF AimsOK, TransactionOK, Running, Progress, ToPublish, Remaining, Showing
  <2>3. UNCHANGED Atomic!vars
    BY <2>1 DEF Atomic!vars, SettledAccounts, SettledPlan, StageOf, Running, Publishing,
                ToPublish, Remaining, Showing, RequestOf
  <2> QED
    BY <1>2, <2>2, <2>3 DEF AtomicInv, AimsOK, TransactionOK
<1>4. CASE PlanNext
  <2>1. AtomicStep /\ AimsOK' /\ TransactionOK'
    BY <1>1, <1>4, BeginIsAtomic, StepIsAtomic, StopIsAtomic DEF PlanNext
  <2>2. [Atomic!Next]_Atomic!vars
    BY <2>1 DEF AtomicStep
  <2> QED
    BY <1>2, <2>1, <2>2 DEF AtomicInv, AimsOK, TransactionOK
<1> QED
  BY <1>3, <1>4

\* From any scene of uploads, whatever the number of clients, their jobs, the lengths of
\* their data and of a chunk, and wherever they are refused or killed: what an upload
\* does to what shows, up to zeros at the end of the data, it does at one moment, whole,
\* and a client that reports success has had it (createMetadata.ts:59,
\* updateMetadata.ts:66).
THEOREM UploadsAreAtomic == UploadScene /\ PlanSpec => ImplementsAtomicUploads
<1>1. UploadScene /\ PlanInit => AtomicInv /\ Atomic!Init
  BY AtomicInit
<1>2. AtomicInv /\ [PlanNext]_planVars => AtomicInv' /\ [Atomic!Next]_Atomic!vars
  BY AtomicNext
<1> QED
  BY <1>1, <1>2, PTL DEF PlanSpec, ImplementsAtomicUploads, Atomic!Spec
===============================================================================
