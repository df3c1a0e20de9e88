------------------------------ MODULE UploadProofs ------------------------------
(***************************************************************************)
(* UploadInv is inductive, so NeverTorn and BufferHoldsUpload hold, for    *)
(* any number of clients and data of any length.  In the order of the      *)
(* module:                                                                 *)
(*   the arithmetic of chunks and of Extends (ChunksTile, ExtendsFit);     *)
(*   what a plan looks like when one of its instructions has run;          *)
(*   what that instruction does to the accounts (RunChanges), where a      *)
(*   Create whose account is there already is refused, for instance;       *)
(*   that each part of the invariant survives a step of the client itself, *)
(*   and one of another (SteppedKeeps), a stop (StoppedAccounts) and a     *)
(*   beginning (StartedKeeps);                                             *)
(*   that the plans of every job are Prepared for what is to come;         *)
(*   the actions of ClientPlans, one lemma each, and the theorems.         *)
(***************************************************************************)
EXTENDS UploadInvariant, ProgramMetadataProofs

-----------------------------------------------------------------------------
(* Arithmetic: chunks tile the data, and no Extend asks for too much.      *)

\* Multiples of c are c apart.
LEMMA MultiplesApart ==
  ASSUME NEW a \in Nat, NEW b \in Nat, NEW c \in Nat \ {0},
         a % c = 0, b % c = 0, a < b
  PROVE  a + c <= b
<1> DEFINE q == a \div c
           r == b \div c
<1>1. a = c * q /\ b = c * r /\ q \in Int /\ r \in Int
  OBVIOUS
<1> HIDE DEF q, r
<1>2. q < r
  BY <1>1
<1>3. c * (q + 1) <= c * r
  BY <1>1, <1>2
<1>4. c * (q + 1) = a + c
  BY <1>1
<1> QED
  BY <1>1, <1>3, <1>4

LEMMA MultipleIsOne ==
  ASSUME NEW q \in Nat, NEW c \in Nat \ {0}
  PROVE  (c * q) % c = 0
<1> QED
  OBVIOUS

\* p lies in the chunk that begins at the multiple of c below it.
LEMMA ChunkStart ==
  ASSUME NEW p \in Nat, NEW c \in Nat \ {0}
  PROVE  /\ p - (p % c) \in 0 .. p
         /\ (p - (p % c)) % c = 0
         /\ p < p - (p % c) + c
<1>1. p % c \in 0 .. c - 1
  OBVIOUS
<1>2. p % c <= p
  OBVIOUS
<1>3. (p - (p % c)) % c = 0
  <2> DEFINE q == p \div c
  <2>1. p = c * q + (p % c) /\ q \in Nat
    BY Z3
  <2> HIDE DEF q
  <2>2. (c * q) % c = 0
    BY <2>1, MultipleIsOne
  <2>3. p - (p % c) = c * q
    BY <1>1, <2>1
  <2> QED
    BY <2>2, <2>3
<1> QED
  BY <1>1, <1>2, <1>3

\* The chunk of data that the plan writes at offset o.
Chunk(b, data, o) ==
  LET end == IF o + ChunkLen < Len(data) THEN o + ChunkLen ELSE Len(data)
  IN  [do |-> "write", account |-> b, offset |-> o, data |-> SubSeq(data, o + 1, end)]

LEMMA ChunkData ==
  ASSUME NEW S, NEW data \in Seq(S), NEW b, NEW o \in 0 .. Len(data) - 1
  PROVE  LET w == Chunk(b, data, o)
         IN  /\ w.account = b /\ w.offset = o
             /\ Len(w.data) \in 1 .. ChunkLen
             /\ o + Len(w.data) = IF o + ChunkLen < Len(data) THEN o + ChunkLen ELSE Len(data)
             /\ \A i \in 1 .. Len(w.data) : w.data[i] = data[o + i]
<1> DEFINE end == IF o + ChunkLen < Len(data) THEN o + ChunkLen ELSE Len(data)
           piece == SubSeq(data, o + 1, end)
<1>1. ChunkLen \in Nat \ {0} /\ Len(data) \in Nat
  BY PlanAssumption
<1>2. end \in o + 1 .. Len(data) /\ end <= o + ChunkLen
  BY <1>1
<1> HIDE DEF end
<1>3. Len(piece) = end - o /\ \A i \in 1 .. end - o : piece[i] = data[o + i]
  BY <1>1, <1>2
<1> HIDE DEF piece
<1>4. Chunk(b, data, o) = [do |-> "write", account |-> b, offset |-> o, data |-> piece]
  BY DEF Chunk, piece, end
<1> QED
  BY <1>1, <1>2, <1>3, <1>4 DEF end

\* The chunks of an upload tile its data: whatever its length, each byte is written to
\* its place by exactly one Write, and no Write is longer than a transaction has room
\* for or reaches past the end, where it would make the buffer grow (createMetadata.ts,
\* utils.ts).  So the writes touch disjoint bytes and may land in any order.
THEOREM ChunksTile ==
  ASSUME NEW S, NEW data \in Seq(S) \ {<<>>}, NEW b
  PROVE  /\ Len(WritePlan(b, data)) = 1
         /\ \A w \in WritePlan(b, data)[1] :
              /\ w.account = b
              /\ Len(w.data) \in 1 .. ChunkLen
              /\ w.offset + Len(w.data) <= Len(data)
         /\ \A p \in 1 .. Len(data) :
              \E w \in WritePlan(b, data)[1] :
                /\ p - w.offset \in 1 .. Len(w.data) /\ w.data[p - w.offset] = data[p]
                /\ \A v \in WritePlan(b, data)[1] : p - v.offset \in 1 .. Len(v.data) => v = w
<1> DEFINE offsets == {o \in 0 .. Len(data) - 1 : o % ChunkLen = 0}
           chunks == {Chunk(b, data, o) : o \in offsets}
<1>1. ChunkLen \in Nat \ {0} /\ Len(data) \in Nat
  BY PlanAssumption
<1>2. WritePlan(b, data) = <<chunks>>
  BY DEF WritePlan, Chunk
<1>3. \A o \in offsets : o \in 0 .. Len(data) - 1 /\ o % ChunkLen = 0
  OBVIOUS
<1>4. ASSUME NEW w \in chunks
      PROVE  /\ w.account = b /\ Len(w.data) \in 1 .. ChunkLen
             /\ w.offset + Len(w.data) <= Len(data)
  <2>1. PICK o \in offsets : w = Chunk(b, data, o)
    OBVIOUS
  <2> QED
    BY <1>1, <1>3, <2>1, ChunkData
<1>5. ASSUME NEW p \in 1 .. Len(data)
      PROVE  \E w \in chunks :
               /\ p - w.offset \in 1 .. Len(w.data) /\ w.data[p - w.offset] = data[p]
               /\ \A v \in chunks : p - v.offset \in 1 .. Len(v.data) => v = w
  <2> DEFINE o == (p - 1) - ((p - 1) % ChunkLen)
             w == Chunk(b, data, o)
  <2>1. o \in 0 .. p - 1 /\ o % ChunkLen = 0 /\ p - 1 < o + ChunkLen
    <3>1. p - 1 \in Nat
      OBVIOUS
    <3> QED
      BY <1>1, <3>1, ChunkStart
  <2> HIDE DEF o
  <2>2. o \in offsets /\ o \in 0 .. Len(data) - 1
    BY <1>1, <2>1
  <2>3. /\ w.offset = o /\ p - o \in 1 .. Len(w.data)
        /\ w.data[p - o] = data[p]
    <3>1. p <= IF o + ChunkLen < Len(data) THEN o + ChunkLen ELSE Len(data)
      BY <1>1, <2>1
    <3>2. /\ w.offset = o /\ Len(w.data) \in Nat
          /\ o + Len(w.data) = IF o + ChunkLen < Len(data) THEN o + ChunkLen ELSE Len(data)
          /\ \A i \in 1 .. Len(w.data) : w.data[i] = data[o + i]
      BY <2>2, ChunkData
    <3> HIDE DEF w
    <3>3. p - o \in 1 .. Len(w.data)
      BY <1>1, <2>1, <3>1, <3>2
    <3>4. data[o + (p - o)] = data[p]
      BY <2>1
    <3> QED
      BY <3>2, <3>3, <3>4
  <2>4. ASSUME NEW v \in chunks, p - v.offset \in 1 .. Len(v.data)
        PROVE  v = w
    <3>1. PICK u \in offsets : v = Chunk(b, data, u)
      OBVIOUS
    <3>2. u \in Nat /\ u % ChunkLen = 0 /\ v.offset = u /\ Len(v.data) \in 1 .. ChunkLen
      BY <1>1, <1>3, <3>1, ChunkData
    <3>3. u < p /\ p <= u + ChunkLen
      BY <1>1, <2>4, <3>2
    <3>4. o \in Nat /\ o < p /\ p <= o + ChunkLen
      BY <1>1, <2>1
    <3>5. ~(u < o)
      <4>1. u < o => u + ChunkLen <= o
        BY <1>1, <2>1, <3>2, <3>4, MultiplesApart
      <4> QED
        BY <1>1, <3>2, <3>3, <3>4, <4>1
    <3>6. ~(o < u)
      <4>1. o < u => o + ChunkLen <= u
        BY <1>1, <2>1, <3>2, <3>4, MultiplesApart
      <4> QED
        BY <1>1, <3>2, <3>3, <3>4, <4>1
    <3>7. u = o
      BY <3>2, <3>4, <3>5, <3>6
    <3> QED
      BY <3>1, <3>7
  <2>5. w \in chunks
    BY <2>2
  <2> HIDE DEF w
  <2> QED
    BY <2>3, <2>4, <2>5
<1> HIDE DEF chunks
<1> QED
  BY <1>2, <1>4, <1>5

\* However long the account has to grow, each Extend of the plan asks for at least one
\* byte and for no more than the runtime lets one instruction grow an account
\* (getExtendInstructionPlan).
THEOREM ExtendsFit ==
  ASSUME NEW a, NEW total \in Nat \ {0}, NEW i \in DOMAIN ExtendPlan(a, total)
  PROVE  \E n \in 1 .. ReallocLimit :
           ExtendPlan(a, total)[i] = {[do |-> "extend", account |-> a, length |-> n]}
<1> DEFINE n == (total + ReallocLimit - 1) \div ReallocLimit
           last == total - (n - 1) * ReallocLimit
           length == IF i < n THEN ReallocLimit ELSE last
<1>1. ReallocLimit \in Nat \ {0}
  BY PlanAssumption, LengthAssumption
<1>2. last \in 1 .. ReallocLimit
  BY <1>1
<1>3. length \in 1 .. ReallocLimit
  BY <1>1, <1>2
<1>4. i \in 1 .. n
       /\ ExtendPlan(a, total)[i] = {[do |-> "extend", account |-> a, length |-> length]}
  BY DEF ExtendPlan
<1> HIDE DEF length
<1> QED
  BY <1>3, <1>4

-----------------------------------------------------------------------------
(* Plans.                                                                  *)

LEMMA NotEmpty ==
  ASSUME NEW S, NEW q \in Seq(S), q # <<>>
  PROVE  Len(q) \in Nat \ {0} /\ 1 \in DOMAIN q /\ q[1] \in S /\ Head(q) = q[1]
OBVIOUS

\* What remains of plan P when instruction i of its first stage has run.
After(P, i) ==
  LET stage == Head(P) \ {i}
  IN  (IF stage = {} THEN <<>> ELSE <<stage>>) \o Tail(P)

\* Q is plan P without instruction i of its first stage, stage by stage.
Follows(P, i, Q) ==
  \/ /\ P[1] = {i} /\ Len(P) = Len(Q) + 1
     /\ \A s \in DOMAIN Q : Q[s] = P[s + 1] /\ s + 1 \in DOMAIN P
  \/ /\ P[1] # {i} /\ Len(P) = Len(Q)
     /\ Q[1] = P[1] \ {i}
     /\ \A s \in DOMAIN Q : s # 1 => Q[s] = P[s]

LEMMA AfterStages ==
  ASSUME NEW S, NEW P \in Seq((SUBSET S) \ {{}}) \ {<<>>}, NEW i \in Head(P)
  PROVE  /\ After(P, i) \in Seq((SUBSET S) \ {{}})
         /\ Head(P) = P[1] /\ 1 \in DOMAIN P
         /\ Follows(P, i, After(P, i))
<1> DEFINE stage == Head(P) \ {i}
           Q == After(P, i)
<1>1. Head(P) = P[1] /\ 1 \in DOMAIN P /\ Len(P) \in Nat \ {0} /\ Tail(P) \in Seq((SUBSET S) \ {{}})
      /\ Len(Tail(P)) = Len(P) - 1 /\ \A s \in 1 .. Len(P) - 1 : Tail(P)[s] = P[s + 1]
  OBVIOUS
<1>2. CASE stage = {}
  <2>1. Q = Tail(P)
    BY <1>1, <1>2 DEF After
  <2>2. P[1] = {i}
    BY <1>1, <1>2
  <2> QED
    BY <1>1, <2>1, <2>2 DEF Follows
<1>3. CASE stage # {}
  <2>1. Q = <<stage>> \o Tail(P)
    BY <1>3 DEF After
  <2>2. <<stage>> \in Seq((SUBSET S) \ {{}}) /\ Len(<<stage>>) = 1 /\ <<stage>>[1] = stage
    <3>1. stage \in (SUBSET S) \ {{}}
      BY <1>1, <1>3
    <3> QED
      BY <3>1
  <2> HIDE DEF stage, Q
  <2>3. /\ Q \in Seq((SUBSET S) \ {{}}) /\ Len(Q) = Len(P)
        /\ Q[1] = stage
        /\ \A s \in 2 .. Len(P) : Q[s] = Tail(P)[s - 1]
    BY <1>1, <2>1, <2>2
  <2>4. \A s \in 2 .. Len(P) : Q[s] = P[s]
    BY <1>1, <2>3
  <2>5. \A s \in DOMAIN Q : s # 1 => Q[s] = P[s]
    BY <1>1, <2>3, <2>4
  <2>6. P[1] # {i} /\ Q[1] = P[1] \ {i}
    BY <1>1, <1>3, <2>3 DEF stage
  <2>7. Follows(P, i, Q)
    BY <2>3, <2>5, <2>6 DEF Follows
  <2> QED
    BY <1>1, <2>3, <2>7 DEF Q
<1> QED
  BY <1>2, <1>3

\* Nothing is lost and nothing added.
LEMMA AfterRemaining ==
  ASSUME NEW S, NEW P \in Seq((SUBSET S) \ {{}}) \ {<<>>}, NEW i \in Head(P)
  PROVE  /\ i \in Remaining(P) /\ Remaining(P) \subseteq S
         /\ Remaining(After(P, i)) \subseteq Remaining(P)
         /\ Remaining(P) \subseteq Remaining(After(P, i)) \cup {i}
<1> DEFINE Q == After(P, i)
<1>1. Q \in Seq((SUBSET S) \ {{}}) /\ Head(P) = P[1] /\ 1 \in DOMAIN P /\ Follows(P, i, Q)
  BY AfterStages
<1> HIDE DEF Q
<1>2. i \in Remaining(P) /\ Remaining(P) \subseteq S
  BY <1>1 DEF Remaining
<1>3. ASSUME NEW k \in Remaining(Q) PROVE k \in Remaining(P)
  <2>1. PICK s \in DOMAIN Q : k \in Q[s]
    BY DEF Remaining
  <2>2. \E t \in DOMAIN P : k \in P[t]
    BY <1>1, <2>1 DEF Follows
  <2> QED
    BY <2>2 DEF Remaining
<1>4. ASSUME NEW k \in Remaining(P), k # i PROVE k \in Remaining(Q)
  <2>1. PICK s \in DOMAIN P : k \in P[s]
    BY DEF Remaining
  <2>2. s \in 1 .. Len(P) /\ Len(P) \in Nat /\ Len(Q) \in Nat /\ DOMAIN Q = 1 .. Len(Q)
    BY <1>1
  <2>3. \E t \in DOMAIN Q : k \in Q[t]
    <3>1. CASE P[1] = {i} /\ Len(P) = Len(Q) + 1 /\ \A t \in DOMAIN Q : Q[t] = P[t + 1]
      <4>1. s # 1
        BY <1>4, <2>1, <3>1
      <4>2. s - 1 \in DOMAIN Q /\ k \in Q[s - 1]
        BY <2>1, <2>2, <3>1, <4>1
      <4> QED
        BY <4>2
    <3>2. CASE /\ Len(P) = Len(Q) /\ Q[1] = P[1] \ {i}
               /\ \A t \in DOMAIN Q : t # 1 => Q[t] = P[t]
      <4>1. s \in DOMAIN Q /\ k \in Q[s]
        BY <1>4, <2>1, <2>2, <3>2
      <4> QED
        BY <4>1
    <3> QED
      BY <1>1, <3>1, <3>2 DEF Follows
  <2> QED
    BY <2>3 DEF Remaining
<1> QED
  BY <1>2, <1>3, <1>4 DEF Q

\* What runs has no lower rank than anything left behind it.
LEMMA AfterSorted ==
  ASSUME NEW S, NEW P \in Seq((SUBSET S) \ {{}}) \ {<<>>}, NEW i \in Head(P), Sorted(P)
  PROVE  /\ Sorted(After(P, i))
         /\ \A k \in Remaining(After(P, i)) :
              \/ Rank[i.do] < Rank[k.do]
              \/ i.do = "extend" /\ k.do = "extend"
              \/ i.do = "write" /\ k.do = "write"
<1> DEFINE Q == After(P, i)
<1>1. Q \in Seq((SUBSET S) \ {{}}) /\ Head(P) = P[1] /\ 1 \in DOMAIN P /\ Follows(P, i, Q)
  BY AfterStages
<1> HIDE DEF Q
<1>2. Sorted(Q)
  <2> SUFFICES ASSUME NEW s \in DOMAIN Q, NEW t \in DOMAIN Q, NEW k \in Q[s], NEW l \in Q[t]
               PROVE  /\ s < t => Rank[k.do] < Rank[l.do] \/ (k.do = "extend" /\ l.do = "extend")
                      /\ s = t => k = l \/ (k.do = "write" /\ l.do = "write")
    BY DEF Sorted
  <2>1. \E u, v \in DOMAIN P : /\ k \in P[u] /\ l \in P[v]
                               /\ (u < v <=> s < t) /\ (u = v <=> s = t)
    <3>1. s \in Nat /\ t \in Nat
      BY <1>1
    <3>2. CASE \A r \in DOMAIN Q : Q[r] = P[r + 1] /\ r + 1 \in DOMAIN P
      BY <3>1, <3>2
    <3>3. CASE /\ Len(P) = Len(Q) /\ Q[1] = P[1] \ {i}
               /\ \A r \in DOMAIN Q : r # 1 => Q[r] = P[r]
      <4>1. s \in DOMAIN P /\ t \in DOMAIN P /\ k \in P[s] /\ l \in P[t]
        BY <1>1, <3>3
      <4> QED
        BY <4>1
    <3> QED
      BY <1>1, <3>2, <3>3 DEF Follows
  <2> QED
    BY <2>1 DEF Sorted
<1>3. ASSUME NEW k \in Remaining(Q)
      PROVE  \/ Rank[i.do] < Rank[k.do]
             \/ i.do = "extend" /\ k.do = "extend"
             \/ i.do = "write" /\ k.do = "write"
  <2>1. PICK s \in DOMAIN Q : k \in Q[s]
    BY DEF Remaining
  <2>2. \E t \in DOMAIN P : k \in P[t] /\ (1 < t \/ (t = 1 /\ k # i))
    <3>1. s \in Nat /\ s >= 1
      BY <1>1
    <3> QED
      BY <1>1, <2>1, <3>1 DEF Follows
  <2> QED
    BY <1>1, <2>2 DEF Sorted
<1> QED
  BY <1>2, <1>3 DEF Q

\* How plan Q is what plan P leaves behind instruction i.
Leaves(P, i, Q) ==
  /\ i \in Remaining(P)
  /\ Remaining(Q) \subseteq Remaining(P) /\ Remaining(P) \subseteq Remaining(Q) \cup {i}
  /\ \A k \in Remaining(Q) :
       \/ Rank[i.do] < Rank[k.do]
       \/ i.do = "extend" /\ k.do = "extend"
       \/ i.do = "write" /\ k.do = "write"
  /\ Follows(P, i, Q)
  /\ Remaining(Q) = {} => Q = <<>>

LEMMA AfterPlanOK ==
  ASSUME NEW j, NEW P, P # <<>>, PlanOK(j, P), NEW i \in Head(P)
  PROVE  /\ PlanOK(j, After(P, i)) /\ Leaves(P, i, After(P, i))
         /\ i \in Instructions(j) /\ 1 \in DOMAIN P /\ i \in P[1]
<1> DEFINE Q == After(P, i)
           S == Instructions(j)
<1>1. P \in Seq((SUBSET S) \ {{}}) \ {<<>>} /\ Sorted(P)
  BY DEF PlanOK
<1> HIDE DEF S
<1>2. /\ Q \in Seq((SUBSET S) \ {{}}) /\ Follows(P, i, Q)
      /\ 1 \in DOMAIN P /\ i \in P[1]
  BY <1>1, AfterStages
<1>3. /\ i \in Remaining(P) /\ Remaining(P) \subseteq S
      /\ Remaining(Q) \subseteq Remaining(P)
      /\ Remaining(P) \subseteq Remaining(Q) \cup {i}
  BY <1>1, AfterRemaining
<1>4. /\ Sorted(Q)
      /\ \A k \in Remaining(Q) :
           \/ Rank[i.do] < Rank[k.do]
           \/ i.do = "extend" /\ k.do = "extend"
           \/ i.do = "write" /\ k.do = "write"
  BY <1>1, AfterSorted
<1> HIDE DEF Q
<1>5. Remaining(Q) = {} => Q = <<>>
  <2> SUFFICES ASSUME Q # <<>> PROVE Remaining(Q) # {}
    OBVIOUS
  <2> DEFINE T == (SUBSET S) \ {{}}
  <2>1. 1 \in DOMAIN Q /\ Q[1] \in T
    <3>1. Q \in Seq(T)
      BY <1>2
    <3> HIDE DEF T
    <3> QED
      BY <3>1, NotEmpty
  <2>2. Q[1] # {}
    BY <2>1
  <2>3. PICK k : k \in Q[1]
    BY <2>2
  <2>4. k \in Remaining(Q)
    BY <2>1, <2>3 DEF Remaining
  <2> QED
    BY <2>4
<1>6. PlanOK(j, Q)
  BY <1>2, <1>3, <1>4 DEF PlanOK, Has, S
<1> QED
  BY <1>2, <1>3, <1>4, <1>5, <1>6 DEF Q, S, Leaves

\* The Extends that remain behind another instruction, and behind the Allocate.
LEMMA GrowingBehind ==
  ASSUME NEW S, NEW P \in Seq(SUBSET S), NEW i, NEW Q \in Seq(SUBSET S), Follows(P, i, Q),
         \A e \in S : e.do = "extend" => e.length \in Nat, NEW n \in Nat
  PROVE  /\ \A len \in Nat : Growing(P, len, n) /\ i.do # "extend" => Growing(Q, len, n)
         /\ GrowingAfterAllocate(P, n) => GrowingAfterAllocate(Q, n)
<1>1. DOMAIN P = 1 .. Len(P) /\ DOMAIN Q = 1 .. Len(Q) /\ Len(P) \in Nat /\ Len(Q) \in Nat
  OBVIOUS
<1>2. ReallocLimit \in Nat
  BY LengthAssumption
<1>3. ASSUME NEW len \in Nat, Growing(P, len, n), i.do # "extend"
      PROVE  Growing(Q, len, n)
  <2> SUFFICES ASSUME NEW s \in DOMAIN Q, NEW e \in Q[s], e.do = "extend"
               PROVE  Q[s] = {e} /\ len + (s - 1) * ReallocLimit + e.length <= n
    BY DEF Growing
  <2>1. CASE \A r \in DOMAIN Q : Q[r] = P[r + 1] /\ r + 1 \in DOMAIN P
    <3>1. P[s + 1] = {e} /\ len + ((s + 1) - 1) * ReallocLimit + e.length <= n
      BY <1>3, <2>1 DEF Growing
    <3> DEFINE x == (s - 1) * ReallocLimit
    <3>2. ((s + 1) - 1) * ReallocLimit = x + ReallocLimit /\ x \in Int /\ e.length \in Nat
      BY <1>1, <1>2
    <3> HIDE DEF x
    <3>3. len + x + e.length <= n
      BY <1>2, <3>1, <3>2
    <3> QED
      BY <2>1, <3>1, <3>3 DEF x
  <2>2. CASE /\ P[1] # {i} /\ Len(P) = Len(Q) /\ Q[1] = P[1] \ {i}
             /\ \A r \in DOMAIN Q : r # 1 => Q[r] = P[r]
    <3>1. s \in DOMAIN P /\ Q[s] \subseteq P[s]
      BY <1>1, <2>2
    <3>2. P[s] = {e} /\ len + (s - 1) * ReallocLimit + e.length <= n
      BY <1>3, <3>1 DEF Growing
    <3> QED
      BY <2>2, <3>1, <3>2
  <2> QED
    BY <2>1, <2>2 DEF Follows
<1>4. ASSUME GrowingAfterAllocate(P, n)
      PROVE  GrowingAfterAllocate(Q, n)
  <2> SUFFICES ASSUME NEW d \in DOMAIN Q, NEW s \in DOMAIN Q, NEW e \in Q[s],
                      [do |-> "allocate"] \in Q[d], e.do = "extend"
               PROVE  Q[s] = {e} /\ (s - d - 1) * ReallocLimit + e.length <= n
    BY DEF GrowingAfterAllocate
  <2>1. CASE \A r \in DOMAIN Q : Q[r] = P[r + 1] /\ r + 1 \in DOMAIN P
    <3>1. /\ P[s + 1] = {e}
          /\ ((s + 1) - (d + 1) - 1) * ReallocLimit + e.length <= n
      BY <1>4, <2>1 DEF GrowingAfterAllocate
    <3>2. (s + 1) - (d + 1) - 1 = s - d - 1
      BY <1>1
    <3> QED
      BY <2>1, <3>1, <3>2
  <2>2. CASE /\ P[1] # {i} /\ Len(P) = Len(Q) /\ Q[1] = P[1] \ {i}
             /\ \A r \in DOMAIN Q : r # 1 => Q[r] = P[r]
    <3>1. d \in DOMAIN P /\ s \in DOMAIN P /\ Q[d] \subseteq P[d] /\ Q[s] \subseteq P[s]
      BY <1>1, <2>2
    <3>2. P[s] = {e} /\ (s - d - 1) * ReallocLimit + e.length <= n
      BY <1>4, <3>1 DEF GrowingAfterAllocate
    <3>3. Q[s] = {e}
      BY <2>2, <3>1, <3>2
    <3> QED
      BY <3>2, <3>3
  <2> QED
    BY <2>1, <2>2 DEF Follows
<1> QED
  BY <1>3, <1>4

\* The Extends that remain behind one of them, and right behind the Allocate.
LEMMA GrowingBehindExtend ==
  ASSUME NEW S, NEW P \in Seq(SUBSET S), NEW i, NEW Q \in Seq(SUBSET S), Follows(P, i, Q),
         i \in P[1], 1 \in DOMAIN P, i.do = "extend", i.length \in 0 .. ReallocLimit,
         \A e \in S : e.do = "extend" => e.length \in Nat,
         NEW len \in Nat, NEW n \in Nat, Growing(P, len, n)
  PROVE  len + i.length <= n /\ Growing(Q, len + i.length, n)
<1>1. /\ DOMAIN P = 1 .. Len(P) /\ DOMAIN Q = 1 .. Len(Q) /\ Len(P) \in Nat /\ Len(Q) \in Nat
      /\ ReallocLimit \in Nat /\ i.length \in Nat /\ i.length <= ReallocLimit
  BY LengthAssumption
<1>2. P[1] = {i} /\ len + (1 - 1) * ReallocLimit + i.length <= n
  BY DEF Growing
<1>3. \A r \in DOMAIN Q : Q[r] = P[r + 1] /\ r + 1 \in DOMAIN P
  BY <1>2 DEF Follows
<1>4. ASSUME NEW s \in DOMAIN Q, NEW e \in Q[s], e.do = "extend"
      PROVE  Q[s] = {e} /\ (len + i.length) + (s - 1) * ReallocLimit + e.length <= n
  <2>1. P[s + 1] = {e} /\ len + ((s + 1) - 1) * ReallocLimit + e.length <= n
    BY <1>3, <1>4 DEF Growing
  <2>2. ((s + 1) - 1) * ReallocLimit = (s - 1) * ReallocLimit + ReallocLimit
    BY <1>1
  <2> DEFINE x == (s - 1) * ReallocLimit
  <2>3. x \in Int /\ e.length \in Nat
    BY <1>1, <1>4
  <2> HIDE DEF x
  <2>4. len + (x + ReallocLimit) + e.length <= n
    BY <2>1, <2>2 DEF x
  <2>5. (len + i.length) + x + e.length <= n
    BY <1>1, <2>3, <2>4, SMTT(60)
  <2> QED
    BY <1>3, <2>1, <2>5 DEF x
<1> QED
  BY <1>1, <1>2, <1>4 DEF Growing

LEMMA GrowingBehindAllocate ==
  ASSUME NEW S, NEW P \in Seq(SUBSET S), NEW i, NEW Q \in Seq(SUBSET S), Follows(P, i, Q),
         i \in P[1], 1 \in DOMAIN P, i = [do |-> "allocate"], Sorted(P),
         \A e \in S : e.do = "extend" => e.length \in Nat,
         NEW n \in Nat, GrowingAfterAllocate(P, n)
  PROVE  Growing(Q, 0, n)
<1>1. DOMAIN P = 1 .. Len(P) /\ DOMAIN Q = 1 .. Len(Q) /\ Len(P) \in Nat /\ Len(Q) \in Nat
  OBVIOUS
<1>2. P[1] = {i}
  BY DEF Sorted
<1>3. \A r \in DOMAIN Q : Q[r] = P[r + 1] /\ r + 1 \in DOMAIN P
  BY <1>2 DEF Follows
<1>4. ASSUME NEW s \in DOMAIN Q, NEW e \in Q[s], e.do = "extend"
      PROVE  Q[s] = {e} /\ 0 + (s - 1) * ReallocLimit + e.length <= n
  <2>1. P[s + 1] = {e} /\ ((s + 1) - 1 - 1) * ReallocLimit + e.length <= n
    BY <1>3, <1>4 DEF GrowingAfterAllocate
  <2>2. (s + 1) - 1 - 1 = s - 1
    BY <1>1
  <2>3. (s - 1) * ReallocLimit \in Int /\ e.length \in Nat
    BY <1>1, <1>4, LengthAssumption
  <2> DEFINE x == (s - 1) * ReallocLimit
  <2>4. x + e.length <= n
    BY <2>1, <2>2
  <2> HIDE DEF x
  <2>5. 0 + x + e.length <= n
    BY <2>3, <2>4 DEF x
  <2> QED
    BY <1>3, <2>1, <2>5 DEF x
<1> QED
  BY <1>4 DEF Growing

-----------------------------------------------------------------------------
(* What is there of the data.                                              *)

\* Instructions that do not write to account t take nothing away from what is to come.
LEMMA PartlyBehind ==
  ASSUME NEW body, NEW P, NEW Q, NEW i, NEW t, NEW data, Partly(body, P, t, data),
         Remaining(P) \subseteq Remaining(Q) \cup {i},
         ~(i.do \in {"write", "writeFrom"} /\ i.account = t)
  PROVE  Partly(body, Q, t, data)
BY DEF Partly, Covers

\* Growing the buffer loses nothing.
LEMMA PartlyFit ==
  ASSUME NEW body \in Seq(Byte), NEW P, NEW t, NEW data \in Seq(Byte), Partly(body, P, t, data),
         NEW n \in Nat, Len(body) <= n
  PROVE  Partly(Fit(body, n), P, t, data)
<1>1. Fit(body, n) \in Seq(Byte) /\ Len(Fit(body, n)) = n
  BY FitType
<1>2. \A p \in DOMAIN body : p \in DOMAIN Fit(body, n) /\ Fit(body, n)[p] = body[p]
  BY DEF Fit
<1>3. ASSUME NEW p \in DOMAIN Fit(body, n), p > Len(data) PROVE Fit(body, n)[p] = Zero
  <2>1. p \in 1 .. n
    BY <1>1
  <2> QED
    BY <1>3, <2>1 DEF Fit, Partly
<1> QED
  BY <1>2, <1>3 DEF Partly

\* A chunk that is written is there instead of to come, and makes nothing longer than
\* the data.
LEMMA PartlyWrite ==
  ASSUME NEW j, NEW body \in Seq(Byte), NEW P, NEW Q, NEW i, NEW t, j.data \in Seq(Byte),
         Partly(body, P, t, j.data), Remaining(P) \subseteq Remaining(Q) \cup {i},
         i.do = "write", i.offset \in Nat, i.data \in Seq(Byte), Piece(j, i)
  PROVE  LET after == Overwrite(body, i.offset, i.data)
         IN  /\ Partly(after, Q, t, j.data)
             /\ Len(body) <= Len(j.data) => Len(after) <= Len(j.data)
<1> DEFINE after == Overwrite(body, i.offset, i.data)
<1>1. /\ after \in Seq(Byte)
      /\ Len(after) = IF i.offset + Len(i.data) > Len(body) THEN i.offset + Len(i.data)
                      ELSE Len(body)
      /\ \A p \in DOMAIN after :
           /\ p - i.offset \in DOMAIN i.data => after[p] = i.data[p - i.offset]
           /\ p - i.offset \notin DOMAIN i.data /\ p \in DOMAIN body => after[p] = body[p]
  BY OverwriteType
<1> HIDE DEF after
<1>2. Len(body) <= Len(j.data) => Len(after) <= Len(j.data)
  BY <1>1 DEF Piece
<1>3. ASSUME NEW p \in DOMAIN j.data
      PROVE  \/ p \in DOMAIN after /\ after[p] = j.data[p]
             \/ \E k \in Remaining(Q) : Covers(k, t, p)
  <2>1. CASE p - i.offset \in DOMAIN i.data
    <3>1. p \in 1 .. Len(after) /\ i.offset + (p - i.offset) = p
      <4>1. p \in Nat \ {0} /\ p - i.offset <= Len(i.data) /\ Len(i.data) \in Nat
        BY <2>1
      <4> QED
        BY <1>1, <4>1
    <3>2. i.data[p - i.offset] = j.data[i.offset + (p - i.offset)]
      BY <2>1 DEF Piece
    <3>3. p \in DOMAIN after /\ after[p] = i.data[p - i.offset]
      <4>1. p \in DOMAIN after
        BY <1>1, <3>1
      <4> QED
        BY <1>1, <2>1, <4>1
    <3>4. i.data[p - i.offset] = j.data[p]
      BY <3>1, <3>2
    <3> QED
      BY <3>3, <3>4
  <2>2. CASE p - i.offset \notin DOMAIN i.data
    <3>1. CASE p \in DOMAIN body /\ body[p] = j.data[p]
      <4>1. p \in DOMAIN after
        BY <1>1, <3>1
      <4> QED
        BY <1>1, <2>2, <3>1, <4>1
    <3>2. CASE \E k \in Remaining(P) : Covers(k, t, p)
      BY <2>2, <3>2 DEF Covers
    <3> QED
      BY <3>1, <3>2 DEF Partly
  <2> QED
    BY <2>1, <2>2
<1>4. ASSUME NEW p \in DOMAIN after, p > Len(j.data) PROVE after[p] = Zero
  <2>1. /\ p \in 1 .. Len(after) /\ i.offset + Len(i.data) <= Len(j.data)
        /\ Len(i.data) \in Nat /\ Len(body) \in Nat /\ Len(j.data) \in Nat
    BY <1>1, <1>4 DEF Piece
  <2>2. p \in DOMAIN body /\ p - i.offset \notin DOMAIN i.data
    BY <1>1, <1>4, <2>1
  <2> QED
    BY <1>1, <1>4, <2>2 DEF Partly
<1> QED
  BY <1>2, <1>3, <1>4 DEF Partly, after

\* Copying a buffer that holds the data leaves nothing to write.
LEMMA PartlyWriteFrom ==
  ASSUME NEW body \in Seq(Byte), NEW P, NEW Q, NEW t, NEW data \in Seq(Byte),
         Partly(body, P, t, data)
  PROVE  LET after == Overwrite(body, 0, data)
         IN  /\ Partly(after, Q, t, data)
             /\ Len(body) <= Len(data) => Len(after) <= Len(data)
<1> DEFINE after == Overwrite(body, 0, data)
<1>1. /\ after \in Seq(Byte)
      /\ Len(after) = IF 0 + Len(data) > Len(body) THEN 0 + Len(data) ELSE Len(body)
      /\ \A p \in DOMAIN after :
           /\ p - 0 \in DOMAIN data => after[p] = data[p - 0]
           /\ p - 0 \notin DOMAIN data /\ p \in DOMAIN body => after[p] = body[p]
  BY OverwriteType
<1> HIDE DEF after
<1>2. Len(data) \in Nat /\ Len(body) \in Nat
      /\ (Len(body) <= Len(data) => Len(after) <= Len(data))
  BY <1>1
<1>3. \A p \in DOMAIN data : p \in DOMAIN after /\ p - 0 = p
  BY <1>1, <1>2
<1>4. ASSUME NEW p \in DOMAIN after, p > Len(data) PROVE after[p] = Zero
  <2>1. p \in 1 .. Len(after) /\ p - 0 = p
    BY <1>1
  <2>2. p \in DOMAIN body /\ p - 0 \notin DOMAIN data
    BY <1>1, <1>2, <1>4, <2>1
  <2> QED
    BY <1>1, <1>4, <2>2 DEF Partly
<1> QED
  BY <1>1, <1>2, <1>3, <1>4 DEF Partly, after

\* The data is in body, whole, and zeros behind it.
Padded(body, data) ==
  /\ Len(data) <= Len(body)
  /\ \A p \in DOMAIN body : body[p] = IF p <= Len(data) THEN data[p] ELSE Zero

LEMMA PaddedItself ==
  ASSUME NEW data \in Seq(Byte)
  PROVE  Padded(data, data)
BY DEF Padded

\* When no write is to come, the data is there, whole.
LEMMA PartlyWhole ==
  ASSUME NEW body \in Seq(Byte), NEW P, NEW t, NEW data \in Seq(Byte),
         Partly(body, P, t, data),
         \A i \in Remaining(P) : i.do \in {"write", "writeFrom"} => i.account # t
  PROVE  Padded(body, data) /\ (Len(body) <= Len(data) => body = data)
<1>1. \A p \in DOMAIN data : p \in DOMAIN body /\ body[p] = data[p]
  BY DEF Partly, Covers
<1>2. Len(data) <= Len(body)
  <2>1. CASE Len(data) = 0
    BY <2>1
  <2>2. CASE Len(data) # 0
    <3>1. Len(data) \in DOMAIN data
      BY <2>2
    <3> QED
      BY <1>1, <3>1
  <2> QED
    BY <2>1, <2>2
<1>3. ASSUME NEW p \in DOMAIN body PROVE body[p] = IF p <= Len(data) THEN data[p] ELSE Zero
  BY <1>1 DEF Partly
<1>4. Len(body) <= Len(data) => body = data
  BY <1>1, <1>2
<1> QED
  BY <1>2, <1>3, <1>4 DEF Padded

-----------------------------------------------------------------------------
(* What a plan consists of, instruction by instruction.                    *)

Fitting(j, i) ==
  /\ i.do \in {"transfer", "allocate", "extend", "createAccount", "allocateKeypair",
              "setAuthority", "write", "writeFrom", "initialize", "setData", "setDataFrom",
              "close", "trim"}
  /\ i.do = "allocate" => AtPlace(j) /\ i = [do |-> "allocate"]
  /\ i.do = "initialize" => AtPlace(j) /\ j.op # "create-buffer" /\ i.data \in {<<>>, j.data}
  /\ i.do = "transfer" => i.account \in Place(j) /\ i.amount \in Nat
  /\ i.do = "extend" => i.account \in Place(j) /\ i.length \in Nat
  /\ i.do = "trim" => i.account \in Target(j)
  /\ i.do = "setData" => i.account \in Target(j) /\ i.data = j.data
  /\ i.do = "setDataFrom" => i.account \in Target(j) /\ i.source \in Fresh(j) \cup Given(j)
  /\ i.do = "createAccount" => i.account \in Fresh(j) /\ i.length = Len(j.data)
  /\ i.do \in {"allocateKeypair", "setAuthority"} => i.account \in Fresh(j)
  /\ i.do = "write" => /\ i.account \in Place(j) \cup Fresh(j)
                       /\ i.offset \in Nat /\ i.data \in Seq(Byte) /\ Piece(j, i)
  /\ i.do = "writeFrom" => i.account \in Place(j) \cup Fresh(j) /\ i.source \in Given(j)
  /\ i.do = "close" => i.account \in Closable(j)

LEMMA InstructionsFit ==
  ASSUME NEW j, NEW i \in Instructions(j)
  PROVE  Fitting(j, i)
<1>1. CASE i \in {[do |-> "allocate"] : a \in Place(j)}
  BY <1>1 DEF Fitting, Place
<1>2. CASE i \in {[do |-> "initialize", data |-> data] : data \in {<<>>, j.data}, a \in Target(j)}
  BY <1>2 DEF Fitting, Target, Place
<1>3. CASE i \in [do : {"transfer"}, account : Place(j), amount : Nat]
  BY <1>3 DEF Fitting
<1>4. CASE i \in [do : {"extend"}, account : Place(j), length : Nat]
  BY <1>4 DEF Fitting
<1>5. CASE i \in [do : {"trim"}, account : Target(j)]
  BY <1>5 DEF Fitting
<1>6. CASE i \in [do : {"setData"}, account : Target(j), data : {j.data}]
  BY <1>6 DEF Fitting
<1>7. CASE i \in [do : {"setDataFrom"}, account : Target(j), source : Fresh(j) \cup Given(j)]
  BY <1>7 DEF Fitting
<1>8. CASE i \in [do : {"createAccount"}, account : Fresh(j), length : {Len(j.data)}]
  BY <1>8 DEF Fitting
<1>9. CASE i \in [do : {"allocateKeypair", "setAuthority"}, account : Fresh(j)]
  BY <1>9 DEF Fitting
<1>10. CASE i \in [do : {"write"}, account : Place(j) \cup Fresh(j), offset : Nat, data : Seq(Byte)]
            /\ Piece(j, i)
  BY <1>10 DEF Fitting
<1>11. CASE i \in [do : {"writeFrom"}, account : Place(j) \cup Fresh(j), source : Given(j)]
  BY <1>11 DEF Fitting
<1>12. CASE i \in [do : {"close"}, account : Closable(j)]
  BY <1>12 DEF Fitting
<1> QED
  BY <1>1, <1>2, <1>3, <1>4, <1>5, <1>6, <1>7, <1>8, <1>9, <1>10, <1>11, <1>12 DEF Instructions

\* The addresses a job names.
LEMMA JobAddresses ==
  ASSUME NEW j, JobOK(j)
  PROVE  /\ j.authority \in Signer \cap Address
         /\ MetadataPda(j) \in Address \cap Pda /\ MetadataPda(j) \notin BufferKey
         /\ Place(j) \subseteq Address /\ Place(j) \cap BufferKey = {}
         /\ Target(j) \subseteq Place(j)
         /\ Fresh(j) \subseteq Address \cap BufferKey /\ Given(j) \subseteq Address
         /\ Closable(j) \subseteq Address
<1>1. j.authority \in Signer \cap Address
  BY KeyAssumption DEF JobOK, Signer, Address
<1>2. MetadataPda(j) \in Address \cap Pda
  BY <1>1, DerivedType DEF JobOK, MetadataPda
<1>3. MetadataPda(j) \notin BufferKey
  BY <1>2, PdaAssumption, KeyAssumption
<1>4. Place(j) \subseteq {MetadataPda(j)} /\ Target(j) \subseteq Place(j)
  BY DEF Place, Target
<1>5. Fresh(j) \subseteq BufferKey /\ Given(j) \subseteq Address /\ BufferKey \subseteq Address
  BY DEF JobOK, Address
<1>6. Closable(j) \subseteq Address
  BY <1>2, <1>4, <1>5 DEF Closable, JobOK
<1> QED
  BY <1>1, <1>2, <1>3, <1>4, <1>5, <1>6

-----------------------------------------------------------------------------
(* What an instruction of a plan does to the accounts A.                   *)

\* The account that it is about.
Spot(j, i) == IF i.do \in {"allocate", "initialize"} THEN MetadataPda(j) ELSE i.account

\* r and s differ in lamports and rights only; or in their bodies, too.
SameKind(r, s) ==
  /\ s.owner = r.owner /\ s.head = r.head /\ s.discriminator = r.discriminator
  /\ s.codec = r.codec /\ s.dataSource = r.dataSource /\ s.dataLength = r.dataLength

Alike(r, s) == SameKind(r, s) /\ s.body = r.body

\* s is metadata with what the job was given.
Publishes(j, s, data) ==
  /\ IsMetadata(s) /\ s.codec = j.codec /\ s.dataSource = j.dataSource
  /\ s.body = data /\ s.dataLength = Len(data)

\* s is what it leaves there.
Outcome(j, i, A, s) ==
  LET r == A[Spot(j, i)]
  IN  /\ i.do \in {"transfer", "setAuthority"} => Alike(r, s)
      /\ i.do = "createAccount" =>
           IsVacant(r) /\ s.owner = "self" /\ s.discriminator = "Empty" /\ s.body = Fit(<<>>, i.length)
      /\ i.do = "allocateKeypair" =>
           r.discriminator = "Empty" /\ s.owner = "self" /\ ValidBuffer(s) /\ s.body = r.body
      /\ i.do = "allocate" => IsVacant(r) /\ ValidBuffer(s) /\ s.body = <<>>
      /\ i.do = "extend" =>
           /\ SameKind(r, s) /\ s.body = Fit(r.body, Len(r.body) + i.length)
           /\ i.length <= ReallocLimit
      /\ i.do = "write" =>
           ValidBuffer(r) /\ SameKind(r, s) /\ s.body = Overwrite(r.body, i.offset, i.data)
      /\ i.do = "writeFrom" =>
           /\ ValidBuffer(r) /\ SameKind(r, s) /\ ValidBuffer(A[i.source])
           /\ s.body = Overwrite(r.body, 0, A[i.source].body)
      /\ i.do = "initialize" =>
           \/ ValidBuffer(r) /\ i.data = <<>> /\ Publishes(j, s, r.body)
           \/ IsVacant(r) /\ i.data # <<>> /\ Publishes(j, s, i.data)
      /\ i.do = "setData" => ValidMetadata(r) /\ Publishes(j, s, i.data)
      /\ i.do = "setDataFrom" =>
           ValidMetadata(r) /\ ValidBuffer(A[i.source]) /\ Publishes(j, s, A[i.source].body)
      /\ i.do = "trim" =>
           r.discriminator # "Empty" /\ SameKind(r, s) /\ s.body = Fit(r.body, TrimmedLen(r))
      /\ i.do = "close" => IsVacant(s) /\ s.head = 0 /\ s.discriminator = "Empty"

Changes(j, i, A, A2) ==
  /\ Spot(j, i) \in Address
  /\ \A b \in Address \ {Spot(j, i)} : Alike(A[b], A2[b])
  /\ Outcome(j, i, A, A2[Spot(j, i)])

\* How it is shown of an instruction that leaves r at its account.
LEMMA PutChanges ==
  ASSUME IInv, NEW k, NEW j, NEW i, Spot(j, i) \in Address, NEW r, Put(k, Spot(j, i), r),
         Outcome(j, i, acct, r)
  PROVE  Changes(j, i, acct, acct')
<1>1. DOMAIN acct = Address
  BY DEF IInv, TypeOK
<1>2. acct'[Spot(j, i)] = r /\ \A b \in Address \ {Spot(j, i)} : acct'[b] = acct[b]
  BY <1>1 DEF Put
<1> QED
  BY <1>2 DEF Changes, Alike, SameKind

LEMMA PayOutChanges ==
  ASSUME IInv, NEW k \in Address, NEW j, NEW i, Spot(j, i) \in Address, NEW r, NEW n,
         PayOut(k, Spot(j, i), r, k, n), Outcome(j, i, acct, r)
  PROVE  Changes(j, i, acct, acct')
<1>1. DOMAIN acct = Address /\ \A b \in Address : acct[b] \in AccountRecord
  BY DEF IInv, TypeOK
<1>2. acct'[Spot(j, i)] = r
  BY <1>1 DEF PayOut
<1>3. ASSUME NEW b \in Address \ {Spot(j, i)} PROVE Alike(acct[b], acct'[b])
  <2>1. acct'[b] = IF b = k THEN [acct[b] EXCEPT !.lamports = @ + n] ELSE acct[b]
    BY <1>1 DEF PayOut
  <2> QED
    BY <1>1, <2>1 DEF Alike, SameKind, AccountRecord
<1> QED
  BY <1>2, <1>3 DEF Changes

LEMMA TransferChanges ==
  ASSUME IInv, NEW j, JobOK(j), NEW i, Fitting(j, i), i.do = "transfer", Run(j, i)
  PROVE  IInv' /\ Changes(j, i, acct, acct')
<1> DEFINE k == j.authority
<1>1. k \in Signer \cap Address /\ i.account \in Address /\ i.amount \in Nat
  BY JobAddresses DEF Fitting
<1>2. Transfer(k, i.account, i.amount)
  BY DEF Run
<1>3. IInv'
  BY <1>1, <1>2, TransferKeeps
<1>4. ASSUME NEW b \in Address PROVE Alike(acct[b], acct'[b])
  <2>1. DOMAIN acct = Address /\ acct[b] \in AccountRecord
    BY DEF IInv, TypeOK
  <2>2. acct'[b] = [acct[b] EXCEPT !.lamports = acct'[b].lamports]
    BY <1>1, <1>2, <2>1 DEF Transfer, AccountRecord
  <2> QED
    BY <2>1, <2>2 DEF Alike, SameKind, AccountRecord
<1>5. Spot(j, i) = i.account
  BY DEF Spot
<1>6. Outcome(j, i, acct, acct'[i.account])
  BY <1>1, <1>4, <1>5 DEF Outcome
<1> QED
  BY <1>1, <1>3, <1>4, <1>5, <1>6 DEF Changes

\* The account is created at a keypair that had nothing.
LEMMA CreateAccountChanges ==
  ASSUME IInv, NEW j, JobOK(j), NEW i, Fitting(j, i), i.do = "createAccount", Run(j, i)
  PROVE  IInv' /\ Changes(j, i, acct, acct')
<1> DEFINE k == j.authority
           a == i.account
           rent == Rent(i.length)
           made == Zeroed("self", rent, HeaderLen, Fit(<<>>, i.length))
           paid == [acct[k] EXCEPT !.lamports = @ - rent]
<1>1. /\ k \in Signer \cap Address /\ a \in BufferKey /\ a \in Address
      /\ i.length \in Nat /\ HeaderLen + i.length \in 0 .. MaxLen
  BY JobAddresses, LengthAssumption DEF Fitting, JobOK
<1>2. CreateAccount(k, a, i.length)
  BY DEF Run
<1>3. rent \in Nat \ {0}
  BY <1>1, RentAssumption DEF Rent
<1>4. Fit(<<>>, i.length) \in Seq(Byte) /\ HeaderLen \in 0 .. HeaderLen
  <2>1. <<>> \in Seq(Byte) /\ i.length \in Nat
    BY <1>1
  <2>2. Fit(<<>>, i.length) \in Seq(Byte)
    BY <2>1, FitType
  <2> QED
    BY <2>2, LengthAssumption
<1>5. made \in AccountRecord /\ WellFormed(a, made)
  BY <1>1, <1>3, <1>4, ZeroedType, ZeroedWellFormed
<1>6. acct[k] \in AccountRecord /\ WellFormed(k, acct[k]) /\ DOMAIN acct = Address
  BY <1>1, Contents DEF IInv, TypeOK
<1> HIDE DEF rent
<1>7. /\ rent <= acct[k].lamports /\ acct[a].lamports = 0 /\ IsVacant(acct[a])
      /\ signer' = k /\ prog' = prog
  BY <1>2 DEF CreateAccount, Commit, rent
<1>8. k # a /\ acct[k].lamports - rent \in Nat
  BY <1>3, <1>6, <1>7 DEF AccountRecord
<1>9. paid \in AccountRecord /\ WellFormed(k, paid)
  BY <1>6, <1>8, LamportsDoNotMatter DEF AccountRecord
<1>10. acct' = [acct EXCEPT ![k] = paid, ![a] = made]
  BY <1>1, <1>2, <1>6, <1>8 DEF CreateAccount, rent, Rent
<1> HIDE DEF paid, made
<1>11. \A b \in Address : acct'[b] = IF b = a THEN made ELSE IF b = k THEN paid ELSE acct[b]
  BY <1>1, <1>6, <1>8, <1>10
<1>12. \A b \in Address : acct'[b] \in AccountRecord /\ WellFormed(b, acct'[b])
  BY <1>5, <1>9, <1>11, Contents
<1>13. IInv'
  <2>1. acct' \in [Address -> AccountRecord]
    BY <1>6, <1>10, <1>12
  <2> QED
    BY <1>1, <1>7, <1>12, <2>1 DEF IInv, TypeOK
<1>14. \A b \in Address \ {a} : Alike(acct[b], acct'[b])
  BY <1>6, <1>11 DEF paid, Alike, SameKind, AccountRecord
<1>15. Spot(j, i) = a
  BY DEF Spot
<1>16. Outcome(j, i, acct, acct'[a])
  <2>1. acct'[a] = made
    BY <1>1, <1>11
  <2>2. made.owner = "self" /\ made.discriminator = "Empty" /\ made.body = Fit(<<>>, i.length)
    BY DEF made, Zeroed
  <2> QED
    BY <1>7, <1>15, <2>1, <2>2 DEF Outcome
<1> QED
  BY <1>1, <1>13, <1>14, <1>15, <1>16 DEF Changes

LEMMA AllocateKeypairChanges ==
  ASSUME IInv, NEW j, JobOK(j), NEW i, Fitting(j, i), i.do = "allocateKeypair", Run(j, i)
  PROVE  IInv' /\ Changes(j, i, acct, acct')
<1> DEFINE b == i.account
           r == [Claimed(acct[b]) EXCEPT !.discriminator = "Buffer", !.authority = b]
<1>1. b \in Address /\ b \in Signer /\ Spot(j, i) = b
  BY JobAddresses, KeyAssumption DEF Fitting, Spot, Signer
<1>2. AllocateKeypair(b)
  BY DEF Run
<1>3. Claimable(acct[b], TRUE) /\ Put(b, b, r)
  BY <1>2 DEF AllocateKeypair
<1>4. acct[b] \in AccountRecord /\ acct[b].discriminator = "Empty"
  BY <1>1, <1>3, Contents, ClaimableIsEmpty
<1>5. /\ Claimed(acct[b]) \in AccountRecord
      /\ Claimed(acct[b]).owner = "self" /\ Claimed(acct[b]).head = HeaderLen
  BY <1>3, <1>4, ClaimedType
<1>6. Claimed(acct[b]).body = acct[b].body
  <2>1. CASE IsVacant(acct[b])
    <3>1. acct[b].body = <<>>
      <4>1. acct[b].head \in Nat /\ acct[b].body \in Seq(Byte) /\ DataLen(acct[b]) = 0
        BY <1>4, <2>1, LengthAssumption DEF AccountRecord, IsVacant
      <4>2. Len(acct[b].body) = 0
        BY <4>1 DEF DataLen
      <4> QED
        BY <4>1, <4>2
    <3> QED
      BY <2>1, <3>1 DEF Claimed, Zeroed
  <2>2. CASE ~IsVacant(acct[b])
    BY <1>4, <2>2 DEF Claimed, AccountRecord
  <2> QED
    BY <2>1, <2>2
<1>7. /\ r.discriminator = "Buffer" /\ r.owner = "self" /\ r.head = HeaderLen
      /\ r.body = acct[b].body
  BY <1>5, <1>6 DEF AccountRecord
<1>8. IInv'
  BY <1>1, <1>2, AllocateKeypairKeeps
<1> HIDE DEF r
<1>9. Outcome(j, i, acct, r)
  BY <1>1, <1>4, <1>7 DEF Outcome, ValidBuffer
<1> QED
  BY <1>1, <1>3, <1>8, <1>9, PutChanges

\* The PDA is vacant, since whatever the program owns at a PDA has a header.
LEMMA AllocatePdaChanges ==
  ASSUME IInv, NEW j, JobOK(j), Informed(j), NEW i, Fitting(j, i), i.do = "allocate", Run(j, i)
  PROVE  IInv' /\ Changes(j, i, acct, acct')
<1> DEFINE k == j.authority
           b == MetadataPda(j)
           r == [Claimed(acct[b]) EXCEPT !.discriminator = "Buffer",
                                         !.authority = k,
                                         !.program = j.program,
                                         !.canonical = j.canonical,
                                         !.seed = j.seed]
<1>1. /\ k \in Signer /\ b \in Address /\ b \notin BufferKey /\ Spot(j, i) = b
      /\ j.program \in Program /\ j.seed \in Seed /\ j.canonical \in BOOLEAN
  BY JobAddresses DEF Spot, JobOK
<1>2. AllocatePda(k, j.program, j.seed, j.canonical)
  BY DEF Run
<1>3. Claimable(acct[b], FALSE) /\ Put(k, b, r)
  BY <1>2 DEF AllocatePda, Informed, MetadataPda
<1>4. acct[b] \in AccountRecord /\ acct[b].discriminator = "Empty" /\ WellFormed(b, acct[b])
  BY <1>1, <1>3, Contents, ClaimableIsEmpty
<1>5. IsVacant(acct[b])
  BY <1>1, <1>3, <1>4 DEF Claimable, WellFormed, HeaderOwned
<1>6. Claimed(acct[b]) = Zeroed("self", acct[b].lamports, HeaderLen, <<>>)
  BY <1>5 DEF Claimed
<1>7. r.discriminator = "Buffer" /\ r.head = HeaderLen /\ r.body = <<>>
  BY <1>6 DEF Zeroed
<1>8. IInv'
  BY <1>1, <1>2, AllocatePdaKeeps
<1> HIDE DEF r
<1>9. Outcome(j, i, acct, r)
  BY <1>1, <1>5, <1>7 DEF Outcome, ValidBuffer
<1> QED
  BY <1>1, <1>3, <1>8, <1>9, PutChanges

LEMMA SetAuthorityChanges ==
  ASSUME IInv, NEW j, JobOK(j), NEW i, Fitting(j, i), i.do = "setAuthority", Run(j, i)
  PROVE  IInv' /\ Changes(j, i, acct, acct')
<1> DEFINE b == i.account
           r == [acct[b] EXCEPT !.authority = j.authority]
<1>1. b \in Address /\ b \in Signer /\ j.authority \in Signer /\ Spot(j, i) = b
  BY JobAddresses, KeyAssumption DEF Fitting, Spot, Signer
<1>2. SetBufferAuthority(b, b, j.authority)
  BY DEF Run
<1>3. Put(b, b, r)
  BY <1>2 DEF SetBufferAuthority
<1>4. acct[b] \in AccountRecord
  BY <1>1, Contents
<1>5. IInv'
  BY <1>1, <1>2, SetBufferAuthorityKeeps
<1>6. Alike(acct[b], r)
  BY <1>4 DEF Alike, SameKind, AccountRecord
<1> HIDE DEF r
<1>7. Outcome(j, i, acct, r)
  BY <1>1, <1>6 DEF Outcome
<1> QED
  BY <1>1, <1>3, <1>5, <1>7, PutChanges

LEMMA ExtendChanges ==
  ASSUME IInv, NEW j, JobOK(j), NEW i, Fitting(j, i), i.do = "extend", Run(j, i)
  PROVE  IInv' /\ Changes(j, i, acct, acct')
<1> DEFINE a == i.account
           n == Len(acct[a].body) + i.length
           r == Resized(acct[a], n)
<1>1. a \in Address /\ j.authority \in Signer /\ Spot(j, i) = a /\ i.length \in Nat
  BY JobAddresses DEF Fitting, Spot
<1>2. Extend(j.authority, a, i.length)
  BY DEF Run
<1>3. Put(j.authority, a, r) /\ Resizable(acct[a], n)
  BY <1>2 DEF Extend
<1>4. acct[a] \in AccountRecord /\ Len(acct[a].body) \in Nat
  BY <1>1, Contents DEF AccountRecord
<1>5. IInv'
  BY <1>1, <1>2, ExtendKeeps
<1>6. i.length <= ReallocLimit
  BY <1>1, <1>3, <1>4, LengthAssumption DEF Resizable
<1>7. SameKind(acct[a], r) /\ r.body = Fit(acct[a].body, n)
  BY <1>4 DEF SameKind, Resized, AccountRecord
<1> HIDE DEF r
<1>8. Outcome(j, i, acct, r)
  BY <1>1, <1>6, <1>7 DEF Outcome
<1> QED
  BY <1>1, <1>3, <1>5, <1>8, PutChanges

LEMMA WriteChanges ==
  ASSUME IInv, NEW j, JobOK(j), NEW i, Fitting(j, i), i.do \in {"write", "writeFrom"}, Run(j, i)
  PROVE  IInv' /\ Changes(j, i, acct, acct')
<1> DEFINE t == i.account
           src == IF i.do = "write" THEN i.data ELSE acct[i.source].body
           offset == IF i.do = "write" THEN i.offset ELSE 0
           after == Overwrite(acct[t].body, offset, src)
           r == [acct[t] EXCEPT !.body = after]
<1>1. t \in Address /\ j.authority \in Signer /\ Spot(j, i) = t
      /\ (i.do = "writeFrom" => i.source \in Address)
  BY JobAddresses DEF Fitting, Spot
<1>2. WriteBytes(j.authority, t, offset, src) /\ (i.do = "writeFrom" => ValidBuffer(acct[i.source]))
  BY DEF Run, WriteData, WriteFromBuffer
<1>3. src \in Seq(Byte) /\ offset \in Nat
  <2>1. CASE i.do = "write"
    BY <2>1 DEF Fitting
  <2>2. CASE i.do = "writeFrom"
    BY <1>1, <2>2, Contents DEF AccountRecord
  <2> QED
    BY <2>1, <2>2
<1>4. IInv'
  BY <1>1, <1>2, <1>3, WriteBytesKeeps
<1>5. ValidBuffer(acct[t]) /\ Put(j.authority, t, r)
  BY <1>2 DEF WriteBytes
<1>6. acct[t] \in AccountRecord
  BY <1>1, Contents
<1>7. /\ SameKind(acct[t], r) /\ r.body = after
      /\ i.do = "write" => after = Overwrite(acct[t].body, i.offset, i.data)
      /\ i.do = "writeFrom" => after = Overwrite(acct[t].body, 0, acct[i.source].body)
  BY <1>6 DEF SameKind, AccountRecord
<1> HIDE DEF r, after
<1>8. Outcome(j, i, acct, r)
  BY <1>1, <1>2, <1>5, <1>7 DEF Outcome
<1> QED
  BY <1>1, <1>4, <1>5, <1>8, PutChanges

LEMMA InitializeChanges ==
  ASSUME IInv, NEW j, JobOK(j), Informed(j), NEW i, Fitting(j, i), i.do = "initialize", Run(j, i)
  PROVE  IInv' /\ Changes(j, i, acct, acct')
<1> DEFINE k == j.authority
           m == MetadataPda(j)
           body == IF IsVacant(acct[m]) THEN i.data ELSE acct[m].body
           q == [acct[m] EXCEPT !.body = body]
           r == MetadataHeader(q, k, j.program, j.seed, j.canonical, j.codec, j.dataSource)
<1>1. /\ k \in Signer /\ m \in Address /\ Spot(j, i) = m
      /\ j.program \in Program /\ j.seed \in Seed /\ j.canonical \in BOOLEAN
      /\ j.codec \in Codec /\ j.dataSource \in DataSource
  BY JobAddresses DEF Spot, JobOK
<1>2. i.data \in Seq(Byte)
  <2>1. <<>> \in Seq(Byte) /\ j.data \in Seq(Byte)
    BY DEF JobOK
  <2> QED
    BY <2>1 DEF Fitting
<1>3. Initialize(k, j.program, j.seed, j.canonical, j.codec, j.dataSource, i.data)
  BY DEF Run
<1>4. /\ \/ ValidBuffer(acct[m]) /\ i.data = <<>>
         \/ IsVacant(acct[m]) /\ i.data # <<>>
      /\ Put(k, m, r)
  BY <1>3 DEF Initialize, Informed, MetadataPda
<1>5. IInv'
  BY <1>1, <1>2, <1>3, InitializeKeeps
<1>6. acct[m] \in AccountRecord
  BY <1>1, Contents
<1>7. q \in AccountRecord /\ q.body = body
  <2>1. body \in Seq(Byte)
    BY <1>2, <1>6 DEF AccountRecord
  <2> HIDE DEF body
  <2> QED
    BY <1>6, <2>1 DEF AccountRecord
<1> HIDE DEF q, body
<1>8. Publishes(j, r, body)
  BY <1>7 DEF Publishes, MetadataHeader, IsMetadata, AccountRecord
<1> HIDE DEF r
<1>9. Outcome(j, i, acct, r)
  <2>1. CASE ValidBuffer(acct[m]) /\ i.data = <<>>
    <3>1. ~IsVacant(acct[m])
      BY <1>6, <2>1, LengthAssumption DEF ValidBuffer, IsVacant, DataLen, AccountRecord
    <3> QED
      BY <1>1, <1>8, <2>1, <3>1 DEF Outcome, body
  <2>2. CASE IsVacant(acct[m]) /\ i.data # <<>>
    BY <1>1, <1>8, <2>2 DEF Outcome, body
  <2> QED
    BY <1>4, <2>1, <2>2
<1> QED
  BY <1>1, <1>4, <1>5, <1>9, PutChanges

LEMMA SetDataChanges ==
  ASSUME IInv, NEW j, JobOK(j), NEW i, Fitting(j, i), i.do \in {"setData", "setDataFrom"},
         Run(j, i)
  PROVE  IInv' /\ Changes(j, i, acct, acct')
<1> DEFINE m == i.account
           data == IF i.do = "setData" THEN i.data ELSE acct[i.source].body
           r == [acct[m] EXCEPT !.codec = j.codec, !.dataSource = j.dataSource,
                                !.dataLength = Len(data), !.body = data]
<1>1. /\ m \in Address /\ j.authority \in Signer /\ Spot(j, i) = m
      /\ j.codec \in Codec /\ j.dataSource \in DataSource
      /\ (i.do = "setDataFrom" => i.source \in Address)
  BY JobAddresses DEF Fitting, Spot, JobOK
<1>2. /\ SetBytes(j.authority, m, j.codec, j.dataSource, data)
      /\ (i.do = "setDataFrom" => ValidBuffer(acct[i.source]))
  BY DEF Run, SetData, SetDataFromBuffer
<1>3. data \in Seq(Byte)
  <2>1. CASE i.do = "setData"
    BY <2>1 DEF Fitting, JobOK
  <2>2. CASE i.do = "setDataFrom"
    BY <1>1, <2>2, Contents DEF AccountRecord
  <2> QED
    BY <2>1, <2>2
<1>4. IInv'
  BY <1>1, <1>2, <1>3, SetBytesKeeps
<1>5. ValidMetadata(acct[m]) /\ Put(j.authority, m, r)
  BY <1>2 DEF SetBytes
<1>6. acct[m] \in AccountRecord
  BY <1>1, Contents
<1>7. /\ Publishes(j, r, data)
      /\ i.do = "setData" => data = i.data
      /\ i.do = "setDataFrom" => data = acct[i.source].body
  BY <1>5, <1>6 DEF Publishes, AccountRecord, IsMetadata, ValidMetadata
<1> HIDE DEF r, data
<1>8. Outcome(j, i, acct, r)
  BY <1>1, <1>2, <1>5, <1>7 DEF Outcome
<1> QED
  BY <1>1, <1>4, <1>5, <1>8, PutChanges

LEMMA TrimChanges ==
  ASSUME IInv, NEW j, JobOK(j), NEW i, Fitting(j, i), i.do = "trim", Run(j, i)
  PROVE  IInv' /\ Changes(j, i, acct, acct')
<1> DEFINE k == j.authority
           a == i.account
           n == TrimmedLen(acct[a])
           min == MinBalance(HeaderLen + n)
           r == [Resized(acct[a], n) EXCEPT !.lamports = min]
<1>1. a \in Address /\ k \in Signer \cap Address /\ Spot(j, i) = a
  BY JobAddresses DEF Fitting, Spot
<1>2. Trim(k, a, k)
  BY DEF Run
<1>3. PayOut(k, a, r, k, acct[a].lamports - min)
  BY <1>2 DEF Trim
<1>4. IInv'
  BY <1>1, <1>2, TrimKeeps
<1>5. acct[a] \in AccountRecord
  BY <1>1, Contents
<1>6. SameKind(acct[a], r) /\ r.body = Fit(acct[a].body, n) /\ acct[a].discriminator # "Empty"
  <2>1. SameKind(acct[a], r) /\ r.body = Fit(acct[a].body, n)
    BY <1>5 DEF SameKind, Resized, AccountRecord
  <2>2. acct[a].discriminator # "Empty"
    BY <1>2 DEF Trim, MayManage, ValidBuffer, ValidMetadata
  <2> QED
    BY <2>1, <2>2
<1> HIDE DEF r
<1>7. Outcome(j, i, acct, r)
  BY <1>1, <1>6 DEF Outcome
<1> QED
  BY <1>1, <1>3, <1>4, <1>7, PayOutChanges

LEMMA CloseChanges ==
  ASSUME IInv, NEW j, JobOK(j), NEW i, Fitting(j, i), i.do = "close", Run(j, i)
  PROVE  IInv' /\ Changes(j, i, acct, acct')
<1> DEFINE k == j.authority
           a == i.account
<1>1. a \in Address /\ k \in Signer \cap Address /\ Spot(j, i) = a
  BY JobAddresses DEF Fitting, Spot
<1>2. Close(k, a, k)
  BY DEF Run
<1>3. PayOut(k, a, Vacant(0), k, acct[a].lamports)
  BY <1>2 DEF Close
<1>4. IInv'
  BY <1>1, <1>2, CloseKeeps
<1>5. IsVacant(Vacant(0)) /\ Vacant(0).head = 0 /\ Vacant(0).discriminator = "Empty"
  BY DEF Vacant, Zeroed, IsVacant, DataLen
<1>6. Outcome(j, i, acct, Vacant(0))
  BY <1>1, <1>5 DEF Outcome
<1> QED
  BY <1>1, <1>3, <1>4, <1>6, PayOutChanges

\* One step of a plan, whatever it is.
LEMMA RunChanges ==
  ASSUME IInv, NEW j, JobOK(j), Informed(j), NEW i, Fitting(j, i), Run(j, i)
  PROVE  IInv' /\ Changes(j, i, acct, acct')
BY TransferChanges, CreateAccountChanges, AllocateKeypairChanges, AllocatePdaChanges,
   SetAuthorityChanges, ExtendChanges, WriteChanges, InitializeChanges, SetDataChanges,
   TrimChanges, CloseChanges DEF Fitting

-----------------------------------------------------------------------------
(* What no plan takes away from another: client c's instruction i takes    *)
(* the jobs J and accounts A to J2 and A2.                                 *)

SameJobs(J, J2, c) ==
  /\ \A d \in Client : J2[d].input = J[d].input
  /\ \A d \in Client \ {c} : J2[d].status = J[d].status /\ J2[d].plan = J[d].plan
  /\ \A d \in Client :
       J[d].status \notin {"waiting", "rejected"} =>
         /\ J2[d].status \notin {"waiting", "rejected"}
         /\ J2[d].found = J[d].found /\ (J2[d].alone => J[d].alone)

Stepped(J, A, c, i, J2, A2) ==
  /\ c \in Client /\ J[c].status = "running"
  /\ JobsOK(J) /\ Exclusive(J) /\ AccountsOK(J, A)
  /\ SameJobs(J, J2, c)
  /\ PlanOK(J[c].input, J2[c].plan) /\ Leaves(J[c].plan, i, J2[c].plan)
  /\ 1 \in DOMAIN J[c].plan /\ i \in J[c].plan[1]
  /\ J2[c].status = IF J2[c].plan = <<>> THEN "done" ELSE "running"
  /\ Fitting(J[c].input, i)
  /\ Changes(J[c].input, i, A, A2)
  /\ Sound(A2)

\* Jobs go on: who was misled was misled.
LEMMA MisledStays ==
  ASSUME NEW J, NEW J2, NEW c, SameJobs(J, J2, c), NEW a, Misled(J, a)
  PROVE  Misled(J2, a)
BY DEF SameJobs, Misled

LEMMA WantedStays ==
  ASSUME NEW J, NEW J2, NEW c, SameJobs(J, J2, c)
  PROVE  Wanted(J2) = Wanted(J)
BY DEF SameJobs, Wanted

LEMMA WholeOn ==
  ASSUME NEW J, NEW J2, NEW c, SameJobs(J, J2, c), NEW a, NEW r, Whole(J, a, r)
  PROVE  Whole(J2, a, r)
BY MisledStays, WantedStays DEF Whole

\* What comes before instruction i and what after it.
LEMMA Before ==
  ASSUME NEW P, NEW i, NEW Q, Leaves(P, i, Q)
  PROVE  /\ i.do \in {"extend", "createAccount", "allocateKeypair", "setAuthority", "write",
                      "writeFrom", "initialize", "setData", "setDataFrom", "close", "trim"}
              => ~Has(P, "allocate")
         /\ i.do \in {"allocateKeypair", "setAuthority", "write", "writeFrom", "initialize",
                      "setData", "setDataFrom", "close", "trim"}
              => ~Has(P, "createAccount")
BY DEF Leaves, Has, Rank

LEMMA Behind ==
  ASSUME NEW P, NEW i, NEW Q, Leaves(P, i, Q), NEW k \in Remaining(Q)
  PROVE  /\ i.do \in {"initialize", "setData", "setDataFrom", "close", "trim"} =>
              k.do \notin {"write", "writeFrom", "initialize", "setData", "setDataFrom"}
         /\ i.do \in {"close", "trim"} => k.do # "close"
         /\ i.do \in {"write", "writeFrom"} => k.do # "extend"
         /\ i.do = "allocate" => k.do # "allocate"
         /\ i.do = "createAccount" => k.do # "createAccount"
BY DEF Leaves, Rank

LEMMA VacantEmpty ==
  ASSUME NEW r \in AccountRecord, IsVacant(r)
  PROVE  r.body = <<>> /\ r.head = 0 /\ ~ValidBuffer(r) /\ r.owner # "self"
<1>1. r.head \in Nat /\ r.body \in Seq(Byte) /\ r.head + Len(r.body) = 0
  BY LengthAssumption DEF AccountRecord, IsVacant, DataLen
<1>2. r.head = 0 /\ Len(r.body) = 0
  BY <1>1
<1> QED
  BY <1>1, <1>2, LengthAssumption DEF ValidBuffer, IsVacant

LEMMA FitAll ==
  ASSUME NEW body \in Seq(Byte)
  PROVE  Fit(body, Len(body)) = body
<1>1. Fit(body, Len(body)) \in Seq(Byte) /\ Len(Fit(body, Len(body))) = Len(body)
  BY FitType
<1>2. \A p \in 1 .. Len(body) : Fit(body, Len(body))[p] = body[p]
  BY DEF Fit
<1> QED
  BY <1>1, <1>2

\* The job of the client whose instruction runs.
LEMMA SteppedJobs ==
  ASSUME NEW J, NEW A, NEW c, NEW i, NEW J2, NEW A2, Stepped(J, A, c, i, J2, A2),
         NEW d \in Client
  PROVE  /\ JobOK(J[d].input) /\ Informed(J[d].input) /\ PlanOK(J[d].input, J[d].plan)
         /\ A \in [Address -> AccountRecord] /\ A2 \in [Address -> AccountRecord]
         /\ \A a \in Address : WellFormed(a, A[a]) /\ WellFormed(a, A2[a])
         /\ J[d].status = "running" =>
              /\ PlaceHolds(J, J[d].input, J[d].plan, A)
              /\ FreshHolds(J[d].input, J[d].plan, A)
              /\ FoundOK(J, d, A) /\ ClosingOK(J, d, A)
         /\ GivenHolds(J[d].input, A)
BY DEF Stepped, JobsOK, AccountsOK, Sound

LEMMA JobData ==
  ASSUME NEW j, JobOK(j)
  PROVE  j.data \in Seq(Byte) /\ Len(j.data) \in Nat /\ j.data # <<>>
<1>1. j.data \in Seq(Byte) /\ j.data # <<>>
  BY DEF JobOK
<1> QED
  BY <1>1

\* A plan that writes to its PDA, or publishes or closes what it wrote there, holds it.
LEMMA HoldsWhatItWrites ==
  ASSUME NEW j, JobOK(j), NEW P, NEW i, NEW Q, Leaves(P, i, Q), Fitting(j, i)
  PROVE  /\ i.do \in {"write", "writeFrom"} /\ i.account \in Place(j) => HoldsPlace(j, P)
         /\ i.do = "initialize" /\ i.data = <<>> => HoldsPlace(j, P)
         /\ i.do = "close" /\ j.op = "create-buffer" /\ i.account \in Place(j) => HoldsPlace(j, P)
         /\ i.do \in {"write", "writeFrom", "close"} /\ i.account \in Fresh(j) => HoldsFresh(j, P)
         /\ i.do = "setDataFrom" /\ i.source \in Fresh(j) => HoldsFresh(j, P)
<1>1. i \in Remaining(P)
  BY DEF Leaves
<1>2. i.do \in {"write", "writeFrom", "initialize", "setDataFrom", "close"} =>
        ~Has(P, "allocate") /\ ~Has(P, "createAccount")
  BY Before
<1>3. Place(j) # {} => AtPlace(j)
  BY DEF Place
<1>4. i.do \in {"write", "writeFrom"} /\ i.account \in Place(j) => Building(j, P)
  BY <1>1, <1>3 DEF Building
<1>5. i.do = "initialize" /\ i.data = <<>> => Building(j, P)
  BY <1>1 DEF Building, Fitting
<1>6. j.op = "create-buffer" /\ i.account \in Place(j) => Building(j, P)
  BY <1>3 DEF Building
<1>7. i.do \in {"write", "writeFrom", "close"} /\ i.account \in Fresh(j) => Filling(j, P)
  BY <1>1 DEF Filling
<1>8. i.do = "setDataFrom" /\ i.source \in Fresh(j) => Filling(j, P)
  BY <1>1 DEF Filling
<1> QED
  BY <1>2, <1>4, <1>5, <1>6, <1>7, <1>8 DEF HoldsPlace, HoldsFresh

\* Whoever extends a buffer that another is putting together took it for metadata.
LEMMA ExtendMisleads ==
  ASSUME NEW J, NEW A, NEW c, NEW i, NEW J2, NEW A2, Stepped(J, A, c, i, J2, A2),
         NEW d \in Client, d # c, J[d].status = "running",
         NEW a, a \in Place(J[c].input), ~IsMetadata(A[a]),
         i.do = "extend", ~HoldsPlace(J[c].input, J[c].plan)
  PROVE  Misled(J, a)
<1> DEFINE j == J[c].input
           P == J[c].plan
<1>1. /\ c \in Client /\ J[c].status = "running" /\ Leaves(P, i, J2[c].plan)
      /\ AloneOK(J) /\ ExtendsFound(j, P, J[c].found)
  BY DEF Stepped, JobsOK
<1>2. PlanOK(j, P) /\ FoundOK(J, c, A) /\ JobOK(j)
  BY <1>1, SteppedJobs
<1>3. Has(P, "extend") /\ ~Has(P, "allocate")
  BY <1>1, Before DEF Leaves, Has
<1>4. ~Building(j, P)
  BY <1>3 DEF HoldsPlace
<1>5. j.op \in {"update", "write"} /\ J[c].found \in {"metadata", "other"}
  BY <1>1, <1>3, <1>4 DEF ExtendsFound
<1>6. a = MetadataPda(j)
  BY DEF Place
<1>7. Len(j.data) > ReallocLimit
  BY <1>2, <1>3, JobData, LengthAssumption DEF PlanOK
<1>8. ~J[c].alone
  BY <1>1 DEF AloneOK
<1>9. CASE J[c].found = "other"
  BY <1>1, <1>5, <1>6, <1>7, <1>8, <1>9 DEF Misled
<1>10. CASE J[c].found = "metadata"
  <2>1. PICK e \in Client : J[e].input.op = "close-buffer" /\ J[e].input.target = a
    BY <1>2, <1>5, <1>6, <1>10 DEF FoundOK
  <2> QED
    BY <1>1, <1>5, <1>6, <1>7, <1>8, <1>10, <2>1 DEF Misled
<1> QED
  BY <1>5, <1>9, <1>10

\* r is what another instruction left of the buffer body: the same, or longer.
Grown(body, r) == \E n \in Nat : r = Fit(body, Len(body) + n)

\* What another plan has put together at its PDA: nobody else changes it but who is
\* misled, and that makes it longer.
LEMMA PlaceKept ==
  ASSUME NEW J, NEW A, NEW c, NEW i, NEW J2, NEW A2, Stepped(J, A, c, i, J2, A2),
         NEW d \in Client, d # c, J[d].status = "running", HoldsPlace(J[d].input, J[d].plan)
  PROVE  LET a == MetadataPda(J[d].input)
         IN  /\ ValidBuffer(A[a]) /\ SameKind(A[a], A2[a])
             /\ A2[a].body = A[a].body \/ (Misled(J, a) /\ Grown(A[a].body, A2[a].body))
<1> DEFINE j == J[c].input
           k == J[d].input
           a == MetadataPda(k)
           P == J[c].plan
           Q == J2[c].plan
<1>1. c \in Client /\ J[c].status = "running" /\ Fitting(j, i) /\ Changes(j, i, A, A2)
      /\ Leaves(P, i, Q)
  BY DEF Stepped
<1>2. /\ JobOK(j) /\ JobOK(k) /\ Informed(j) /\ PlanOK(j, P)
      /\ PlaceHolds(J, k, J[d].plan, A) /\ ClosingOK(J, c, A) /\ A \in [Address -> AccountRecord]
  BY <1>1, SteppedJobs
<1>3. a \in Place(k) /\ a \in Address /\ a \notin BufferKey /\ Place(k) = {a}
  BY <1>2, JobAddresses DEF HoldsPlace, Building, Place
<1>4. ValidBuffer(A[a]) /\ A[a] \in AccountRecord
  BY <1>2, <1>3 DEF HoldsPlace, PlaceHolds
<1>5. ~HoldsPlace(j, P) \/ a \notin Place(j)
  <2>1. Exclusive(J)
    BY DEF Stepped
  <2> QED
    BY <1>1, <1>3, <2>1 DEF Exclusive
<1>6. a \notin Fresh(j) /\ a \notin Given(j)
  <2>1. Disjoint(J)
    BY DEF Stepped, JobsOK
  <2> QED
    BY <1>1, <1>2, <1>3, <2>1, JobAddresses DEF Disjoint
<1>7. ~IsVacant(A[a]) /\ ~ValidMetadata(A[a]) /\ ~IsMetadata(A[a])
  BY <1>4, VacantEmpty DEF ValidBuffer, ValidMetadata, IsMetadata
<1>8. Spot(j, i) # a => Alike(A[a], A2[a])
  BY <1>1, <1>3 DEF Changes
<1>9. ASSUME Spot(j, i) = a, i.do # "extend" PROVE Alike(A[a], A2[a])
  <2> DEFINE r == A[a]
             s == A2[a]
  <2>1. Outcome(j, i, A, s)
    BY <1>1, <1>9 DEF Changes
  <2>2. /\ i.do \notin {"initialize", "allocate"} => i.account = a
        /\ i.do \in {"initialize", "allocate"} => a \in Place(j)
    BY <1>1, <1>9 DEF Spot, Fitting, Place
  <2>3. i.do \notin {"createAccount", "allocateKeypair", "allocate", "setData", "setDataFrom"}
    BY <1>1, <1>6, <1>7, <1>9, <2>1, <2>2 DEF Fitting, Outcome
  <2>4. i.do \notin {"write", "writeFrom"}
    BY <1>1, <1>2, <1>5, <1>6, <2>2, HoldsWhatItWrites DEF Fitting
  <2>5. i.do # "initialize"
    <3>1. i.do = "initialize" => i.data = <<>>
      BY <1>7, <1>9, <2>1 DEF Outcome
    <3> QED
      BY <1>1, <1>2, <1>5, <2>2, <3>1, HoldsWhatItWrites
  <2>6. i.do # "close"
    <3> SUFFICES ASSUME i.do = "close" PROVE FALSE
      OBVIOUS
    <3>1. a \in Closable(j)
      BY <1>1, <2>2 DEF Fitting
    <3>2. CASE j.op = "create-buffer" /\ a \in Place(j)
      BY <1>1, <1>2, <1>5, <2>2, <3>2, HoldsWhatItWrites
    <3>3. CASE j.op = "close-buffer" /\ a = j.target
      BY <1>2, <1>3, <3>3 DEF ClosingOK
    <3> QED
      BY <1>6, <3>1, <3>2, <3>3 DEF Closable
  <2>7. CASE i.do \in {"transfer", "setAuthority"}
    BY <1>9, <2>1, <2>7 DEF Outcome
  <2>8. CASE i.do = "trim"
    <3>1. SameKind(r, s) /\ s.body = Fit(r.body, Len(r.body)) /\ r.body \in Seq(Byte)
      BY <1>4, <1>9, <2>1, <2>8 DEF Outcome, TrimmedLen, ValidBuffer, AccountRecord
    <3> QED
      BY <3>1, FitAll DEF Alike
  <2> QED
    BY <1>1, <1>9, <2>3, <2>4, <2>5, <2>6, <2>7, <2>8 DEF Fitting
<1>10. ASSUME Spot(j, i) = a, i.do = "extend"
       PROVE  SameKind(A[a], A2[a]) /\ Misled(J, a) /\ Grown(A[a].body, A2[a].body)
  <2>1. a \in Place(j) /\ i.length \in Nat
    BY <1>1, <1>10 DEF Spot, Fitting
  <2>2. Misled(J, a)
    BY <1>5, <1>7, <1>10, <2>1, ExtendMisleads
  <2>3. SameKind(A[a], A2[a]) /\ A2[a].body = Fit(A[a].body, Len(A[a].body) + i.length)
    BY <1>1, <1>10 DEF Changes, Outcome
  <2> QED
    BY <2>1, <2>2, <2>3 DEF Grown
<1> QED
  BY <1>4, <1>8, <1>9, <1>10 DEF Alike

\* ...and in its keypair's account.
LEMMA FreshKept ==
  ASSUME NEW J, NEW A, NEW c, NEW i, NEW J2, NEW A2, Stepped(J, A, c, i, J2, A2),
         NEW d \in Client, d # c, J[d].status = "running", HoldsFresh(J[d].input, J[d].plan)
  PROVE  Alike(A[J[d].input.newBuffer], A2[J[d].input.newBuffer])
<1> DEFINE j == J[c].input
           k == J[d].input
           b == k.newBuffer
<1>1. c \in Client /\ J[c].status = "running" /\ Fitting(j, i) /\ Changes(j, i, A, A2)
  BY DEF Stepped
<1>2. JobOK(j) /\ JobOK(k) /\ ClosingOK(J, c, A)
  BY <1>1, SteppedJobs
<1>3. b \in Fresh(k) /\ b \in Address /\ b \in BufferKey
  BY <1>2, JobAddresses DEF HoldsFresh, Filling, Fresh
<1>4. b \notin Place(j) /\ b \notin Fresh(j) /\ b \notin Given(j) /\ b \notin Target(j)
  <2>1. Disjoint(J)
    BY DEF Stepped, JobsOK
  <2> QED
    BY <1>1, <1>2, <1>3, <2>1, JobAddresses DEF Disjoint
<1>5. ~(j.op = "close-buffer" /\ b = j.target)
  BY <1>2, <1>3 DEF ClosingOK
<1>6. b \notin Closable(j)
  BY <1>4, <1>5 DEF Closable
<1>7. Spot(j, i) # b
  BY <1>1, <1>4, <1>6 DEF Spot, Fitting, Place
<1> QED
  BY <1>1, <1>3, <1>7 DEF Changes

\* A buffer to upload from stays as it is, or is closed.
LEMMA GivenKept ==
  ASSUME NEW J, NEW A, NEW c, NEW i, NEW J2, NEW A2, Stepped(J, A, c, i, J2, A2),
         NEW d \in Client, NEW b \in Given(J[d].input)
  PROVE  Alike(A[b], A2[b]) \/ IsVacant(A2[b])
<1> DEFINE j == J[c].input
           k == J[d].input
<1>1. c \in Client /\ Fitting(j, i) /\ Changes(j, i, A, A2)
  BY DEF Stepped
<1>2. JobOK(j) /\ JobOK(k)
  BY <1>1, SteppedJobs
<1>3. b \in Address
  BY <1>2, JobAddresses
<1>4. b \notin Place(j) /\ b \notin Fresh(j) /\ b \notin Target(j)
  <2>1. Disjoint(J)
    BY DEF Stepped, JobsOK
  <2> QED
    BY <1>1, <1>2, <2>1, JobAddresses DEF Disjoint
<1>5. CASE Spot(j, i) # b
  BY <1>1, <1>3, <1>5 DEF Changes
<1>6. CASE Spot(j, i) = b
  <2>1. i.do = "close"
    BY <1>1, <1>4, <1>6 DEF Spot, Fitting, Place
  <2> QED
    BY <1>1, <1>6, <2>1 DEF Changes, Outcome
<1> QED
  BY <1>5, <1>6

LEMMA GivenStays ==
  ASSUME NEW J, NEW A, NEW c, NEW i, NEW J2, NEW A2, Stepped(J, A, c, i, J2, A2),
         NEW d \in Client
  PROVE  GivenHolds(J2[d].input, A2)
<1>1. J2[d].input = J[d].input
  BY DEF Stepped, SameJobs
<1>2. ASSUME NEW b \in Given(J[d].input)
      PROVE  IsVacant(A2[b]) \/ (ValidBuffer(A2[b]) /\ A2[b].body = J[d].input.data)
  <2>1. IsVacant(A[b]) \/ (ValidBuffer(A[b]) /\ A[b].body = J[d].input.data)
    BY SteppedJobs DEF GivenHolds
  <2> QED
    BY <2>1, GivenKept DEF Alike, SameKind, IsVacant, DataLen, ValidBuffer
<1> QED
  BY <1>1, <1>2 DEF GivenHolds

-----------------------------------------------------------------------------
(* What is published is whole.                                             *)

\* A buffer that a plan takes holds the data, since the writes come before.
LEMMA TakenIsWhole ==
  ASSUME NEW J, NEW A, NEW c, NEW i, NEW J2, NEW A2, Stepped(J, A, c, i, J2, A2)
  PROVE  LET j == J[c].input
         IN  /\ i.do = "initialize" /\ ValidBuffer(A[MetadataPda(j)]) /\ i.data = <<>> =>
                  /\ Padded(A[MetadataPda(j)].body, j.data)
                  /\ A[MetadataPda(j)].body = j.data \/ Misled(J, MetadataPda(j))
             /\ i.do = "setDataFrom" /\ ValidBuffer(A[i.source]) => A[i.source].body = j.data
<1> DEFINE j == J[c].input
           P == J[c].plan
           Q == J2[c].plan
           a == MetadataPda(j)
<1>1. c \in Client /\ J[c].status = "running" /\ Fitting(j, i) /\ Leaves(P, i, Q)
  BY DEF Stepped
<1>2. /\ JobOK(j) /\ PlaceHolds(J, j, P, A) /\ FreshHolds(j, P, A) /\ GivenHolds(j, A)
      /\ A \in [Address -> AccountRecord] /\ j.data \in Seq(Byte)
  BY <1>1, SteppedJobs DEF JobOK
<1>3. i.do \in {"initialize", "setDataFrom"} =>
        \A k \in Remaining(P) : k.do \notin {"write", "writeFrom"}
  BY <1>1, Behind DEF Leaves
<1>4. ASSUME i.do = "initialize", i.data = <<>>
      PROVE  Padded(A[a].body, j.data) /\ (A[a].body = j.data \/ Misled(J, a))
  <2>1. HoldsPlace(j, P)
    BY <1>1, <1>2, <1>4, HoldsWhatItWrites
  <2>2. /\ Partly(A[a].body, P, a, j.data)
        /\ Misled(J, a) \/ Len(A[a].body) <= Len(j.data)
    BY <1>2, <2>1 DEF HoldsPlace, PlaceHolds
  <2>3. A[a].body \in Seq(Byte)
    BY <1>2, JobAddresses DEF AccountRecord
  <2> QED
    BY <1>2, <1>3, <1>4, <2>2, <2>3, PartlyWhole
<1>5. ASSUME i.do = "setDataFrom", ValidBuffer(A[i.source])
      PROVE  A[i.source].body = j.data
  <2>1. i.source \in Address /\ A[i.source] \in AccountRecord /\ A[i.source].body \in Seq(Byte)
    <3>1. i.source \in Address
      BY <1>1, <1>2, <1>5, JobAddresses DEF Fitting
    <3> QED
      BY <1>2, <3>1 DEF AccountRecord
  <2>2. CASE i.source \in Fresh(j)
    <3>1. HoldsFresh(j, P) /\ i.source = j.newBuffer
      BY <1>1, <1>2, <1>5, <2>2, HoldsWhatItWrites DEF Fresh
    <3>2. /\ Partly(A[i.source].body, P, i.source, j.data)
          /\ Len(A[i.source].body) <= Len(j.data)
      BY <1>2, <3>1 DEF HoldsFresh, FreshHolds
    <3> QED
      BY <1>2, <1>3, <1>5, <2>1, <3>2, PartlyWhole
  <2>3. CASE i.source \in Given(j)
    BY <1>2, <1>5, <2>1, <2>3, VacantEmpty DEF GivenHolds
  <2> QED
    BY <1>1, <1>5, <2>2, <2>3 DEF Fitting
<1> QED
  BY <1>4, <1>5

\* Each of the wanted contents is a sequence of bytes.
LEMMA WantedData ==
  ASSUME NEW J, \A d \in Client : JobOK(J[d].input), NEW u \in Wanted(J)
  PROVE  u.data \in Seq(Byte)
BY FormerAssumption DEF Wanted, JobOK

\* Resizing metadata to no less than its data does not touch the data.
LEMMA WholeResized ==
  ASSUME NEW J, \A d \in Client : JobOK(J[d].input), NEW a,
         NEW r \in AccountRecord, DataPresent(r), Whole(J, a, r), NEW n \in Nat,
         IsMetadata(r) => r.dataLength <= n, NEW s, SameKind(r, s), s.body = Fit(r.body, n)
  PROVE  Whole(J, a, s)
<1> SUFFICES ASSUME IsMetadata(s)
             PROVE  \E u \in Wanted(J) : Holds(s, u) /\ (s.dataLength = Len(u.data) \/ Misled(J, a))
  BY DEF Whole
<1>1. IsMetadata(r) /\ r.body \in Seq(Byte) /\ r.dataLength \in Nat /\ r.dataLength <= Len(r.body)
      /\ r.dataLength <= n /\ s.codec = r.codec /\ s.dataLength = r.dataLength
  BY DEF IsMetadata, SameKind, DataPresent, AccountRecord
<1>2. PICK u \in Wanted(J) : Holds(r, u) /\ (r.dataLength = Len(u.data) \/ Misled(J, a))
  BY <1>1 DEF Whole
<1>3. Len(u.data) \in Nat
  BY WantedData
<1>4. Len(s.body) = n /\ DOMAIN s.body = 1 .. n
  BY <1>1, FitType
<1>5. ASSUME NEW p \in DOMAIN s.body
      PROVE  s.body[p] = IF p <= Len(u.data) THEN u.data[p] ELSE Zero
  <2>1. p \in 1 .. n /\ s.body[p] = IF p <= Len(r.body) THEN r.body[p] ELSE Zero
    BY <1>4 DEF Fit
  <2>2. CASE p <= Len(r.body)
    <3>1. p \in DOMAIN r.body
      BY <1>1, <2>1, <2>2
    <3> QED
      BY <1>2, <2>1, <2>2, <3>1 DEF Holds
  <2>3. CASE ~(p <= Len(r.body))
    <3>1. ~(p <= Len(u.data))
      BY <1>1, <1>2, <1>3, <2>1, <2>3 DEF Holds
    <3> QED
      BY <2>1, <2>3, <3>1
  <2> QED
    BY <2>2, <2>3
<1>6. Holds(s, u)
  BY <1>1, <1>2, <1>4, <1>5 DEF Holds
<1> QED
  BY <1>1, <1>2, <1>6

LEMMA WholePublished ==
  ASSUME NEW J, NEW c \in Client, JobOK(J[c].input),
         J[c].input.op \in {"create", "update", "write"}, NEW a,
         NEW body \in Seq(Byte), Padded(body, J[c].input.data),
         body = J[c].input.data \/ Misled(J, a),
         NEW s, Publishes(J[c].input, s, body)
  PROVE  Whole(J, a, s)
<1> DEFINE u == [codec |-> J[c].input.codec, data |-> J[c].input.data]
<1>1. u \in Wanted(J)
  BY DEF Wanted
<1>2. Holds(s, u)
  BY DEF Holds, Publishes, Padded
<1>3. s.dataLength = Len(u.data) \/ Misled(J, a)
  BY DEF Publishes
<1> QED
  BY <1>1, <1>2, <1>3 DEF Whole

LEMMA WholeStays ==
  ASSUME NEW J, NEW A, NEW c, NEW i, NEW J2, NEW A2, Stepped(J, A, c, i, J2, A2),
         NEW a \in Address
  PROVE  Whole(J2, a, A2[a])
<1> DEFINE j == J[c].input
           r == A[a]
           s == A2[a]
<1>1. c \in Client /\ Fitting(j, i) /\ Changes(j, i, A, A2) /\ Whole(J, a, r)
  BY DEF Stepped, AccountsOK
<1>2. (\A d \in Client : JobOK(J[d].input)) /\ JobOK(j) /\ r \in AccountRecord /\ s \in AccountRecord /\ DataPresent(r)
  BY <1>1, SteppedJobs DEF WellFormed
<1> SUFFICES Whole(J, a, s)
  BY WholeOn DEF Stepped
<1>3. ASSUME Alike(r, s) PROVE Whole(J, a, s)
  BY <1>1, <1>3 DEF Alike, SameKind, Whole, Holds, IsMetadata
<1>4. CASE Spot(j, i) # a
  BY <1>1, <1>3, <1>4 DEF Changes
<1>5. CASE Spot(j, i) = a
  <2>1. Outcome(j, i, A, s)
    BY <1>1, <1>5 DEF Changes
  <2>2. CASE i.do \in {"transfer", "setAuthority"}
    BY <1>3, <1>5, <2>1, <2>2 DEF Outcome
  <2>3. CASE i.do \in {"createAccount", "allocateKeypair", "allocate", "write", "writeFrom", "close"}
    <3>1. ~IsMetadata(s)
      BY <1>5, <2>1, <2>3 DEF Outcome, ValidBuffer, SameKind, IsMetadata
    <3> QED
      BY <3>1 DEF Whole
  <2>4. CASE i.do = "extend"
    <3>1. Len(r.body) + i.length \in Nat /\ (IsMetadata(r) => r.dataLength <= Len(r.body) + i.length)
      BY <1>1, <1>2, <2>4 DEF Fitting, DataPresent, AccountRecord
    <3>2. SameKind(r, s) /\ s.body = Fit(r.body, Len(r.body) + i.length)
      BY <1>5, <2>1, <2>4 DEF Outcome
    <3> QED
      BY <1>1, <1>2, <3>1, <3>2, WholeResized
  <2>5. CASE i.do = "trim"
    <3>1. TrimmedLen(r) \in Nat /\ (IsMetadata(r) => r.dataLength <= TrimmedLen(r))
      BY <1>2 DEF TrimmedLen, IsMetadata, AccountRecord
    <3>2. SameKind(r, s) /\ s.body = Fit(r.body, TrimmedLen(r))
      BY <1>5, <2>1, <2>5 DEF Outcome
    <3> QED
      BY <1>1, <1>2, <3>1, <3>2, WholeResized
  <2>6. CASE i.do \in {"initialize", "setData", "setDataFrom"}
    <3>1. j.op \in {"create", "update", "write"}
      BY <1>1, <2>6 DEF Fitting, Target, Place, AtPlace
    <3>2. j.data \in Seq(Byte) /\ Padded(j.data, j.data)
      BY <1>2, JobData, PaddedItself
    <3>3. CASE i.do = "initialize" /\ i.data = <<>>
      <4>1. MetadataPda(j) = a /\ ValidBuffer(r) /\ Publishes(j, s, r.body)
        BY <1>5, <2>1, <3>3 DEF Spot, Outcome
      <4>2. Padded(r.body, j.data) /\ (r.body = j.data \/ Misled(J, a))
        BY <3>3, <4>1, TakenIsWhole
      <4>3. r.body \in Seq(Byte)
        BY <1>2 DEF AccountRecord
      <4> QED
        BY <1>1, <1>2, <3>1, <4>1, <4>2, <4>3, WholePublished
    <3>4. CASE i.do = "initialize" /\ i.data # <<>>
      <4>1. Publishes(j, s, j.data)
        BY <1>1, <1>5, <2>1, <3>4 DEF Outcome, Fitting
      <4> QED
        BY <1>1, <1>2, <3>1, <3>2, <4>1, WholePublished
    <3>5. CASE i.do \in {"setData", "setDataFrom"}
      <4>1. Publishes(j, s, j.data)
        BY <1>1, <2>1, <3>5, TakenIsWhole DEF Outcome, Fitting
      <4> QED
        BY <1>1, <1>2, <3>1, <3>2, <4>1, WholePublished
    <3> QED
      BY <2>6, <3>3, <3>4, <3>5
  <2> QED
    BY <1>1, <2>2, <2>3, <2>4, <2>5, <2>6 DEF Fitting
<1> QED
  BY <1>4, <1>5

\* Metadata stays metadata, unless a user closes it.
LEMMA MetadataStays ==
  ASSUME NEW J, NEW A, NEW c, NEW i, NEW J2, NEW A2, Stepped(J, A, c, i, J2, A2),
         NEW a \in Address, IsMetadata(A[a]),
         \A d \in Client : J[d].input.op = "close-buffer" => J[d].input.target # a
  PROVE  IsMetadata(A2[a])
<1> DEFINE j == J[c].input
           r == A[a]
           s == A2[a]
<1>1. /\ c \in Client /\ J[c].status = "running" /\ Fitting(j, i) /\ Changes(j, i, A, A2)
      /\ Leaves(J[c].plan, i, J2[c].plan) /\ \A d \in Client : J2[d].input = J[d].input
  BY DEF Stepped, SameJobs
<1>2. /\ JobOK(j) /\ r \in AccountRecord /\ WellFormed(a, r)
      /\ PlaceHolds(J, j, J[c].plan, A) /\ GivenHolds(j, A)
  BY <1>1, SteppedJobs
<1>3. CASE Spot(j, i) # a
  BY <1>1, <1>3 DEF Changes, Alike, SameKind, IsMetadata
<1>4. CASE Spot(j, i) = a
  <2>1. Outcome(j, i, A, s)
    BY <1>1, <1>4 DEF Changes
  <2>2. ~IsVacant(r) /\ ~ValidBuffer(r) /\ r.discriminator # "Empty"
    BY <1>2, VacantEmpty DEF WellFormed, HeaderOwned, ValidBuffer, IsMetadata
  <2>3. i.do # "close"
    <3> SUFFICES ASSUME i.do = "close" PROVE FALSE
      OBVIOUS
    <3>1. a \in Closable(j)
      BY <1>1, <1>4 DEF Fitting, Spot
    <3>2. a \notin Given(j)
      BY <1>2, <2>2 DEF GivenHolds
    <3>3. a \notin Fresh(j)
      BY <1>2, JobAddresses, PdaAssumption, KeyAssumption DEF WellFormed, AtDerivedAddress
    <3>4. ~(j.op = "create-buffer" /\ a \in Place(j))
      <4> SUFFICES ASSUME j.op = "create-buffer", a \in Place(j) PROVE FALSE
        OBVIOUS
      <4>1. HoldsPlace(j, J[c].plan) /\ a = MetadataPda(j)
        BY <1>1, <1>2, <1>4, HoldsWhatItWrites DEF Spot, Place
      <4> QED
        BY <1>2, <2>2, <4>1 DEF HoldsPlace, PlaceHolds
    <3> QED
      BY <1>1, <3>1, <3>2, <3>3, <3>4 DEF Closable
  <2> QED
    BY <1>1, <1>4, <2>1, <2>2, <2>3
    DEF Outcome, Fitting, Alike, SameKind, IsMetadata, Publishes
<1> QED
  BY <1>3, <1>4

LEMMA FoundStays ==
  ASSUME NEW J, NEW A, NEW c, NEW i, NEW J2, NEW A2, Stepped(J, A, c, i, J2, A2),
         NEW d \in Client, J[d].status = "running"
  PROVE  FoundOK(J2, d, A2)
<1> DEFINE a == MetadataPda(J[d].input)
<1>1. (\A e \in Client : J2[e].input = J[e].input) /\ J2[d].found = J[d].found
  BY DEF Stepped, SameJobs
<1>2. FoundOK(J, d, A) /\ a \in Address
  BY SteppedJobs, JobAddresses
<1> QED
  BY <1>1, <1>2, MetadataStays DEF FoundOK

-----------------------------------------------------------------------------
(* What plans put together stays what they need.                           *)

LEMMA OtherPlaceStays ==
  ASSUME NEW J, NEW A, NEW c, NEW i, NEW J2, NEW A2, Stepped(J, A, c, i, J2, A2),
         NEW d \in Client, d # c, J[d].status = "running"
  PROVE  PlaceHolds(J2, J2[d].input, J2[d].plan, A2)
<1>1. J2[d].input = J[d].input /\ J2[d].plan = J[d].plan
  BY DEF Stepped, SameJobs
<1>2. PlaceHolds(J, J[d].input, J[d].plan, A) /\ JobOK(J[d].input)
      /\ A \in [Address -> AccountRecord]
  BY SteppedJobs, Zenon
<1>3. CASE HoldsPlace(J[d].input, J[d].plan)
  <2> DEFINE a == MetadataPda(J[d].input)
             P == J[d].plan
             data == J[d].input.data
  <2>1. /\ ValidBuffer(A[a]) /\ SameKind(A[a], A2[a])
        /\ A2[a].body = A[a].body \/ (Misled(J, a) /\ Grown(A[a].body, A2[a].body))
    BY <1>3, PlaceKept
  <2>2. ValidBuffer(A2[a])
    BY <2>1 DEF SameKind, ValidBuffer
  <2>3. /\ Partly(A[a].body, P, a, data)
        /\ \/ Misled(J, a)
           \/ Len(A[a].body) <= Len(data) /\ Growing(P, Len(A[a].body), Len(data))
    BY <1>2, <1>3 DEF HoldsPlace, PlaceHolds
  <2>4. Misled(J, a) => Misled(J2, a)
    BY MisledStays DEF Stepped
  <2>5. CASE A2[a].body = A[a].body
    BY <1>1, <1>3, <2>2, <2>3, <2>4, <2>5 DEF HoldsPlace, PlaceHolds
  <2>6. CASE Misled(J, a) /\ Grown(A[a].body, A2[a].body)
    <3>1. A[a].body \in Seq(Byte) /\ data \in Seq(Byte)
      BY <1>2, JobAddresses, JobData DEF AccountRecord
    <3>2. PICK n \in Nat : A2[a].body = Fit(A[a].body, Len(A[a].body) + n)
      BY <2>6 DEF Grown
    <3>3. Len(A[a].body) + n \in Nat /\ Len(A[a].body) <= Len(A[a].body) + n
      BY <3>1
    <3>4. Partly(A2[a].body, P, a, data)
      BY <2>3, <3>1, <3>2, <3>3, PartlyFit, Zenon
    <3> QED
      BY <1>1, <1>3, <2>2, <2>4, <2>6, <3>4 DEF HoldsPlace, PlaceHolds
  <2> QED
    BY <2>1, <2>5, <2>6
<1>4. CASE ~HoldsPlace(J[d].input, J[d].plan)
  BY <1>1, <1>2, <1>4 DEF HoldsPlace, PlaceHolds
<1> QED
  BY <1>3, <1>4

LEMMA OtherFreshStays ==
  ASSUME NEW J, NEW A, NEW c, NEW i, NEW J2, NEW A2, Stepped(J, A, c, i, J2, A2),
         NEW d \in Client, d # c, J[d].status = "running"
  PROVE  FreshHolds(J2[d].input, J2[d].plan, A2)
<1>1. J2[d].input = J[d].input /\ J2[d].plan = J[d].plan
  BY DEF Stepped, SameJobs
<1>2. FreshHolds(J[d].input, J[d].plan, A)
  BY SteppedJobs
<1>3. CASE HoldsFresh(J[d].input, J[d].plan)
  <2> DEFINE b == J[d].input.newBuffer
  <2>1. Alike(A[b], A2[b])
    BY <1>3, FreshKept
  <2>2. A2[b].owner = A[b].owner /\ A2[b].body = A[b].body
    BY <2>1 DEF Alike, SameKind
  <2>3. /\ A[b].owner = "self" /\ Partly(A[b].body, J[d].plan, b, J[d].input.data)
        /\ Len(A[b].body) <= Len(J[d].input.data)
    BY <1>2, <1>3 DEF HoldsFresh, FreshHolds
  <2> QED
    BY <1>1, <1>3, <2>2, <2>3 DEF HoldsFresh, FreshHolds
<1>4. CASE ~HoldsFresh(J[d].input, J[d].plan)
  BY <1>1, <1>2, <1>4 DEF HoldsFresh, FreshHolds
<1> QED
  BY <1>3, <1>4

\* Nothing comes after a plan closes an account, unless it publishes.
LEMMA CloseIsLast ==
  ASSUME NEW J, NEW A, NEW c, NEW i, NEW J2, NEW A2, Stepped(J, A, c, i, J2, A2),
         i.do = "close", Target(J[c].input) = {}
  PROVE  J2[c].plan = <<>>
<1> DEFINE j == J[c].input
           Q == J2[c].plan
<1>1. c \in Client /\ Leaves(J[c].plan, i, Q)
  BY DEF Stepped
<1>2. PlanOK(j, J[c].plan)
  BY <1>1, SteppedJobs
<1>3. ASSUME NEW k \in Remaining(Q) PROVE FALSE
  <2>1. k \in Instructions(j)
    <3>1. Remaining(J[c].plan) \subseteq Instructions(j)
      BY <1>2 DEF PlanOK, Remaining
    <3> QED
      BY <1>1, <3>1 DEF Leaves
  <2>2. Fitting(j, k)
    BY <2>1, InstructionsFit
  <2>3. k.do = "trim"
    BY <1>1, <2>2 DEF Leaves, Rank, Fitting
  <2> QED
    BY <2>2, <2>3 DEF Fitting
<1> QED
  BY <1>1, <1>3 DEF Leaves

\* Only a plan that leaves a buffer at its PDA closes what is there.
LEMMA OwnClose ==
  ASSUME NEW J, NEW A, NEW c, NEW i, NEW J2, NEW A2, Stepped(J, A, c, i, J2, A2),
         i.do = "close", i.account \in Place(J[c].input)
  PROVE  J2[c].plan = <<>> /\ J[c].input.op = "create-buffer"
<1> DEFINE j == J[c].input
<1>1. c \in Client /\ Fitting(j, i) /\ Disjoint(J)
  BY DEF Stepped, JobsOK
<1>2. JobOK(j)
  BY <1>1, SteppedJobs
<1>3. i.account \notin Given(j) /\ i.account \notin Fresh(j)
  BY <1>1, <1>2, JobAddresses DEF Disjoint
<1>4. j.op # "close-buffer"
  BY DEF Place, AtPlace
<1>5. j.op = "create-buffer"
  BY <1>1, <1>3, <1>4 DEF Fitting, Closable
<1> QED
  BY <1>5, CloseIsLast DEF Target

\* How a plan extends the buffer that it makes.
LEMMA ExtendLengths ==
  ASSUME NEW j, NEW P, PlanOK(j, P)
  PROVE  /\ P \in Seq(SUBSET Instructions(j))
         /\ \A e \in Instructions(j) : e.do = "extend" => e.length \in Nat
<1> DEFINE S == Instructions(j)
<1>1. P \in Seq((SUBSET S) \ {{}})
  BY DEF PlanOK
<1>2. \A e \in S : e.do = "extend" => e.length \in Nat
  BY InstructionsFit DEF Fitting
<1> HIDE DEF S
<1>3. P \in Seq(SUBSET S)
  <2> DEFINE T == (SUBSET S) \ {{}}
             U == SUBSET S
  <2>1. T \subseteq U /\ P \in Seq(T)
    BY <1>1
  <2> HIDE DEF T, U
  <2>2. P \in Seq(U)
    BY <2>1
  <2> QED
    BY <2>2 DEF U
<1> QED
  BY <1>2, <1>3 DEF S

LEMMA PlanGrows ==
  ASSUME NEW j, NEW P, NEW i, NEW Q, PlanOK(j, P), PlanOK(j, Q), Leaves(P, i, Q),
         i \in P[1], 1 \in DOMAIN P, Fitting(j, i), NEW n \in Nat
  PROVE  /\ \A len \in Nat : Growing(P, len, n) /\ i.do # "extend" => Growing(Q, len, n)
         /\ GrowingAfterAllocate(P, n) => GrowingAfterAllocate(Q, n)
         /\ \A len \in Nat :
              Growing(P, len, n) /\ i.do = "extend" /\ i.length <= ReallocLimit =>
                len + i.length <= n /\ Growing(Q, len + i.length, n)
         /\ GrowingAfterAllocate(P, n) /\ i.do = "allocate" => Growing(Q, 0, n)
<1> DEFINE S == Instructions(j)
<1>1. /\ P \in Seq(SUBSET S) /\ Q \in Seq(SUBSET S)
      /\ \A e \in S : e.do = "extend" => e.length \in Nat
  BY ExtendLengths
<1>2. Follows(P, i, Q) /\ Sorted(P)
  BY DEF Leaves, PlanOK
<1>3. i.do = "extend" => i.length \in Nat
  BY DEF Fitting
<1>4. i.do = "allocate" => i = [do |-> "allocate"]
  BY DEF Fitting
<1> HIDE DEF S
<1>5. /\ \A len \in Nat : Growing(P, len, n) /\ i.do # "extend" => Growing(Q, len, n)
      /\ GrowingAfterAllocate(P, n) => GrowingAfterAllocate(Q, n)
  BY <1>1, <1>2, GrowingBehind
<1>6. ASSUME NEW len \in Nat, Growing(P, len, n), i.do = "extend", i.length <= ReallocLimit
      PROVE  len + i.length <= n /\ Growing(Q, len + i.length, n)
  <2>1. i.length \in 0 .. ReallocLimit
    BY <1>3, <1>6, LengthAssumption
  <2> QED
    BY <1>1, <1>2, <1>6, <2>1, GrowingBehindExtend
<1>7. ASSUME GrowingAfterAllocate(P, n), i.do = "allocate" PROVE Growing(Q, 0, n)
  BY <1>1, <1>2, <1>4, <1>7, GrowingBehindAllocate
<1> QED
  BY <1>5, <1>6, <1>7

\* A buffer that is yet to be made.
LEMMA UnmadePlaceStays ==
  ASSUME NEW J, NEW A, NEW c, NEW i, NEW J2, NEW A2, Stepped(J, A, c, i, J2, A2),
         Building(J[c].input, J2[c].plan), Has(J[c].plan, "allocate")
  PROVE  PlaceHolds(J2, J2[c].input, J2[c].plan, A2)
<1> DEFINE j == J[c].input
           P == J[c].plan
           Q == J2[c].plan
           a == MetadataPda(j)
           n == Len(j.data)
<1>1. /\ c \in Client /\ J[c].status = "running" /\ Fitting(j, i) /\ Changes(j, i, A, A2)
      /\ Leaves(P, i, Q) /\ J2[c].input = j /\ PlanOK(j, Q) /\ 1 \in DOMAIN P /\ i \in P[1]
  BY DEF Stepped, SameJobs
<1>2. JobOK(j) /\ PlanOK(j, P) /\ PlaceHolds(J, j, P, A) /\ n \in Nat
  BY <1>1, SteppedJobs, JobData
<1>3. Building(j, P)
  BY <1>1 DEF Building, Leaves
<1>4. Partly(<<>>, P, a, j.data) /\ GrowingAfterAllocate(P, n)
  BY <1>2, <1>3 DEF PlaceHolds
<1>5. i.do \in {"transfer", "allocate"}
  BY <1>1, Before DEF Fitting
<1>6. Partly(<<>>, Q, a, j.data)
  BY <1>1, <1>4, <1>5, PartlyBehind DEF Leaves
<1>7. CASE i.do = "allocate"
  <2>1. ~Has(Q, "allocate")
    BY <1>1, <1>7, Behind DEF Has
  <2>2. ValidBuffer(A2[a]) /\ A2[a].body = <<>>
    BY <1>1, <1>7 DEF Changes, Outcome, Spot
  <2>3. Growing(Q, 0, n)
    BY <1>1, <1>2, <1>4, <1>7, PlanGrows
  <2>4. Len(A2[a].body) = 0 /\ 0 <= n
    BY <1>2, <2>2
  <2> QED
    BY <1>1, <1>6, <2>1, <2>2, <2>3, <2>4 DEF PlaceHolds
<1>8. CASE i.do = "transfer"
  <2>1. Has(Q, "allocate")
    BY <1>1, <1>8 DEF Has, Leaves
  <2>2. GrowingAfterAllocate(Q, n)
    BY <1>1, <1>2, <1>4, PlanGrows
  <2> QED
    BY <1>1, <1>6, <2>1, <2>2 DEF PlaceHolds
<1> QED
  BY <1>5, <1>7, <1>8

\* A buffer that is being filled.
LEMMA MadePlaceStays ==
  ASSUME NEW J, NEW A, NEW c, NEW i, NEW J2, NEW A2, Stepped(J, A, c, i, J2, A2),
         Building(J[c].input, J2[c].plan), ~Has(J[c].plan, "allocate"),
         ~(i.do = "close" /\ i.account \in Place(J[c].input))
  PROVE  PlaceHolds(J2, J2[c].input, J2[c].plan, A2)
<1> DEFINE j == J[c].input
           P == J[c].plan
           Q == J2[c].plan
           a == MetadataPda(j)
           n == Len(j.data)
           r == A[a]
           s == A2[a]
           Short(body, R) == Len(body) <= n /\ Growing(R, Len(body), n)
<1>1. /\ c \in Client /\ J[c].status = "running" /\ Fitting(j, i) /\ Changes(j, i, A, A2)
      /\ Leaves(P, i, Q) /\ J2[c].input = j /\ PlanOK(j, Q) /\ 1 \in DOMAIN P /\ i \in P[1]
      /\ Follows(P, i, Q) /\ Remaining(P) \subseteq Remaining(Q) \cup {i} /\ i \in Remaining(P)
  BY DEF Stepped, SameJobs, Leaves
<1>2. /\ JobOK(j) /\ PlanOK(j, P) /\ PlaceHolds(J, j, P, A) /\ n \in Nat /\ j.data \in Seq(Byte)
      /\ GivenHolds(j, A) /\ A \in [Address -> AccountRecord]
  BY <1>1, SteppedJobs, JobData
<1>3. /\ Building(j, P) /\ ~Has(Q, "allocate") /\ i.do # "allocate"
      /\ Place(j) = {a} /\ a \in Address /\ a \notin BufferKey
  BY <1>1, <1>2, JobAddresses DEF Building, Leaves, Has, Place
<1>4. ValidBuffer(r) /\ Partly(r.body, P, a, j.data) /\ (Misled(J, a) \/ Short(r.body, P))
  BY <1>2, <1>3 DEF PlaceHolds
<1>5. r \in AccountRecord /\ r.body \in Seq(Byte) /\ Len(r.body) \in Nat
  BY <1>2, <1>3 DEF AccountRecord
<1> SUFFICES /\ ValidBuffer(s) /\ Partly(s.body, Q, a, j.data)
             /\ Short(r.body, P) => Short(s.body, Q)
  <2>1. Misled(J, a) => Misled(J2, a)
    BY MisledStays DEF Stepped
  <2> QED
    BY <1>1, <1>3, <1>4, <2>1 DEF PlaceHolds
<1>6. ASSUME Alike(r, s), i.do # "extend", ~(i.do \in {"write", "writeFrom"} /\ i.account = a)
      PROVE  /\ ValidBuffer(s) /\ Partly(s.body, Q, a, j.data)
             /\ Short(r.body, P) => Short(s.body, Q)
  <2>1. Growing(P, Len(r.body), n) => Growing(Q, Len(r.body), n)
    BY <1>1, <1>2, <1>4, <1>5, <1>6, PlanGrows, SMTT(60)
  <2>2. Partly(r.body, Q, a, j.data)
    BY <1>1, <1>4, <1>6, PartlyBehind
  <2> QED
    BY <1>4, <1>6, <2>1, <2>2 DEF Alike, SameKind, ValidBuffer
<1>7. CASE Spot(j, i) # a
  <2>1. Alike(r, s)
    BY <1>1, <1>3, <1>7 DEF Changes
  <2>2. i.do # "extend" /\ ~(i.do \in {"write", "writeFrom"} /\ i.account = a)
    BY <1>1, <1>3, <1>7 DEF Spot, Fitting
  <2> QED
    BY <1>6, <2>1, <2>2
<1>8. CASE Spot(j, i) = a
  <2>1. Outcome(j, i, A, s)
    BY <1>1, <1>8 DEF Changes
  <2>2. i.account = a \/ i.do = "initialize"
    BY <1>3, <1>8 DEF Spot
  <2>3. i.do \notin {"createAccount", "allocateKeypair"}
    BY <1>1, <1>2, <1>3, <2>2, JobAddresses DEF Fitting
  <2>4. i.do \notin {"initialize", "setData", "setDataFrom", "trim"}
    <3> SUFFICES ASSUME i.do \in {"initialize", "setData", "setDataFrom", "trim"} PROVE FALSE
      OBVIOUS
    <3>1. j.op # "create-buffer"
      BY <1>1 DEF Fitting, Target
    <3>2. PICK k \in Remaining(Q) : k.do \in {"write", "writeFrom", "initialize"}
      BY <3>1 DEF Building
    <3> QED
      BY <1>1, <3>2, Behind
  <2>5. i.do # "close"
    BY <1>3, <2>2
  <2>6. CASE i.do \in {"transfer", "setAuthority"}
    <3>1. Alike(r, s)
      BY <1>8, <2>1, <2>6, SMTT(60) DEF Outcome
    <3> QED
      BY <1>6, <2>6, <3>1
  <2>7. CASE i.do = "extend"
    <3>1. /\ SameKind(r, s) /\ s.body = Fit(r.body, Len(r.body) + i.length)
          /\ i.length \in 0 .. ReallocLimit
      BY <1>1, <1>8, <2>1, <2>7, LengthAssumption DEF Outcome, Fitting
    <3>2. Growing(P, Len(r.body), n) =>
            Len(r.body) + i.length <= n /\ Growing(Q, Len(r.body) + i.length, n)
      <4>1. i.length <= ReallocLimit
        BY <3>1, LengthAssumption
      <4> QED
        BY <1>1, <1>2, <1>4, <1>5, <2>7, <4>1, PlanGrows, SMTT(60)
    <3>3. Len(r.body) + i.length \in Nat /\ Len(r.body) <= Len(r.body) + i.length
      BY <1>5, <3>1, LengthAssumption
    <3>4. Len(s.body) = Len(r.body) + i.length
      BY <1>5, <3>1, <3>3, FitType
    <3>5. Partly(s.body, P, a, j.data)
      BY <1>2, <1>4, <1>5, <3>1, <3>3, PartlyFit, ZenonT(90)
    <3>6. Partly(s.body, Q, a, j.data)
      BY <1>1, <2>7, <3>5, PartlyBehind
    <3> QED
      BY <1>4, <3>1, <3>2, <3>4, <3>6 DEF SameKind, ValidBuffer
  <2>8. CASE i.do \in {"write", "writeFrom"}
    <3>1. Growing(Q, Len(s.body), n)
      BY <1>1, <2>8, Behind DEF Growing, Remaining
    <3>2. Partly(s.body, Q, a, j.data) /\ (Len(r.body) <= n => Len(s.body) <= n)
      <4>1. CASE i.do = "write"
        <5>1. s.body = Overwrite(r.body, i.offset, i.data) /\ i.offset \in Nat
              /\ i.data \in Seq(Byte) /\ Piece(j, i)
          BY <1>1, <1>8, <2>1, <4>1 DEF Outcome, Fitting
        <5>2. Remaining(P) \subseteq Remaining(Q) \cup {i} /\ j.data \in Seq(Byte)
          BY <1>1, <1>2
        <5>3. /\ Partly(Overwrite(r.body, i.offset, i.data), Q, a, j.data)
              /\ Len(r.body) <= n => Len(Overwrite(r.body, i.offset, i.data)) <= n
          BY <1>4, <1>5, <4>1, <5>1, <5>2, PartlyWrite
        <5> QED
          BY <5>1, <5>3
      <4>2. CASE i.do = "writeFrom"
        <5>1. s.body = Overwrite(r.body, 0, A[i.source].body) /\ ValidBuffer(A[i.source])
              /\ i.source \in Given(j)
          BY <1>1, <1>8, <2>1, <4>2 DEF Outcome, Fitting
        <5>2. A[i.source].body = j.data
          <6>1. A[i.source] \in AccountRecord
            BY <1>2, <5>1, JobAddresses
          <6> QED
            BY <1>2, <5>1, <6>1, VacantEmpty DEF GivenHolds
        <5>3. /\ Partly(Overwrite(r.body, 0, j.data), Q, a, j.data)
              /\ Len(r.body) <= n => Len(Overwrite(r.body, 0, j.data)) <= n
          BY <1>2, <1>4, <1>5, PartlyWriteFrom
        <5> QED
          BY <5>1, <5>2, <5>3
      <4> QED
        BY <2>8, <4>1, <4>2
    <3>3. ValidBuffer(s)
      BY <1>8, <2>1, <2>8 DEF Outcome, SameKind, ValidBuffer
    <3> QED
      BY <3>1, <3>2, <3>3
  <2> QED
    BY <1>1, <1>3, <2>3, <2>4, <2>5, <2>6, <2>7, <2>8 DEF Fitting
<1> QED
  BY <1>7, <1>8

LEMMA OwnPlaceStays ==
  ASSUME NEW J, NEW A, NEW c, NEW i, NEW J2, NEW A2, Stepped(J, A, c, i, J2, A2),
         ~(i.do = "close" /\ i.account \in Place(J[c].input))
  PROVE  PlaceHolds(J2, J2[c].input, J2[c].plan, A2)
<1>1. J2[c].input = J[c].input
  BY DEF Stepped, SameJobs
<1>2. CASE ~Building(J[c].input, J2[c].plan)
  BY <1>1, <1>2 DEF PlaceHolds
<1>3. CASE Building(J[c].input, J2[c].plan)
  BY <1>3, UnmadePlaceStays, MadePlaceStays
<1> QED
  BY <1>2, <1>3

LEMMA OwnFreshStays ==
  ASSUME NEW J, NEW A, NEW c, NEW i, NEW J2, NEW A2, Stepped(J, A, c, i, J2, A2)
  PROVE  FreshHolds(J2[c].input, J2[c].plan, A2)
<1> DEFINE j == J[c].input
           P == J[c].plan
           Q == J2[c].plan
           b == j.newBuffer
           n == Len(j.data)
           r == A[b]
           s == A2[b]
<1>1. /\ c \in Client /\ J[c].status = "running" /\ Fitting(j, i) /\ Changes(j, i, A, A2)
      /\ Leaves(P, i, Q) /\ J2[c].input = j /\ Disjoint(J)
      /\ Remaining(P) \subseteq Remaining(Q) \cup {i} /\ i \in Remaining(P)
  BY DEF Stepped, SameJobs, Leaves, JobsOK
<1>2. /\ JobOK(j) /\ FreshHolds(j, P, A) /\ n \in Nat /\ j.data \in Seq(Byte)
      /\ GivenHolds(j, A) /\ A \in [Address -> AccountRecord]
  BY <1>1, SteppedJobs, JobData
<1> SUFFICES ASSUME Filling(j, Q) PROVE FreshHolds(j, Q, A2)
  BY <1>1 DEF FreshHolds
<1>3. Filling(j, P) /\ Fresh(j) = {b} /\ b \in Address /\ b \in BufferKey
  BY <1>1, <1>2, JobAddresses DEF Filling, Leaves, Fresh
<1>4. b \notin Place(j) /\ b \notin Target(j) /\ b \notin Given(j)
  BY <1>1, <1>2, <1>3, JobAddresses, ZenonT(90) DEF Disjoint
<1>5. CASE Has(P, "createAccount")
  <2>1. Partly(<<>>, P, b, j.data)
    BY <1>2, <1>3, <1>5 DEF FreshHolds
  <2>2. i.do \notin {"write", "writeFrom"}
    BY <1>1, <1>5, Before
  <2>3. Partly(<<>>, Q, b, j.data)
    BY <1>1, <2>1, <2>2, PartlyBehind
  <2>4. CASE i.do = "createAccount"
    <3>1. ~Has(Q, "createAccount")
      BY <1>1, <2>4, Behind DEF Has
    <3>2. Spot(j, i) = b /\ i.length = n
      BY <1>1, <1>3, <2>4 DEF Spot, Fitting
    <3>3. s.owner = "self" /\ s.body = Fit(<<>>, n)
      BY <1>1, <2>4, <3>2 DEF Changes, Outcome
    <3>4. Partly(Fit(<<>>, n), Q, b, j.data) /\ Len(Fit(<<>>, n)) <= n
      <4> DEFINE data == j.data
                 none == <<>>
      <4>1. /\ none \in Seq(Byte) /\ Len(none) <= Len(data) /\ data \in Seq(Byte)
            /\ Len(data) \in Nat /\ Len(data) <= Len(data) /\ Partly(none, Q, b, data)
        BY <1>2, <2>3
      <4> HIDE DEF data, none
      <4>2. Partly(Fit(none, Len(data)), Q, b, data)
        BY <4>1, PartlyFit
      <4>3. Len(Fit(none, Len(data))) <= Len(data)
        BY <4>1, FitType
      <4> QED
        BY <4>2, <4>3 DEF data, none
    <3> QED
      BY <3>1, <3>3, <3>4 DEF FreshHolds
  <2>5. CASE i.do # "createAccount"
    <3>1. Has(Q, "createAccount")
      BY <1>1, <1>5, <2>5 DEF Has
    <3> QED
      BY <2>3, <3>1 DEF FreshHolds
  <2> QED
    BY <2>4, <2>5
<1>6. CASE ~Has(P, "createAccount")
  <2>1. r.owner = "self" /\ Partly(r.body, P, b, j.data) /\ ~Has(Q, "createAccount")
        /\ i.do # "createAccount" /\ Len(r.body) <= n
    BY <1>1, <1>2, <1>3, <1>6 DEF FreshHolds, Has, Leaves
  <2>2. r.body \in Seq(Byte) /\ r \in AccountRecord
    BY <1>2, <1>3 DEF AccountRecord
  <2> SUFFICES s.owner = "self" /\ Partly(s.body, Q, b, j.data) /\ Len(s.body) <= n
    BY <2>1 DEF FreshHolds
  <2>3. ASSUME s.owner = "self", s.body = r.body, ~(i.do \in {"write", "writeFrom"} /\ i.account = b)
        PROVE  s.owner = "self" /\ Partly(s.body, Q, b, j.data) /\ Len(s.body) <= n
    BY <1>1, <2>1, <2>3, PartlyBehind
  <2>4. CASE Spot(j, i) # b
    <3>1. Alike(r, s)
      BY <1>1, <1>3, <2>4 DEF Changes
    <3> QED
      BY <2>1, <2>3, <2>4, <3>1 DEF Alike, SameKind, Spot
  <2>5. CASE Spot(j, i) = b
    <3>1. Outcome(j, i, A, s)
      BY <1>1, <2>5 DEF Changes
    <3>2. i.account = b /\ i.do \notin {"allocate", "initialize"}
      BY <1>1, <1>4, <2>5 DEF Spot, Fitting, Place
    <3>3. i.do \in {"allocateKeypair", "setAuthority", "write", "writeFrom", "close"}
      BY <1>1, <1>4, <2>1, <3>2 DEF Fitting
    <3>4. i.do # "close"
      <4> SUFFICES ASSUME i.do = "close" PROVE FALSE
        OBVIOUS
      <4>1. j.op # "create-buffer"
        BY <1>1, <1>3, <1>4, <3>2, JobAddresses DEF Fitting, Closable
      <4>2. PICK k \in Remaining(Q) : k.do \in {"write", "writeFrom", "close", "setDataFrom"}
        BY <4>1 DEF Filling
      <4> QED
        BY <1>1, <4>2, Behind
    <3>5. CASE i.do \in {"allocateKeypair", "setAuthority"}
      <4>1. s.owner = "self" /\ s.body = r.body
        BY <2>1, <2>5, <3>1, <3>5, ZenonT(90) DEF Outcome, Alike, SameKind
      <4> QED
        BY <2>3, <3>5, <4>1, SMTT(60)
    <3>6. CASE i.do = "write"
      <4>1. s.body = Overwrite(r.body, i.offset, i.data) /\ i.offset \in Nat
            /\ i.data \in Seq(Byte) /\ Piece(j, i) /\ SameKind(r, s)
        BY <1>1, <2>5, <3>1, <3>6 DEF Outcome, Fitting
      <4>2. /\ Partly(Overwrite(r.body, i.offset, i.data), Q, b, j.data)
            /\ Len(Overwrite(r.body, i.offset, i.data)) <= n
        <5>1. Partly(r.body, P, b, j.data) /\ j.data \in Seq(Byte) /\ r.body \in Seq(Byte)
              /\ Remaining(P) \subseteq Remaining(Q) \cup {i} /\ Len(r.body) <= Len(j.data)
          BY <1>1, <1>2, <2>1, <2>2
        <5> QED
          BY <3>6, <4>1, <5>1, PartlyWrite
      <4> QED
        BY <2>1, <4>1, <4>2 DEF SameKind
    <3>7. CASE i.do = "writeFrom"
      <4>1. s.body = Overwrite(r.body, 0, A[i.source].body) /\ ValidBuffer(A[i.source])
            /\ i.source \in Given(j) /\ SameKind(r, s)
        BY <1>1, <2>5, <3>1, <3>7 DEF Outcome, Fitting
      <4>2. A[i.source].body = j.data
        <5>1. A[i.source] \in AccountRecord
          BY <1>2, <4>1, JobAddresses
        <5> QED
          BY <1>2, <4>1, <5>1, VacantEmpty DEF GivenHolds
      <4>3. Partly(Overwrite(r.body, 0, j.data), Q, b, j.data)
            /\ Len(Overwrite(r.body, 0, j.data)) <= n
        BY <1>2, <2>1, <2>2, PartlyWriteFrom
      <4> QED
        BY <2>1, <4>1, <4>2, <4>3 DEF SameKind
    <3> QED
      BY <3>3, <3>4, <3>5, <3>6, <3>7
  <2> QED
    BY <2>4, <2>5
<1> QED
  BY <1>5, <1>6

\* A plan comes to hold only what nobody had.
LEMMA NewlyHeld ==
  ASSUME NEW J, NEW A, NEW c, NEW i, NEW J2, NEW A2, Stepped(J, A, c, i, J2, A2)
  PROVE  LET j == J[c].input
         IN  /\ HoldsPlace(j, J2[c].plan) =>
                  HoldsPlace(j, J[c].plan) \/ IsVacant(A[MetadataPda(j)])
             /\ HoldsFresh(j, J2[c].plan) =>
                  HoldsFresh(j, J[c].plan) \/ IsVacant(A[j.newBuffer])
<1> DEFINE j == J[c].input
           P == J[c].plan
           Q == J2[c].plan
<1>1. /\ Fitting(j, i) /\ Changes(j, i, A, A2)
      /\ Remaining(Q) \subseteq Remaining(P) /\ Remaining(P) \subseteq Remaining(Q) \cup {i}
  BY DEF Stepped, Leaves
<1>2. ASSUME HoldsPlace(j, Q) PROVE HoldsPlace(j, P) \/ IsVacant(A[MetadataPda(j)])
  <2>1. Building(j, P)
    BY <1>1, <1>2 DEF HoldsPlace, Building
  <2>2. Has(P, "allocate") => i.do = "allocate"
    BY <1>1, <1>2 DEF HoldsPlace, Has
  <2>3. i.do = "allocate" => IsVacant(A[MetadataPda(j)])
    BY <1>1 DEF Changes, Outcome, Spot
  <2> QED
    BY <2>1, <2>2, <2>3 DEF HoldsPlace
<1>3. ASSUME HoldsFresh(j, Q) PROVE HoldsFresh(j, P) \/ IsVacant(A[j.newBuffer])
  <2>1. Filling(j, P)
    BY <1>1, <1>3 DEF HoldsFresh, Filling
  <2>2. Has(P, "createAccount") => i.do = "createAccount"
    BY <1>1, <1>3 DEF HoldsFresh, Has
  <2>3. i.do = "createAccount" => IsVacant(A[j.newBuffer])
    <3> SUFFICES ASSUME i.do = "createAccount" PROVE IsVacant(A[j.newBuffer])
      OBVIOUS
    <3>1. Spot(j, i) = j.newBuffer
      BY <1>1 DEF Spot, Fitting, Fresh
    <3> QED
      BY <1>1, <3>1 DEF Changes, Outcome
  <2> QED
    BY <2>1, <2>2, <2>3 DEF HoldsFresh
<1> QED
  BY <1>2, <1>3

LEMMA ExclusiveStays ==
  ASSUME NEW J, NEW A, NEW c, NEW i, NEW J2, NEW A2, Stepped(J, A, c, i, J2, A2)
  PROVE  Exclusive(J2)
<1>1. /\ c \in Client /\ J[c].status = "running" /\ Exclusive(J)
      /\ \A d \in Client : J2[d].input = J[d].input
      /\ \A d \in Client \ {c} : J2[d].status = J[d].status /\ J2[d].plan = J[d].plan
  BY DEF Stepped, SameJobs
<1>2. ASSUME NEW d \in Client \ {c}, J[d].status = "running", HoldsPlace(J[d].input, J[d].plan),
             HoldsPlace(J[c].input, J2[c].plan), Place(J[c].input) \cap Place(J[d].input) # {}
      PROVE  FALSE
  <2>1. MetadataPda(J[c].input) = MetadataPda(J[d].input)
    BY <1>2 DEF Place
  <2>2. ValidBuffer(A[MetadataPda(J[d].input)])
    BY <1>2, PlaceKept
  <2>3. A[MetadataPda(J[d].input)] \in AccountRecord
    BY <1>2, SteppedJobs, JobAddresses
  <2>4. HoldsPlace(J[c].input, J[c].plan)
    BY <1>2, <2>1, <2>2, <2>3, NewlyHeld, VacantEmpty
  <2> QED
    BY <1>1, <1>2, <2>4 DEF Exclusive
<1> SUFFICES ASSUME NEW d \in Client, NEW e \in Client,
                    J2[d].status = "running", HoldsPlace(J2[d].input, J2[d].plan),
                    J2[e].status = "running", HoldsPlace(J2[e].input, J2[e].plan),
                    Place(J2[d].input) \cap Place(J2[e].input) # {}, d # e
             PROVE  FALSE
  BY DEF Exclusive
<1>3. CASE d = c
  BY <1>1, <1>2, <1>3
<1>4. CASE e = c
  BY <1>1, <1>2, <1>4
<1>5. CASE d # c /\ e # c
  BY <1>1, <1>5 DEF Exclusive
<1> QED
  BY <1>3, <1>4, <1>5

\* What a user closes is not gone before.
LEMMA TargetStays ==
  ASSUME NEW J, NEW A, NEW c, NEW i, NEW J2, NEW A2, Stepped(J, A, c, i, J2, A2),
         NEW d \in Client, J2[d].status = "running", J[d].status = "running",
         J[d].input.op = "close-buffer",
         NEW e \in Client, J[d].input.target \in Place(J[e].input) \cup Fresh(J[e].input)
  PROVE  ~IsVacant(A2[J[d].input.target])
<1> DEFINE j == J[c].input
           a == J[d].input.target
           r == A[a]
           s == A2[a]
<1>1. /\ c \in Client /\ J[c].status = "running" /\ Fitting(j, i) /\ Changes(j, i, A, A2)
      /\ Disjoint(J) /\ Leaves(J[c].plan, i, J2[c].plan)
      /\ J2[c].status = IF J2[c].plan = <<>> THEN "done" ELSE "running"
  BY DEF Stepped, JobsOK
<1>2. /\ JobOK(j) /\ JobOK(J[d].input) /\ JobOK(J[e].input) /\ ClosingOK(J, d, A)
      /\ A \in [Address -> AccountRecord] /\ A2 \in [Address -> AccountRecord]
      /\ \A b \in Address : WellFormed(b, A[b]) /\ WellFormed(b, A2[b])
  BY <1>1, SteppedJobs
<1>3. a \in Address /\ ~IsVacant(r)
  BY <1>2, JobAddresses DEF ClosingOK
<1>4. r \in AccountRecord /\ s \in AccountRecord /\ WellFormed(a, r) /\ WellFormed(a, s)
  BY <1>2, <1>3
<1>5. CASE Spot(j, i) # a
  <2>1. Alike(r, s)
    BY <1>1, <1>3, <1>5 DEF Changes
  <2> QED
    BY <1>3, <2>1 DEF Alike, SameKind, IsVacant, DataLen
<1>6. CASE Spot(j, i) = a
  <2>1. Outcome(j, i, A, s)
    BY <1>1, <1>6 DEF Changes
  <2>2. s.owner = "self" => ~IsVacant(s)
    BY DEF IsVacant
  <2>3. i.do # "close"
    <3> SUFFICES ASSUME i.do = "close" PROVE FALSE
      OBVIOUS
    <3>1. i.account = a /\ a \in Closable(j)
      BY <1>1, <1>6 DEF Spot, Fitting
    <3>2. a \notin Given(j)
      BY <1>1 DEF Disjoint
    <3>3. ~(j.op = "create-buffer" /\ a \in Place(j))
      BY <1>1, <1>2, <3>1, HoldsWhatItWrites DEF ClosingOK
    <3>4. a \notin Fresh(j)
      BY <1>1, <1>2, <3>1, HoldsWhatItWrites DEF ClosingOK
    <3>5. j.op = "close-buffer"
      BY <3>1, <3>2, <3>3, <3>4 DEF Closable
    <3>6. d = c
      BY <1>1, <1>2, <3>5 DEF ClosingOK
    <3>7. J2[c].plan = <<>>
      BY <3>5, CloseIsLast DEF Target, Place, AtPlace
    <3> QED
      BY <1>1, <3>6, <3>7
  <2>4. CASE i.do \in {"transfer", "setAuthority"}
    <3>1. Alike(r, s)
      BY <1>6, <2>1, <2>4 DEF Outcome
    <3> QED
      BY <1>3, <3>1 DEF Alike, SameKind, IsVacant, DataLen
  <2>5. CASE i.do \in {"createAccount", "allocateKeypair"}
    BY <1>6, <2>1, <2>2, <2>5 DEF Outcome
  <2>6. CASE i.do \in {"allocate", "write", "writeFrom"}
    <3>1. ValidBuffer(s)
      BY <1>6, <2>1, <2>6 DEF Outcome, SameKind, ValidBuffer
    <3> QED
      BY <1>4, <3>1, VacantEmpty, SMTT(60)
  <2>7. CASE i.do = "extend"
    <3>1. SameKind(r, s) /\ s.body = Fit(r.body, Len(r.body) + i.length) /\ i.length \in Nat
      BY <1>1, <1>6, <2>1, <2>7 DEF Outcome, Fitting
    <3>2. r.body \in Seq(Byte) /\ Len(r.body) \in Nat /\ r.head \in Nat
      <4>1. r.body \in Seq(Byte) /\ r.head \in 0 .. HeaderLen
        BY <1>4 DEF AccountRecord
      <4> QED
        BY <4>1, LengthAssumption, SMTT(60)
    <3>3. Len(r.body) + i.length \in Nat
      <4> DEFINE x == Len(r.body)
                 y == i.length
      <4>1. x \in Nat /\ y \in Nat
        BY <3>1, <3>2
      <4> HIDE DEF x, y
      <4>2. x + y \in Nat
        BY <4>1
      <4> QED
        BY <4>2 DEF x, y
    <3>4. Len(s.body) = Len(r.body) + i.length
      BY <3>1, <3>2, <3>3, FitType
    <3>5. SUFFICES ASSUME r.owner = "system", r.head + Len(s.body) = 0 PROVE FALSE
      BY <3>1, SMTT(60) DEF SameKind, IsVacant, DataLen
    <3>6. r.head + Len(r.body) = 0
      <4> DEFINE h == r.head
                 x == Len(r.body)
                 y == i.length
      <4>1. h \in Nat /\ x \in Nat /\ y \in Nat /\ h + (x + y) = 0
        BY <3>1, <3>2, <3>4, <3>5
      <4> HIDE DEF h, x, y
      <4>2. h + x = 0
        BY <4>1
      <4> QED
        BY <4>2 DEF h, x
    <3> QED
      BY <1>3, <3>5, <3>6 DEF IsVacant, DataLen
  <2>8. CASE i.do \in {"initialize", "setData", "setDataFrom"}
    <3>1. IsMetadata(s)
      BY <2>1, <2>8, SMTT(60) DEF Outcome, Publishes
    <3>2. s.owner = "self"
      BY <1>4, <3>1 DEF WellFormed, HeaderOwned, IsMetadata
    <3> QED
      BY <2>2, <3>2
  <2>9. CASE i.do = "trim"
    <3>1. SameKind(r, s) /\ s.body = Fit(r.body, TrimmedLen(r)) /\ r.discriminator # "Empty"
      BY <1>6, <2>1, <2>9 DEF Outcome
    <3>2. CASE IsMetadata(r)
      <4>1. s.owner = "self"
        BY <1>4, <3>1, <3>2 DEF WellFormed, HeaderOwned, IsMetadata, SameKind
      <4> QED
        BY <2>2, <4>1, SMTT(60)
    <3>3. CASE ~IsMetadata(r)
      <4>1. s.body = r.body
        <5>1. r.discriminator = "Buffer" /\ r.body \in Seq(Byte)
          BY <1>4, <3>1, <3>3 DEF IsMetadata, AccountRecord, Discriminator
        <5> QED
          BY <3>1, <5>1, FitAll, SMTT(60) DEF TrimmedLen
      <4> QED
        BY <1>3, <3>1, <4>1 DEF SameKind, IsVacant, DataLen
    <3> QED
      BY <3>2, <3>3
  <2> QED
    BY <1>1, <2>3, <2>4, <2>5, <2>6, <2>7, <2>8, <2>9 DEF Fitting
<1> QED
  BY <1>5, <1>6

LEMMA ClosingStays ==
  ASSUME NEW J, NEW A, NEW c, NEW i, NEW J2, NEW A2, Stepped(J, A, c, i, J2, A2),
         NEW d \in Client, J2[d].status = "running"
  PROVE  ClosingOK(J2, d, A2)
<1>1. /\ c \in Client /\ J[c].status = "running"
      /\ \A e \in Client : J2[e].input = J[e].input
      /\ \A e \in Client \ {c} : J2[e].status = J[e].status /\ J2[e].plan = J[e].plan
  BY DEF Stepped, SameJobs
<1>2. \A e \in Client : J2[e].status = "running" => J[e].status = "running"
  BY <1>1
<1> SUFFICES ASSUME J[d].input.op = "close-buffer", NEW e \in Client
             PROVE  LET j == J[d].input
                        k == J[e].input
                        P == J2[e].plan
                    IN  /\ j.target \in Place(k) \cup Fresh(k) => ~IsVacant(A2[j.target])
                        /\ J2[e].status = "running" /\ HoldsPlace(k, P) => j.target \notin Place(k)
                        /\ J2[e].status = "running" /\ HoldsFresh(k, P) => j.target \notin Fresh(k)
                        /\ J2[e].status = "running" /\ k.op = "close-buffer" => d = e
  BY <1>1 DEF ClosingOK
<1> DEFINE j == J[d].input
           k == J[e].input
<1>3. J[d].status = "running" /\ ClosingOK(J, d, A)
  BY <1>2, SteppedJobs
<1>4. /\ j.target \in Place(k) \cup Fresh(k) => ~IsVacant(A[j.target])
      /\ J[e].status = "running" /\ HoldsPlace(k, J[e].plan) => j.target \notin Place(k)
      /\ J[e].status = "running" /\ HoldsFresh(k, J[e].plan) => j.target \notin Fresh(k)
      /\ J[e].status = "running" /\ k.op = "close-buffer" => d = e
  BY <1>3 DEF ClosingOK
<1>5. j.target \in Place(k) \cup Fresh(k) => ~IsVacant(A2[j.target])
  BY <1>3, TargetStays
<1>6. CASE e # c
  BY <1>1, <1>4, <1>5, <1>6
<1>7. CASE e = c
  <2>1. HoldsPlace(k, J2[e].plan) => HoldsPlace(k, J[e].plan) \/ IsVacant(A[MetadataPda(k)])
    BY <1>7, NewlyHeld
  <2>2. HoldsFresh(k, J2[e].plan) => HoldsFresh(k, J[e].plan) \/ IsVacant(A[k.newBuffer])
    BY <1>7, NewlyHeld
  <2>3. j.target \in Place(k) => j.target = MetadataPda(k)
    BY DEF Place
  <2>4. j.target \in Fresh(k) => j.target = k.newBuffer
    BY DEF Fresh
  <2> QED
    BY <1>2, <1>4, <1>5, <2>1, <2>2, <2>3, <2>4
<1> QED
  BY <1>6, <1>7

\* A buffer that a plan has left is closed by its user only.
LEMMA OthersLeftStays ==
  ASSUME NEW J, NEW A, NEW c, NEW i, NEW J2, NEW A2, Stepped(J, A, c, i, J2, A2),
         NEW d \in Client, d # c
  PROVE  LeftHolds(J2, d, A2)
<1> DEFINE j == J[c].input
           k == J[d].input
<1>1. /\ c \in Client /\ Fitting(j, i) /\ Changes(j, i, A, A2) /\ Disjoint(J)
      /\ \A e \in Client : J2[e].input = J[e].input
      /\ J2[d].status = J[d].status /\ LeftHolds(J, d, A)
  BY DEF Stepped, SameJobs, JobsOK, AccountsOK
<1>2. JobOK(j) /\ JobOK(k)
  BY <1>1, SteppedJobs
<1> SUFFICES ASSUME J2[d].status = "done", OwnBuffer(J2, d), NEW b \in Place(k) \cup Fresh(k),
                    ValidBuffer(A2[b])
             PROVE  A2[b].body = k.data
  BY <1>1 DEF LeftHolds
<1>3. OwnBuffer(J, d)
  BY <1>1 DEF OwnBuffer
<1>4. ValidBuffer(A[b]) => A[b].body = k.data
  BY <1>1, <1>3 DEF LeftHolds
<1>5. b \in Address
  BY <1>2, JobAddresses
<1>6. CASE Spot(j, i) # b
  BY <1>1, <1>4, <1>5, <1>6 DEF Changes, Alike, SameKind, ValidBuffer
<1>7. CASE Spot(j, i) = b
  <2>1. b \notin Place(j)
    <3>1. CASE b \in Fresh(k)
      BY <1>2, <3>1, JobAddresses
    <3>2. CASE b \in Place(k)
      <4>1. Fresh(k) = {}
        BY <1>3, <3>2 DEF OwnBuffer, Place, AtPlace, Fresh
      <4> QED
        BY <1>1, <1>3, <3>2, <4>1 DEF OwnBuffer
    <3> QED
      BY <3>1, <3>2
  <2>2. b \notin Fresh(j)
    BY <1>1, <1>2, JobAddresses DEF Disjoint
  <2>3. b \notin Given(j) /\ b \notin Target(j)
    BY <1>1, <1>2, <2>1, JobAddresses DEF Disjoint
  <2>4. i.do = "close"
    BY <1>1, <1>7, <2>1, <2>2, <2>3 DEF Spot, Fitting, Place
  <2>5. IsVacant(A2[b]) /\ A2[b].head = 0
    BY <1>1, <1>7, <2>4 DEF Changes, Outcome
  <2> QED
    BY <2>5, LengthAssumption DEF ValidBuffer
<1> QED
  BY <1>6, <1>7

LEMMA OwnLeftHolds ==
  ASSUME NEW J, NEW A, NEW c, NEW i, NEW J2, NEW A2, Stepped(J, A, c, i, J2, A2)
  PROVE  LeftHolds(J2, c, A2)
<1> DEFINE j == J[c].input
           Q == J2[c].plan
<1>1. /\ c \in Client /\ Fitting(j, i) /\ Changes(j, i, A, A2) /\ J2[c].input = j
      /\ J2[c].status = IF Q = <<>> THEN "done" ELSE "running"
  BY DEF Stepped, SameJobs
<1>2. JobOK(j) /\ A2 \in [Address -> AccountRecord] /\ j.data \in Seq(Byte)
  BY <1>1, SteppedJobs, JobData
<1> SUFFICES ASSUME J2[c].status = "done", OwnBuffer(J2, c), NEW b \in Place(j) \cup Fresh(j),
                    ValidBuffer(A2[b])
             PROVE  A2[b].body = j.data
  BY <1>1 DEF LeftHolds
<1>3. Q = <<>> /\ j.op = "create-buffer"
  BY <1>1 DEF OwnBuffer
<1>4. Remaining(Q) = {} /\ ~Has(Q, "allocate") /\ ~Has(Q, "createAccount")
  BY <1>3 DEF Remaining, Has
<1>5. b \in Address /\ A2[b].body \in Seq(Byte)
  BY <1>2, JobAddresses DEF AccountRecord
<1>6. CASE b \in Place(j)
  <2>1. b = MetadataPda(j) /\ Building(j, Q)
    BY <1>3, <1>6 DEF Place, Building
  <2>2. ~(i.do = "close" /\ i.account \in Place(j))
    <3> SUFFICES ASSUME i.do = "close", i.account \in Place(j) PROVE FALSE
      OBVIOUS
    <3>1. Spot(j, i) = b
      BY <2>1 DEF Spot, Place
    <3>2. A2[b].head = 0
      BY <1>1, <3>1 DEF Changes, Outcome
    <3> QED
      BY <3>2, LengthAssumption DEF ValidBuffer
  <2>3. PlaceHolds(J2, j, Q, A2)
    BY <1>1, <2>2, OwnPlaceStays
  <2>4. ~Misled(J2, b)
    BY <1>1, <1>3, <1>6, <2>1 DEF OwnBuffer, Misled, Place, AtPlace, Fresh
  <2>5. Partly(A2[b].body, Q, b, j.data) /\ Len(A2[b].body) <= Len(j.data)
    BY <1>4, <2>1, <2>3, <2>4 DEF PlaceHolds
  <2> QED
    BY <1>2, <1>4, <1>5, <2>5, PartlyWhole
<1>7. CASE b \in Fresh(j)
  <2>1. b = j.newBuffer /\ Filling(j, Q)
    BY <1>3, <1>7 DEF Fresh, Filling
  <2>2. FreshHolds(j, Q, A2)
    BY <1>1, OwnFreshStays
  <2>3. Partly(A2[b].body, Q, b, j.data) /\ Len(A2[b].body) <= Len(j.data)
    BY <1>4, <2>1, <2>2 DEF FreshHolds
  <2> QED
    BY <1>2, <1>4, <1>5, <2>3, PartlyWhole
<1> QED
  BY <1>6, <1>7

LEMMA JobsStay ==
  ASSUME NEW J, NEW A, NEW c, NEW i, NEW J2, NEW A2, Stepped(J, A, c, i, J2, A2),
         DOMAIN J2 = Client, \A d \in Client : DOMAIN J2[d] = ClientJob
  PROVE  JobsOK(J2)
<1>1. /\ c \in Client /\ JobsOK(J) /\ PlanOK(J[c].input, J2[c].plan)
      /\ \A d \in Client : J2[d].input = J[d].input
      /\ \A d \in Client \ {c} : J2[d].status = J[d].status /\ J2[d].plan = J[d].plan
      /\ J2[c].status = IF J2[c].plan = <<>> THEN "done" ELSE "running"
      /\ Leaves(J[c].plan, i, J2[c].plan) /\ J[c].status = "running"
      /\ \A d \in Client :
           J[d].status \notin {"waiting", "rejected"} =>
             J2[d].found = J[d].found /\ (J2[d].alone => J[d].alone)
  BY DEF Stepped, SameJobs
<1>2. Disjoint(J2) /\ AloneOK(J2)
  <2>1. Disjoint(J2)
    BY <1>1 DEF JobsOK, Disjoint
  <2>2. AloneOK(J2)
    BY <1>1 DEF JobsOK, AloneOK
  <2> QED
    BY <2>1, <2>2
<1>3. ASSUME NEW d \in Client
      PROVE  /\ JobOK(J2[d].input) /\ Informed(J2[d].input)
             /\ PlanOK(J2[d].input, J2[d].plan)
             /\ J2[d].status = "running" <=> J2[d].plan # <<>>
  BY <1>1 DEF JobsOK
<1>4. ExtendsFound(J2[c].input, J2[c].plan, J2[c].found)
  <2> DEFINE j == J[c].input
             P == J[c].plan
             Q == J2[c].plan
  <2> SUFFICES ASSUME Has(Q, "extend"), ~Building(j, Q)
               PROVE  j.op \in {"update", "write"} /\ J2[c].found \in {"metadata", "other"}
    BY <1>1 DEF ExtendsFound
  <2>1. Has(P, "extend")
    BY <1>1 DEF Has, Leaves
  <2>2. i.do \notin {"write", "writeFrom", "initialize"}
    BY <1>1 DEF Has, Leaves, Rank
  <2>3. ~Building(j, P)
    BY <1>1, <2>2 DEF Building, Leaves
  <2> QED
    BY <1>1, <2>1, <2>3 DEF JobsOK, ExtendsFound
<1>5. ASSUME NEW d \in Client \ {c} PROVE ExtendsFound(J2[d].input, J2[d].plan, J2[d].found)
  <2>1. ExtendsFound(J[d].input, J[d].plan, J[d].found) /\ J2[d].input = J[d].input
        /\ J2[d].plan = J[d].plan /\ (J[d].status = "running" <=> J[d].plan # <<>>)
    BY <1>1 DEF JobsOK
  <2>2. Has(J[d].plan, "extend") => J[d].plan # <<>>
    BY DEF Has, Remaining
  <2> QED
    BY <1>1, <2>1, <2>2 DEF ExtendsFound
<1> QED
  BY <1>2, <1>3, <1>4, <1>5 DEF JobsOK

\* One instruction of one client keeps all of it.
LEMMA SteppedKeeps ==
  ASSUME NEW J, NEW A, NEW c, NEW i, NEW J2, NEW A2, Stepped(J, A, c, i, J2, A2),
         DOMAIN J2 = Client, \A d \in Client : DOMAIN J2[d] = ClientJob
  PROVE  JobsOK(J2) /\ Exclusive(J2) /\ AccountsOK(J2, A2)
<1>1. /\ c \in Client /\ Sound(A2) /\ J2[c].input = J[c].input
      /\ J2[c].status = IF J2[c].plan = <<>> THEN "done" ELSE "running"
      /\ \A d \in Client \ {c} : J2[d].status = J[d].status
  BY DEF Stepped, SameJobs
<1>2. \A a \in Address : Whole(J2, a, A2[a])
  BY WholeStays
<1>3. ASSUME NEW d \in Client, J2[d].status = "running"
      PROVE  /\ PlaceHolds(J2, J2[d].input, J2[d].plan, A2)
             /\ FreshHolds(J2[d].input, J2[d].plan, A2)
  <2>1. CASE d # c
    BY <1>1, <1>3, <2>1, OtherPlaceStays, OtherFreshStays
  <2>2. CASE d = c
    <3>1. ~(i.do = "close" /\ i.account \in Place(J[c].input))
      BY <1>1, <1>3, <2>2, OwnClose
    <3> QED
      BY <2>2, <3>1, OwnPlaceStays, OwnFreshStays
  <2> QED
    BY <2>1, <2>2
<1>4. \A d \in Client : LeftHolds(J2, d, A2)
  BY OthersLeftStays, OwnLeftHolds
<1>5. ASSUME NEW d \in Client, J2[d].status = "running" PROVE FoundOK(J2, d, A2)
  <2>1. J[d].status = "running"
    BY <1>1, <1>5 DEF Stepped
  <2> QED
    BY <2>1, FoundStays
<1>6. AccountsOK(J2, A2)
  BY <1>1, <1>2, <1>3, <1>4, <1>5, GivenStays, ClosingStays DEF AccountsOK
<1>7. JobsOK(J2)
  BY JobsStay
<1>8. Exclusive(J2)
  BY ExclusiveStays
<1> QED
  BY <1>6, <1>7, <1>8

-----------------------------------------------------------------------------
(* Clients that stop and clients that start touch no account.              *)

LEMMA EmptyPlan ==
  ASSUME NEW j
  PROVE  PlanOK(j, <<>>) /\ Remaining(<<>>) = {}
<1>1. Remaining(<<>>) = {}
  BY DEF Remaining
<1>2. <<>> \in Seq((SUBSET Instructions(j)) \ {{}})
  <2> DEFINE T == (SUBSET Instructions(j)) \ {{}}
  <2> HIDE DEF T
  <2>1. <<>> \in Seq(T)
    OBVIOUS
  <2> QED
    BY <2>1 DEF T
<1>3. Sorted(<<>>)
  BY DEF Sorted
<1> QED
  BY <1>1, <1>2, <1>3 DEF PlanOK, Has

Stops(J, c, J2) ==
  /\ c \in Client /\ SameJobs(J, J2, c)
  /\ J2[c].status \notin {"running", "done"} /\ J2[c].plan = <<>>

LEMMA StoppedAccounts ==
  ASSUME NEW J, NEW A, NEW c, NEW J2, Stops(J, c, J2), AccountsOK(J, A)
  PROVE  AccountsOK(J2, A)
<1>1. /\ c \in Client /\ J2[c].status \notin {"running", "done"}
      /\ \A d \in Client : J2[d].input = J[d].input
      /\ \A d \in Client \ {c} : J2[d].status = J[d].status /\ J2[d].plan = J[d].plan
      /\ \A d \in Client : J2[d].status = "running" => J2[d].found = J[d].found
  BY DEF Stops, SameJobs
<1>2. /\ Sound(A)
      /\ \A a \in Address : Whole(J, a, A[a])
      /\ \A d \in Client :
           /\ GivenHolds(J[d].input, A) /\ LeftHolds(J, d, A)
           /\ J[d].status = "running" =>
                /\ PlaceHolds(J, J[d].input, J[d].plan, A)
                /\ FreshHolds(J[d].input, J[d].plan, A)
                /\ FoundOK(J, d, A) /\ ClosingOK(J, d, A)
  BY DEF AccountsOK
<1>3. \A a \in Address : Whole(J2, a, A[a])
  BY <1>2, WholeOn DEF Stops
<1>4. \A d \in Client : J2[d].status = "running" => FoundOK(J2, d, A)
  BY <1>1, <1>2 DEF FoundOK
<1>5. ASSUME NEW d \in Client, J2[d].status = "running"
      PROVE  ClosingOK(J2, d, A)
  <2>1. d # c /\ ClosingOK(J, d, A)
    BY <1>1, <1>2, <1>5
  <2>2. \A e \in Client : J2[e].status = "running" =>
          J[e].status = "running" /\ J2[e].plan = J[e].plan
    BY <1>1
  <2> QED
    BY <1>1, <2>1, <2>2 DEF ClosingOK
<1>6. ASSUME NEW d \in Client PROVE LeftHolds(J2, d, A)
  <2>1. CASE d = c
    BY <1>1, <2>1 DEF LeftHolds
  <2>2. CASE d # c
    BY <1>1, <1>2, <2>2 DEF LeftHolds, OwnBuffer
  <2> QED
    BY <2>1, <2>2
<1>7. \A d \in Client : GivenHolds(J2[d].input, A)
  BY <1>1, <1>2
<1>8. ASSUME NEW d \in Client, J2[d].status = "running"
      PROVE  /\ PlaceHolds(J2, J2[d].input, J2[d].plan, A)
             /\ FreshHolds(J2[d].input, J2[d].plan, A)
  <2>1. \A a : Misled(J, a) => Misled(J2, a)
    BY MisledStays DEF Stops
  <2>2. PlaceHolds(J, J2[d].input, J2[d].plan, A) /\ FreshHolds(J2[d].input, J2[d].plan, A)
    BY <1>1, <1>2, <1>8
  <2> QED
    BY <2>1, <2>2 DEF PlaceHolds
<1> QED
  BY <1>2, <1>3, <1>4, <1>5, <1>6, <1>7, <1>8 DEF AccountsOK

LEMMA StoppedJobs ==
  ASSUME NEW J, NEW c, NEW J2, Stops(J, c, J2), JobsOK(J), Exclusive(J),
         DOMAIN J2 = Client, \A d \in Client : DOMAIN J2[d] = ClientJob
  PROVE  JobsOK(J2) /\ Exclusive(J2)
<1>1. /\ c \in Client /\ J2[c].status \notin {"running", "done"} /\ J2[c].plan = <<>>
      /\ \A d \in Client : J2[d].input = J[d].input
      /\ \A d \in Client \ {c} : J2[d].status = J[d].status /\ J2[d].plan = J[d].plan
      /\ \A d \in Client :
           J[d].status \notin {"waiting", "rejected"} =>
             J2[d].found = J[d].found /\ (J2[d].alone => J[d].alone)
  BY DEF Stops, SameJobs
<1>2. Exclusive(J2)
  BY <1>1 DEF Exclusive
<1>3. Disjoint(J2) /\ AloneOK(J2)
  BY <1>1, ZenonT(90) DEF JobsOK, Disjoint, AloneOK
<1>4. ASSUME NEW d \in Client
      PROVE  /\ JobOK(J2[d].input) /\ Informed(J2[d].input)
             /\ PlanOK(J2[d].input, J2[d].plan)
             /\ J2[d].status = "running" <=> J2[d].plan # <<>>
  BY <1>1, EmptyPlan DEF JobsOK
<1>5. ASSUME NEW d \in Client PROVE ExtendsFound(J2[d].input, J2[d].plan, J2[d].found)
  <2>1. Has(J2[d].plan, "extend") => J2[d].plan # <<>>
    BY DEF Has, Remaining
  <2>2. CASE J2[d].plan = <<>>
    BY <2>1, <2>2 DEF ExtendsFound
  <2>3. CASE J2[d].plan # <<>>
    <3>1. d # c /\ J[d].status = "running" /\ ExtendsFound(J[d].input, J[d].plan, J[d].found)
      BY <1>1, <2>3 DEF JobsOK
    <3> QED
      BY <1>1, <3>1
  <2> QED
    BY <2>2, <2>3
<1> QED
  BY <1>2, <1>3, <1>4, <1>5 DEF JobsOK

\* A plan to begin with: it holds nothing, and all of the data is to come.
Prepared(j, P) ==
  /\ PlanOK(j, P) /\ P # <<>>
  /\ Building(j, P) =>
       /\ Has(P, "allocate") /\ Partly(<<>>, P, MetadataPda(j), j.data)
       /\ GrowingAfterAllocate(P, Len(j.data))
  /\ Filling(j, P) => Has(P, "createAccount") /\ Partly(<<>>, P, j.newBuffer, j.data)

Starts(J, A, c, J2) ==
  /\ c \in Client /\ SameJobs(J, J2, c)
  /\ J2[c].status = "running" /\ Prepared(J[c].input, J2[c].plan)
  /\ J[c].input.op = "close-buffer" =>
       /\ \A d \in Client : J[d].status # "running"
       /\ ~IsVacant(A[J[c].input.target])
  /\ ExtendsFound(J[c].input, J2[c].plan, J2[c].found) /\ FoundOK(J2, c, A)
  /\ \A d \in Client \ {c} : J[d].status = "running" => ~J2[c].alone /\ ~J2[d].alone

LEMMA StartedKeeps ==
  ASSUME NEW J, NEW A, NEW c, NEW J2, Starts(J, A, c, J2),
         JobsOK(J), Exclusive(J), AccountsOK(J, A),
         DOMAIN J2 = Client, \A d \in Client : DOMAIN J2[d] = ClientJob
  PROVE  JobsOK(J2) /\ Exclusive(J2) /\ AccountsOK(J2, A)
<1> DEFINE j == J[c].input
           P == J2[c].plan
<1>1. /\ c \in Client /\ J2[c].status = "running" /\ Prepared(j, P)
      /\ \A d \in Client : J2[d].input = J[d].input
      /\ \A d \in Client \ {c} : J2[d].status = J[d].status /\ J2[d].plan = J[d].plan
      /\ j.op = "close-buffer" =>
           (\A d \in Client : J[d].status # "running") /\ ~IsVacant(A[j.target])
      /\ ExtendsFound(j, P, J2[c].found) /\ FoundOK(J2, c, A)
      /\ \A d \in Client \ {c} : J[d].status = "running" => ~J2[c].alone /\ ~J2[d].alone
      /\ \A d \in Client : J[d].status = "running" => J2[d].found = J[d].found
  BY DEF Starts, SameJobs
<1>2. /\ Sound(A)
      /\ \A a \in Address : Whole(J, a, A[a])
      /\ \A d \in Client :
           /\ GivenHolds(J[d].input, A) /\ LeftHolds(J, d, A)
           /\ J[d].status = "running" =>
                /\ PlaceHolds(J, J[d].input, J[d].plan, A)
                /\ FreshHolds(J[d].input, J[d].plan, A)
                /\ FoundOK(J, d, A) /\ ClosingOK(J, d, A)
  BY DEF AccountsOK
<1>3. ~HoldsPlace(j, P) /\ ~HoldsFresh(j, P) /\ PlaceHolds(J2, j, P, A) /\ FreshHolds(j, P, A)
  BY <1>1 DEF Prepared, HoldsPlace, HoldsFresh, PlaceHolds, FreshHolds
<1>4. Exclusive(J2)
  BY <1>1, <1>3, SMTT(60) DEF Exclusive
<1>5. JobsOK(J2)
  <2>1. Disjoint(J2) /\ AloneOK(J2)
    <3>1. Disjoint(J2)
      BY <1>1, ZenonT(90) DEF JobsOK, Disjoint
    <3>2. AloneOK(J2)
      BY <1>1 DEF AloneOK
    <3> QED
      BY <3>1, <3>2
  <2>2. ASSUME NEW d \in Client
        PROVE  /\ JobOK(J2[d].input) /\ Informed(J2[d].input)
               /\ PlanOK(J2[d].input, J2[d].plan)
               /\ J2[d].status = "running" <=> J2[d].plan # <<>>
    BY <1>1 DEF JobsOK, Prepared
  <2>3. ASSUME NEW d \in Client PROVE ExtendsFound(J2[d].input, J2[d].plan, J2[d].found)
    <3>1. CASE d = c
      BY <1>1, <3>1
    <3>2. CASE d # c
      <4>1. Has(J2[d].plan, "extend") => J2[d].plan # <<>>
        BY DEF Has, Remaining
      <4>2. ExtendsFound(J[d].input, J[d].plan, J[d].found)
            /\ (J[d].status = "running" <=> J[d].plan # <<>>)
        BY DEF JobsOK
      <4> QED
        BY <1>1, <3>2, <4>1, <4>2 DEF ExtendsFound
    <3> QED
      BY <3>1, <3>2
  <2> QED
    BY <2>1, <2>2, <2>3 DEF JobsOK
<1>6. \A a \in Address : Whole(J2, a, A[a])
  BY <1>2, WholeOn DEF Starts
<1>7. ASSUME NEW d \in Client, J2[d].status = "running" PROVE FoundOK(J2, d, A)
  <2>1. CASE d = c
    BY <1>1, <2>1
  <2>2. CASE d # c
    <3>1. J[d].status = "running" /\ FoundOK(J, d, A) /\ J2[d].found = J[d].found
      BY <1>1, <1>2, <1>7, <2>2
    <3> QED
      BY <1>1, <3>1 DEF FoundOK
  <2> QED
    BY <2>1, <2>2
<1>8. ASSUME NEW d \in Client PROVE LeftHolds(J2, d, A)
  <2>1. CASE d = c
    BY <1>1, <2>1 DEF LeftHolds
  <2>2. CASE d # c
    BY <1>1, <1>2, <2>2 DEF LeftHolds, OwnBuffer
  <2> QED
    BY <2>1, <2>2
<1>9. ASSUME NEW d \in Client, J2[d].status = "running"
      PROVE  /\ PlaceHolds(J2, J2[d].input, J2[d].plan, A)
             /\ FreshHolds(J2[d].input, J2[d].plan, A)
  <2>1. CASE d = c
    BY <1>1, <1>3, <2>1
  <2>2. CASE d # c
    <3>1. \A a : Misled(J, a) => Misled(J2, a)
      BY MisledStays DEF Starts
    <3>2. PlaceHolds(J, J2[d].input, J2[d].plan, A) /\ FreshHolds(J2[d].input, J2[d].plan, A)
      BY <1>1, <1>2, <1>9, <2>2
    <3> QED
      BY <3>1, <3>2 DEF PlaceHolds
  <2> QED
    BY <2>1, <2>2
<1>10. ASSUME NEW d \in Client, J2[d].status = "running"
       PROVE  ClosingOK(J2, d, A)
  <2> SUFFICES ASSUME J[d].input.op = "close-buffer", NEW e \in Client
               PROVE  LET a == J[d].input.target
                          k == J[e].input
                          Q == J2[e].plan
                      IN  /\ a \in Place(k) \cup Fresh(k) => ~IsVacant(A[a])
                          /\ J2[e].status = "running" /\ HoldsPlace(k, Q) => a \notin Place(k)
                          /\ J2[e].status = "running" /\ HoldsFresh(k, Q) => a \notin Fresh(k)
                          /\ J2[e].status = "running" /\ k.op = "close-buffer" => d = e
    BY <1>1 DEF ClosingOK
  <2>1. CASE d = c
    BY <1>1, <1>3, <2>1
  <2>2. CASE d # c
    <3>1. J[d].status = "running" /\ ClosingOK(J, d, A) /\ j.op # "close-buffer"
      BY <1>1, <1>2, <1>10, <2>2
    <3>2. CASE e = c
      BY <1>3, <3>1, <3>2 DEF ClosingOK
    <3>3. CASE e # c
      BY <1>1, <3>1, <3>3 DEF ClosingOK
    <3> QED
      BY <3>2, <3>3
  <2> QED
    BY <2>1, <2>2
<1>11. \A d \in Client : GivenHolds(J2[d].input, A)
  BY <1>1, <1>2
<1>12. AccountsOK(J2, A)
  BY <1>2, <1>6, <1>7, <1>8, <1>9, <1>10, <1>11 DEF AccountsOK
<1> QED
  BY <1>4, <1>5, <1>12

-----------------------------------------------------------------------------
(* The plans that clients begin with.                                      *)

\* The ranks of a plan's instructions are from lo to hi.
Block(j, P, lo, hi) ==
  /\ PlanOK(j, P)
  /\ \A i \in Remaining(P) : Rank[i.do] \in lo .. hi

LEMMA Joined ==
  ASSUME NEW j, NEW P, NEW Q, NEW lo \in Nat, NEW m \in Nat, NEW k \in Nat, NEW hi \in Nat,
         Block(j, P, lo, m), Block(j, Q, k, hi), lo <= m, m < k, k <= hi
  PROVE  /\ Block(j, P \o Q, lo, hi)
         /\ Remaining(P \o Q) = Remaining(P) \cup Remaining(Q)
<1> DEFINE T == (SUBSET Instructions(j)) \ {{}}
           R == P \o Q
<1>1. P \in Seq(T) /\ Q \in Seq(T) /\ Sorted(P) /\ Sorted(Q)
  BY DEF Block, PlanOK
<1> HIDE DEF T
<1>2. /\ R \in Seq(T) /\ Len(R) = Len(P) + Len(Q) /\ Len(P) \in Nat /\ Len(Q) \in Nat
      /\ DOMAIN P = 1 .. Len(P) /\ DOMAIN Q = 1 .. Len(Q) /\ DOMAIN R = 1 .. Len(P) + Len(Q)
      /\ \A s \in 1 .. Len(P) : R[s] = P[s]
      /\ \A s \in Len(P) + 1 .. Len(P) + Len(Q) : R[s] = Q[s - Len(P)]
  BY <1>1
<1> HIDE DEF R
<1>3. Remaining(R) = Remaining(P) \cup Remaining(Q)
  <2>1. ASSUME NEW i \in Remaining(R) PROVE i \in Remaining(P) \cup Remaining(Q)
    <3>1. PICK s \in DOMAIN R : i \in R[s]
      BY DEF Remaining
    <3>2. CASE s \in 1 .. Len(P)
      BY <1>2, <3>1, <3>2 DEF Remaining
    <3>3. CASE s \notin 1 .. Len(P)
      <4>1. s \in Len(P) + 1 .. Len(P) + Len(Q) /\ s - Len(P) \in DOMAIN Q
        BY <1>2, <3>3
      <4> QED
        BY <1>2, <3>1, <4>1 DEF Remaining
    <3> QED
      BY <3>2, <3>3
  <2>2. ASSUME NEW i \in Remaining(P) PROVE i \in Remaining(R)
    <3>1. PICK s \in DOMAIN P : i \in P[s]
      BY DEF Remaining
    <3>2. s \in DOMAIN R /\ R[s] = P[s]
      BY <1>2
    <3> QED
      BY <3>1, <3>2 DEF Remaining
  <2>3. ASSUME NEW i \in Remaining(Q) PROVE i \in Remaining(R)
    <3>1. PICK s \in DOMAIN Q : i \in Q[s]
      BY DEF Remaining
    <3>2. s + Len(P) \in Len(P) + 1 .. Len(P) + Len(Q) /\ (s + Len(P)) - Len(P) = s
      BY <1>2
    <3>3. s + Len(P) \in DOMAIN R /\ R[s + Len(P)] = Q[s]
      BY <1>2, <3>2
    <3> QED
      BY <3>1, <3>3 DEF Remaining
  <2> QED
    BY <2>1, <2>2, <2>3
<1>4. \A i \in Remaining(R) : Rank[i.do] \in lo .. hi
  BY <1>3 DEF Block
<1>5. Sorted(R)
  <2> SUFFICES ASSUME NEW s \in DOMAIN R, NEW t \in DOMAIN R, NEW i \in R[s], NEW l \in R[t]
               PROVE  /\ s < t => Rank[i.do] < Rank[l.do] \/ (i.do = "extend" /\ l.do = "extend")
                      /\ s = t => i = l \/ (i.do = "write" /\ l.do = "write")
    BY DEF Sorted
  <2>1. CASE s \in 1 .. Len(P) /\ t \in 1 .. Len(P)
    BY <1>1, <1>2, <2>1 DEF Sorted
  <2>2. CASE s \notin 1 .. Len(P) /\ t \notin 1 .. Len(P)
    <3>1. s - Len(P) \in DOMAIN Q /\ R[s] = Q[s - Len(P)]
      BY <1>2, <2>2, SMTT(60)
    <3>2. t - Len(P) \in DOMAIN Q /\ R[t] = Q[t - Len(P)]
      BY <1>2, <2>2, SMTT(60)
    <3>3. (s < t => s - Len(P) < t - Len(P)) /\ (s = t => s - Len(P) = t - Len(P))
      BY <1>2
    <3> QED
      BY <1>1, <3>1, <3>2, <3>3 DEF Sorted
  <2>3. CASE s \in 1 .. Len(P) /\ t \notin 1 .. Len(P)
    <3>1. i \in Remaining(P)
      BY <1>2, <2>3 DEF Remaining
    <3>2. t - Len(P) \in DOMAIN Q /\ R[t] = Q[t - Len(P)]
      BY <1>2, <2>3, SMTT(60)
    <3>3. l \in Remaining(Q)
      BY <3>2 DEF Remaining
    <3>4. Rank[i.do] \in lo .. m /\ Rank[l.do] \in k .. hi
      BY <3>1, <3>3 DEF Block
    <3> QED
      BY <1>2, <2>3, <3>4, SMTT(60)
  <2>4. CASE s \notin 1 .. Len(P) /\ t \in 1 .. Len(P)
    BY <1>2, <2>4
  <2> QED
    BY <2>1, <2>2, <2>3, <2>4
<1>6. Len(j.data) <= ReallocLimit => ~Has(R, "extend")
  BY <1>3 DEF Block, PlanOK, Has
<1>7. PlanOK(j, R)
  BY <1>2, <1>5, <1>6 DEF PlanOK, T
<1> QED
  BY <1>3, <1>4, <1>7 DEF R, Block

LEMMA Single ==
  ASSUME NEW j, NEW i \in Instructions(j), i.do # "extend"
  PROVE  /\ Block(j, Stage(i), Rank[i.do], Rank[i.do]) /\ Remaining(Stage(i)) = {i}
         /\ Rank[i.do] \in 1 .. 10
<1> DEFINE P == Stage(i)
           T == (SUBSET Instructions(j)) \ {{}}
<1>1. {i} \in T
  OBVIOUS
<1> HIDE DEF T
<1>2. P \in Seq(T) /\ DOMAIN P = {1} /\ P[1] = {i}
  BY <1>1 DEF Stage
<1> HIDE DEF P
<1>3. Remaining(P) = {i}
  BY <1>2 DEF Remaining
<1>4. Sorted(P)
  BY <1>2 DEF Sorted
<1>5. Rank[i.do] \in 1 .. 10
  BY InstructionsFit DEF Fitting, Rank
<1>6. PlanOK(j, P)
  BY <1>2, <1>3, <1>4 DEF PlanOK, Has, T
<1> QED
  BY <1>3, <1>5, <1>6 DEF P, Block

LEMMA NoBlock ==
  ASSUME NEW j, NEW lo, NEW hi
  PROVE  Block(j, <<>>, lo, hi) /\ Remaining(<<>>) = {}
BY EmptyPlan DEF Block

LEMMA WritePlanFits ==
  ASSUME NEW j, JobOK(j), NEW t \in Place(j) \cup Fresh(j)
  PROVE  /\ Block(j, WritePlan(t, j.data), 7, 7)
         /\ \A i \in Remaining(WritePlan(t, j.data)) : i.do = "write" /\ i.account = t
         /\ \A p \in DOMAIN j.data : \E i \in Remaining(WritePlan(t, j.data)) : Covers(i, t, p)
<1> DEFINE data == j.data
           P == WritePlan(t, data)
           T == (SUBSET Instructions(j)) \ {{}}
           offsets == {o \in 0 .. Len(data) - 1 : o % ChunkLen = 0}
           chunks == {Chunk(t, data, o) : o \in offsets}
<1>1. data \in Seq(Byte) \ {<<>>} /\ Len(data) \in Nat \ {0} /\ DOMAIN data = 1 .. Len(data)
  BY JobData, NotEmpty
<1>2. P = <<chunks>>
  BY DEF WritePlan, Chunk
<1>3. ASSUME NEW i \in chunks
      PROVE  i \in Instructions(j) /\ i.do = "write" /\ i.account = t
  <2>1. PICK o \in offsets : i = Chunk(t, data, o)
    OBVIOUS
  <2>2. o \in 0 .. Len(data) - 1 /\ o \in Nat
    BY <1>1
  <2>3. /\ i.account = t /\ i.offset = o /\ Len(i.data) \in 1 .. ChunkLen
        /\ o + Len(i.data) = IF o + ChunkLen < Len(data) THEN o + ChunkLen ELSE Len(data)
        /\ \A p \in 1 .. Len(i.data) : i.data[p] = data[o + p]
    BY <1>1, <2>1, <2>2, ChunkData, SMTT(60)
  <2>4. i.data \in Seq(Byte) /\ i.do = "write"
        /\ i = [do |-> "write", account |-> t, offset |-> o, data |-> i.data]
    <3> DEFINE end == IF o + ChunkLen < Len(data) THEN o + ChunkLen ELSE Len(data)
    <3>1. i = [do |-> "write", account |-> t, offset |-> o, data |-> SubSeq(data, o + 1, end)]
      BY <2>1 DEF Chunk
    <3>2. end \in 0 .. Len(data) /\ ChunkLen \in Nat
      BY <1>1, <2>2, PlanAssumption
    <3> HIDE DEF end
    <3>3. SubSeq(data, o + 1, end) \in Seq(Byte)
      BY <1>1, <2>2, <3>2
    <3> QED
      BY <3>1, <3>3
  <2>5. Piece(j, i)
    <3>1. i.offset + Len(i.data) <= Len(data)
      BY <1>1, <2>2, <2>3, PlanAssumption
    <3>2. DOMAIN i.data = 1 .. Len(i.data)
      BY <2>4
    <3> QED
      BY <2>3, <3>1, <3>2 DEF Piece
  <2>6. i \in [do : {"write"}, account : Place(j) \cup Fresh(j), offset : Nat, data : Seq(Byte)]
    BY <2>2, <2>4
  <2> QED
    BY <2>3, <2>4, <2>5, <2>6 DEF Instructions
<1>4. /\ \A p \in 1 .. Len(data) : \E i \in chunks : p - i.offset \in 1 .. Len(i.data)
      /\ \A i \in chunks : i.data \in Seq(Byte)
  <2>1. \A p \in 1 .. Len(data) : \E i \in P[1] : p - i.offset \in 1 .. Len(i.data)
    BY <1>1, ChunksTile
  <2>2. P[1] = chunks
    BY <1>2
  <2>3. \A i \in chunks : i.data \in Seq(Byte)
    BY <1>3, InstructionsFit DEF Fitting
  <2> QED
    BY <2>1, <2>2, <2>3
<1> HIDE DEF chunks
<1>5. chunks \in T
  <2>1. chunks # {}
    BY <1>1, <1>4
  <2> QED
    BY <1>3, <2>1
<1> HIDE DEF T
<1>6. P \in Seq(T) /\ DOMAIN P = {1} /\ P[1] = chunks
  BY <1>2, <1>5
<1> HIDE DEF P
<1>7. Remaining(P) = chunks
  BY <1>6 DEF Remaining
<1>8. Sorted(P) /\ \A i \in chunks : Rank[i.do] = 7
  BY <1>3, <1>6 DEF Sorted, Rank
<1>9. ~Has(P, "extend")
  BY <1>3, <1>7 DEF Has
<1>10. Block(j, P, 7, 7)
  BY <1>6, <1>7, <1>8, <1>9 DEF PlanOK, T, Block
<1>11. \A p \in DOMAIN data : \E i \in Remaining(P) : Covers(i, t, p)
  <2> SUFFICES ASSUME NEW p \in DOMAIN data PROVE \E i \in Remaining(P) : Covers(i, t, p)
    OBVIOUS
  <2>1. PICK i \in chunks : p - i.offset \in 1 .. Len(i.data)
    BY <1>1, <1>4
  <2>2. DOMAIN i.data = 1 .. Len(i.data)
    BY <1>4
  <2> QED
    BY <1>3, <1>7, <2>1, <2>2 DEF Covers
<1> QED
  BY <1>3, <1>7, <1>10, <1>11 DEF P

\* An extend plan reaches the length it is for, and no more.
Growth(a, P, n) ==
  /\ P \in Seq({{[do |-> "extend", account |-> a, length |-> l]} : l \in Nat})
  /\ \A s \in DOMAIN P : \A i \in P[s] : (s - 1) * ReallocLimit + i.length <= n
  /\ n <= ReallocLimit => P = <<>>

LEMMA Division ==
  ASSUME NEW n \in Nat \ {0}, NEW r \in Nat \ {0}
  PROVE  LET m == (n + r - 1) \div r
         IN  m \in Nat /\ m >= 1 /\ (m - 1) * r < n /\ n <= m * r
<1> DEFINE x == n + r - 1
           m == x \div r
<1>1. x \in Nat /\ x >= r
  OBVIOUS
<1>2. m \in Nat /\ m * r <= x /\ x < m * r + r
  <2> HIDE DEF x
  <2>1. m \in Nat /\ x = r * m + (x % r) /\ x % r \in 0 .. r - 1
    BY <1>1
  <2> QED
    BY <1>1, <2>1
<1>3. m >= 1
  <2>1. m = 0 => FALSE
    BY <1>1, <1>2
  <2> QED
    BY <1>2, <2>1
<1> HIDE DEF m
<1>4. (m - 1) * r = m * r - r /\ m * r \in Int
  BY <1>2
<1>5. (m - 1) * r < n /\ n <= m * r
  BY <1>2, <1>4
<1> QED
  BY <1>2, <1>3, <1>5 DEF m

LEMMA GrowPlanStages ==
  ASSUME NEW a, NEW n \in Int
  PROVE  Growth(a, GrowPlan(a, n), n)
<1> DEFINE extend(l) == {[do |-> "extend", account |-> a, length |-> l]}
           X == {extend(l) : l \in Nat}
<1>1. ReallocLimit \in Nat \ {0}
  BY LengthAssumption, PlanAssumption
<1>2. CASE n <= ReallocLimit
  <2>1. GrowPlan(a, n) = <<>>
    BY <1>2 DEF GrowPlan, Unless
  <2>2. <<>> \in Seq(X)
    <3> HIDE DEF X
    <3> QED
      OBVIOUS
  <2> QED
    BY <2>1, <2>2 DEF Growth
<1>3. CASE ~(n <= ReallocLimit)
  <2> DEFINE m == (n + ReallocLimit - 1) \div ReallocLimit
             length(s) == IF s < m THEN ReallocLimit ELSE n - (m - 1) * ReallocLimit
             P == [s \in 1 .. m |-> extend(length(s))]
  <2>1. n \in Nat \ {0}
    BY <1>1, <1>3
  <2>2. m \in Nat /\ m >= 1 /\ (m - 1) * ReallocLimit < n /\ n <= m * ReallocLimit
    BY <1>1, <2>1, Division
  <2>3. GrowPlan(a, n) = P
    BY <1>3 DEF GrowPlan, Unless, ExtendPlan
  <2> HIDE DEF m
  <2>4. \A s \in 1 .. m : length(s) \in Nat /\ (s - 1) * ReallocLimit + length(s) <= n
    <3> SUFFICES ASSUME NEW s \in 1 .. m
                 PROVE  length(s) \in Nat /\ (s - 1) * ReallocLimit + length(s) <= n
      OBVIOUS
    <3>1. CASE s < m
      <4>1. (s - 1) * ReallocLimit + ReallocLimit = s * ReallocLimit /\ s * ReallocLimit \in Int
        BY <1>1
      <4>2. s * ReallocLimit <= (m - 1) * ReallocLimit
        BY <1>1, <2>2, <3>1
      <4> QED
        BY <1>1, <2>1, <2>2, <3>1, <4>1, <4>2
    <3>2. CASE ~(s < m)
      <4>1. s = m
        BY <2>2, <3>2
      <4> DEFINE x == (m - 1) * ReallocLimit
      <4>2. x \in Int /\ x < n
        BY <1>1, <2>2
      <4> HIDE DEF x
      <4>3. n - x \in Nat /\ x + (n - x) <= n
        BY <2>1, <4>2
      <4> QED
        BY <3>2, <4>1, <4>3 DEF x
    <3> QED
      BY <3>1, <3>2
  <2> HIDE DEF length
  <2>5. P \in Seq(X)
    <3>1. \A s \in 1 .. m : extend(length(s)) \in X
      BY <2>4
    <3> HIDE DEF X, extend
    <3> QED
      BY <2>2, <3>1
  <2>6. \A s \in DOMAIN P : \A i \in P[s] : (s - 1) * ReallocLimit + i.length <= n
    BY <2>4
  <2> HIDE DEF P
  <2> QED
    BY <1>3, <2>3, <2>5, <2>6 DEF Growth
<1> QED
  BY <1>2, <1>3

LEMMA GrowPlanFits ==
  ASSUME NEW j, JobOK(j), AtPlace(j), NEW n \in Int, n <= Len(j.data)
  PROVE  LET P == GrowPlan(MetadataPda(j), n)
         IN  Block(j, P, 3, 3) /\ \A i \in Remaining(P) : i.do = "extend"
<1> DEFINE a == MetadataPda(j)
           P == GrowPlan(a, n)
           X == {{[do |-> "extend", account |-> a, length |-> l]} : l \in Nat}
           T == (SUBSET Instructions(j)) \ {{}}
<1>1. P \in Seq(X) /\ (n <= ReallocLimit => P = <<>>)
  BY GrowPlanStages DEF Growth
<1>2. ASSUME NEW e \in X
      PROVE  e \in T /\ \A i, k \in e : i = k /\ i.do = "extend"
  <2>1. PICK l \in Nat : e = {[do |-> "extend", account |-> a, length |-> l]}
    OBVIOUS
  <2>2. a \in Place(j)
    BY DEF Place
  <2>3. [do |-> "extend", account |-> a, length |-> l] \in Instructions(j)
    <3>1. [do |-> "extend", account |-> a, length |-> l] \in
            [do : {"extend"}, account : Place(j), length : Nat]
      BY <2>2
    <3> QED
      BY <3>1 DEF Instructions
  <2> QED
    BY <2>1, <2>3
<1>3. Len(j.data) \in Nat /\ ReallocLimit \in Nat
  BY JobData, LengthAssumption
<1> HIDE DEF X, T, P
<1>4. P \in Seq(T) /\ \A s \in DOMAIN P : P[s] \in X
  BY <1>1, <1>2
<1>5. \A i \in Remaining(P) : i.do = "extend"
  BY <1>2, <1>4 DEF Remaining
<1>6. Sorted(P)
  BY <1>2, <1>4 DEF Sorted
<1>7. Len(j.data) <= ReallocLimit => ~Has(P, "extend")
  <2>1. Len(j.data) <= ReallocLimit => P = <<>>
    BY <1>1, <1>3
  <2> QED
    BY <2>1, EmptyPlan DEF Has
<1>8. PlanOK(j, P)
  BY <1>4, <1>6, <1>7 DEF PlanOK, T
<1>9. Block(j, P, 3, 3)
  BY <1>5, <1>8 DEF Block, Rank
<1> QED
  BY <1>5, <1>9 DEF P

LEMMA Concatenation ==
  ASSUME NEW S, NEW x \in Seq(S), NEW y \in Seq(S)
  PROVE  /\ x \o y \in Seq(S) /\ Len(x \o y) = Len(x) + Len(y)
         /\ DOMAIN (x \o y) = 1 .. Len(x) + Len(y)
         /\ \A s \in DOMAIN (x \o y) :
              IF s <= Len(x) THEN (x \o y)[s] = x[s]
                             ELSE (x \o y)[s] = y[s - Len(x)] /\ s - Len(x) \in DOMAIN y
OBVIOUS

LEMMA AllocatePlanFits ==
  ASSUME NEW j, JobOK(j), AtPlace(j)
  PROVE  LET P == AllocatePlan(j, Len(j.data))
         IN  /\ Block(j, P, 1, 3) /\ Has(P, "allocate")
             /\ GrowingAfterAllocate(P, Len(j.data))
             /\ \A i \in Remaining(P) : i.do \in {"transfer", "allocate", "extend"}
<1> DEFINE a == MetadataPda(j)
           n == Len(j.data)
           pay == [do |-> "transfer", account |-> a, amount |-> Rent(n)]
           make == [do |-> "allocate"]
           G == GrowPlan(a, n)
           F == Stage(pay) \o Stage(make)
           P == F \o G
<1>1. n \in Nat /\ HeaderLen + n \in 0 .. MaxLen /\ a \in Place(j)
  <2>1. n \in Nat /\ HeaderLen + n <= MaxLen
    BY JobData DEF JobOK
  <2> QED
    BY <2>1, LengthAssumption DEF Place
<1>2. AllocatePlan(j, n) = P
  BY DEF AllocatePlan, TransferPlan
<1>3. pay \in Instructions(j) /\ make \in Instructions(j)
  <2>1. Rent(n) \in Nat
    BY <1>1, RentAssumption DEF Rent
  <2>2. pay \in [do : {"transfer"}, account : Place(j), amount : Nat]
    BY <1>1, <2>1
  <2>3. make \in {[do |-> "allocate"] : b \in Place(j)}
    BY <1>1
  <2> QED
    BY <2>2, <2>3 DEF Instructions
<1>4. /\ Block(j, Stage(pay), 1, 1) /\ Remaining(Stage(pay)) = {pay}
      /\ Block(j, Stage(make), 2, 2) /\ Remaining(Stage(make)) = {make}
  BY <1>3, Single DEF Rank
<1>5. /\ Block(j, G, 3, 3) /\ \A i \in Remaining(G) : i.do = "extend"
      /\ Growth(a, G, n)
  BY <1>1, GrowPlanFits, GrowPlanStages
<1>6. /\ pay.do = "transfer" /\ make.do = "allocate"
      /\ Stage(pay) = <<{pay}>> /\ Stage(make) = <<{make}>>
  BY DEF Stage
<1> HIDE DEF pay, G
<1>7. Block(j, F, 1, 2) /\ Remaining(F) = {pay} \cup {make}
  <2> DEFINE x == Stage(pay)
             y == Stage(make)
  <2>1. Block(j, x, 1, 1) /\ Block(j, y, 2, 2)
    BY <1>4
  <2> HIDE DEF x, y, make
  <2>2. Block(j, x \o y, 1, 2) /\ Remaining(x \o y) = Remaining(x) \cup Remaining(y)
    BY <2>1, Joined, 1 \in Nat, 2 \in Nat
  <2> QED
    BY <1>4, <2>2 DEF x, y
<1>8. F \in Seq({{pay}, {make}}) /\ Len(F) = 2 /\ F[1] = {pay} /\ F[2] = {make}
  <2> DEFINE x == Stage(pay)
             y == Stage(make)
             u == {pay}
             v == {make}
  <2>1. x = <<u>> /\ y = <<v>>
    BY <1>6
  <2>2. F = x \o y
    OBVIOUS
  <2> HIDE DEF x, y, u, v, F
  <2>3. x \in Seq({u, v}) /\ y \in Seq({u, v}) /\ Len(x) = 1 /\ Len(y) = 1 /\ x[1] = u /\ y[1] = v
    BY <2>1
  <2> DEFINE Z == {u, v}
  <2> HIDE DEF Z
  <2>4. /\ F \in Seq(Z) /\ Len(F) = Len(x) + Len(y) /\ DOMAIN F = 1 .. Len(x) + Len(y)
        /\ \A s \in DOMAIN F : IF s <= Len(x) THEN F[s] = x[s] ELSE F[s] = y[s - Len(x)]
    <3>1. x \in Seq(Z) /\ y \in Seq(Z)
      BY <2>3 DEF Z
    <3> QED
      BY <2>2, <3>1, Concatenation
  <2>5. Len(F) = 2 /\ DOMAIN F = 1 .. 2
    BY <2>3, <2>4
  <2>6. F[1] = x[1] /\ F[2] = y[2 - 1]
    BY <2>3, <2>4, <2>5
  <2> QED
    BY <2>3, <2>4, <2>5, <2>6 DEF u, v, Z
<1> HIDE DEF F
<1>9. Block(j, P, 1, 3) /\ Remaining(P) = ({pay} \cup {make}) \cup Remaining(G)
  <2>1. Block(j, F, 1, 2) /\ Block(j, G, 3, 3)
    BY <1>5, <1>7
  <2>2. Block(j, F \o G, 1, 3) /\ Remaining(F \o G) = Remaining(F) \cup Remaining(G)
    BY <2>1, Joined, 1 \in Nat, 2 \in Nat, 3 \in Nat
  <2> QED
    BY <1>7, <2>2
<1>10. GrowingAfterAllocate(P, n)
  <2> DEFINE X == {{[do |-> "extend", account |-> a, length |-> l]} : l \in Nat}
  <2>1. G \in Seq(X) /\ \A s \in DOMAIN G : \A i \in G[s] : (s - 1) * ReallocLimit + i.length <= n
    BY <1>5 DEF Growth
  <2>2. \A e \in X : \A i \in e : e = {i} /\ i.do = "extend"
    OBVIOUS
  <2> HIDE DEF X
  <2>3. /\ DOMAIN P = 1 .. 2 + Len(G) /\ Len(G) \in Nat
        /\ P[1] = {pay} /\ P[2] = {make}
        /\ \A s \in 3 .. 2 + Len(G) : P[s] = G[s - 2] /\ s - 2 \in DOMAIN G
    <3> DEFINE Y == X \cup {{pay}, {make}}
    <3>1. F \in Seq(Y) /\ G \in Seq(Y) /\ Len(G) \in Nat /\ Len(F) = 2
      <4> DEFINE Z == {{pay}, {make}}
      <4>1. Z \subseteq Y /\ X \subseteq Y /\ F \in Seq(Z)
        BY <1>8
      <4> HIDE DEF Y, Z
      <4> QED
        BY <1>8, <2>1, <4>1
    <3> HIDE DEF Y
    <3>2. /\ DOMAIN P = 1 .. Len(F) + Len(G)
          /\ \A s \in DOMAIN P : IF s <= Len(F) THEN P[s] = F[s]
                                 ELSE P[s] = G[s - Len(F)] /\ s - Len(F) \in DOMAIN G
      BY <3>1, Concatenation, ZenonT(90)
    <3>3. 1 \in DOMAIN P /\ 2 \in DOMAIN P /\ 1 <= Len(F) /\ 2 <= Len(F)
      BY <3>1, <3>2
    <3> HIDE DEF P
    <3> QED
      BY <1>8, <3>1, <3>2, <3>3, SMTT(60)
  <2> SUFFICES ASSUME NEW d \in DOMAIN P, NEW s \in DOMAIN P, NEW i \in P[s],
                      make \in P[d], i.do = "extend"
               PROVE  P[s] = {i} /\ (s - d - 1) * ReallocLimit + i.length <= n
    BY DEF GrowingAfterAllocate
  <2>4. d = 2
    <3>1. d \in 3 .. 2 + Len(G) => FALSE
      <4> SUFFICES ASSUME d \in 3 .. 2 + Len(G) PROVE FALSE
        OBVIOUS
      <4>1. P[d] = G[d - 2] /\ d - 2 \in DOMAIN G
        BY <2>3
      <4>2. P[d] \in X
        BY <2>1, <4>1
      <4> QED
        BY <1>6, <2>2, <4>2
    <3>2. d # 1
      BY <1>6, <2>3
    <3> QED
      BY <2>3, <3>1, <3>2
  <2>5. s \in 3 .. 2 + Len(G)
    <3>1. s # 1 /\ s # 2
      BY <1>6, <2>3
    <3> QED
      BY <2>3, <3>1
  <2>6. P[s] = G[s - 2] /\ s - 2 \in DOMAIN G /\ P[s] \in X
    BY <2>1, <2>3, <2>5
  <2>7. P[s] = {i} /\ (s - 2 - 1) * ReallocLimit + i.length <= n
    BY <2>1, <2>2, <2>6
  <2> QED
    BY <2>4, <2>7
<1>11. Has(P, "allocate")
  BY <1>6, <1>9 DEF Has
<1>12. \A i \in Remaining(P) : i.do \in {"transfer", "allocate", "extend"}
  BY <1>5, <1>6, <1>9
<1> HIDE DEF P
<1> QED
  BY <1>2, <1>9, <1>10, <1>11, <1>12

\* What comes behind the Extends does not matter to them.
LEMMA AppendedGrowing ==
  ASSUME NEW S, NEW P \in Seq(S), NEW Q \in Seq(S), NEW n, GrowingAfterAllocate(P, n),
         \A i \in Remaining(Q) : i.do \notin {"allocate", "extend"}
  PROVE  GrowingAfterAllocate(P \o Q, n)
<1> DEFINE R == P \o Q
<1>1. /\ DOMAIN P = 1 .. Len(P) /\ Len(P) \in Nat
      /\ \A s \in DOMAIN R : s \in DOMAIN P => R[s] = P[s]
      /\ \A s \in DOMAIN R : s \notin DOMAIN P => R[s] = Q[s - Len(P)] /\ s - Len(P) \in DOMAIN Q
  OBVIOUS
<1> HIDE DEF R
<1>2. \A s \in DOMAIN R : s \notin DOMAIN P => \A i \in R[s] : i.do \notin {"allocate", "extend"}
  BY <1>1 DEF Remaining
<1>3. ASSUME NEW d \in DOMAIN R, NEW s \in DOMAIN R, NEW i \in R[s],
             [do |-> "allocate"] \in R[d], i.do = "extend"
      PROVE  R[s] = {i} /\ (s - d - 1) * ReallocLimit + i.length <= n
  <2>1. s \in DOMAIN P
    BY <1>2, <1>3
  <2>2. d \in DOMAIN P
    <3>1. [do |-> "allocate"].do = "allocate"
      OBVIOUS
    <3> QED
      BY <1>2, <1>3, <3>1
  <2> QED
    BY <1>1, <1>3, <2>1, <2>2 DEF GrowingAfterAllocate
<1> QED
  BY <1>3 DEF GrowingAfterAllocate, R

LEMMA Optional ==
  ASSUME NEW j, NEW P, NEW lo, NEW hi, Block(j, P, lo, hi), NEW skip
  PROVE  /\ Block(j, Unless(skip, P), lo, hi)
         /\ Remaining(Unless(skip, P)) \subseteq Remaining(P)
BY NoBlock DEF Unless

\* The instructions of which plans are made, one by one.
LEMMA OwnInstructions ==
  ASSUME NEW j, JobOK(j)
  PROVE  /\ \A a \in Place(j), n \in Nat :
              [do |-> "transfer", account |-> a, amount |-> n] \in Instructions(j)
         /\ \A a \in Target(j) :
              /\ [do |-> "initialize", data |-> <<>>] \in Instructions(j)
              /\ [do |-> "initialize", data |-> j.data] \in Instructions(j)
              /\ [do |-> "trim", account |-> a] \in Instructions(j)
              /\ [do |-> "setData", account |-> a, data |-> j.data] \in Instructions(j)
              /\ \A b \in Fresh(j) \cup Given(j) :
                   [do |-> "setDataFrom", account |-> a, source |-> b] \in Instructions(j)
         /\ \A b \in Fresh(j) :
              /\ [do |-> "createAccount", account |-> b, length |-> Len(j.data)] \in Instructions(j)
              /\ [do |-> "allocateKeypair", account |-> b] \in Instructions(j)
              /\ [do |-> "setAuthority", account |-> b] \in Instructions(j)
         /\ \A b \in Place(j) \cup Fresh(j), s \in Given(j) :
              [do |-> "writeFrom", account |-> b, source |-> s] \in Instructions(j)
         /\ \A b \in Closable(j) : [do |-> "close", account |-> b] \in Instructions(j)
<1>1. ASSUME NEW a \in Place(j), NEW n \in Nat
      PROVE  [do |-> "transfer", account |-> a, amount |-> n] \in Instructions(j)
  <2>1. [do |-> "transfer", account |-> a, amount |-> n] \in
          [do : {"transfer"}, account : Place(j), amount : Nat]
    OBVIOUS
  <2> QED
    BY <2>1 DEF Instructions
<1>2. ASSUME NEW a \in Target(j)
      PROVE  /\ [do |-> "initialize", data |-> <<>>] \in Instructions(j)
             /\ [do |-> "initialize", data |-> j.data] \in Instructions(j)
             /\ [do |-> "trim", account |-> a] \in Instructions(j)
             /\ [do |-> "setData", account |-> a, data |-> j.data] \in Instructions(j)
             /\ \A b \in Fresh(j) \cup Given(j) :
                  [do |-> "setDataFrom", account |-> a, source |-> b] \in Instructions(j)
  <2>1. \A data \in {<<>>, j.data} : [do |-> "initialize", data |-> data] \in
          {[do |-> "initialize", data |-> x] : x \in {<<>>, j.data}, b \in Target(j)}
    OBVIOUS
  <2>2. [do |-> "trim", account |-> a] \in [do : {"trim"}, account : Target(j)]
    OBVIOUS
  <2>3. [do |-> "setData", account |-> a, data |-> j.data] \in
          [do : {"setData"}, account : Target(j), data : {j.data}]
    OBVIOUS
  <2>4. \A b \in Fresh(j) \cup Given(j) :
          [do |-> "setDataFrom", account |-> a, source |-> b] \in
            [do : {"setDataFrom"}, account : Target(j), source : Fresh(j) \cup Given(j)]
    OBVIOUS
  <2> QED
    BY <2>1, <2>2, <2>3, <2>4 DEF Instructions
<1>3. ASSUME NEW b \in Fresh(j)
      PROVE  /\ [do |-> "createAccount", account |-> b, length |-> Len(j.data)] \in Instructions(j)
             /\ [do |-> "allocateKeypair", account |-> b] \in Instructions(j)
             /\ [do |-> "setAuthority", account |-> b] \in Instructions(j)
  <2>1. [do |-> "createAccount", account |-> b, length |-> Len(j.data)] \in
          [do : {"createAccount"}, account : Fresh(j), length : {Len(j.data)}]
    OBVIOUS
  <2>2. \A do \in {"allocateKeypair", "setAuthority"} :
          [do |-> do, account |-> b] \in
            [do : {"allocateKeypair", "setAuthority"}, account : Fresh(j)]
    OBVIOUS
  <2> QED
    BY <2>1, <2>2 DEF Instructions
<1>4. ASSUME NEW b \in Place(j) \cup Fresh(j), NEW s \in Given(j)
      PROVE  [do |-> "writeFrom", account |-> b, source |-> s] \in Instructions(j)
  <2>1. [do |-> "writeFrom", account |-> b, source |-> s] \in
          [do : {"writeFrom"}, account : Place(j) \cup Fresh(j), source : Given(j)]
    OBVIOUS
  <2> QED
    BY <2>1 DEF Instructions
<1>5. ASSUME NEW b \in Closable(j) PROVE [do |-> "close", account |-> b] \in Instructions(j)
  <2>1. [do |-> "close", account |-> b] \in [do : {"close"}, account : Closable(j)]
    OBVIOUS
  <2> QED
    BY <2>1 DEF Instructions
<1> QED
  BY <1>1, <1>2, <1>3, <1>4, <1>5

LEMMA FundPlanFits ==
  ASSUME NEW j, JobOK(j), AtPlace(j), NEW extra \in Int, extra <= Len(j.data)
  PROVE  LET P == FundPlan(MetadataPda(j), extra)
         IN  Block(j, P, 1, 1) /\ \A i \in Remaining(P) : i.do = "transfer"
<1> DEFINE a == MetadataPda(j)
           pay == [do |-> "transfer", account |-> a, amount |-> ExtraRent(extra)]
<1>1. a \in Place(j) /\ Len(j.data) \in Nat /\ HeaderLen + Len(j.data) <= MaxLen
  BY JobData DEF Place, JobOK
<1>2. CASE extra <= 0
  BY <1>2, NoBlock DEF FundPlan, Unless
<1>3. CASE ~(extra <= 0)
  <2>1. extra \in 0 .. MaxLen /\ 0 \in 0 .. MaxLen /\ 0 <= extra
    BY <1>1, <1>3, LengthAssumption
  <2>2. MinBalance(extra) - MinBalance(0) \in Nat
    <3> DEFINE x == MinBalance(extra)
               y == MinBalance(0)
    <3>1. x \in Nat \ {0} /\ y \in Nat \ {0} /\ y <= x
      BY <2>1, RentAssumption
    <3> HIDE DEF x, y
    <3>2. x - y \in Nat
      BY <3>1
    <3> QED
      BY <3>2 DEF x, y
  <2>3. ExtraRent(extra) \in Nat
    BY <2>2 DEF ExtraRent
  <2>4. pay \in Instructions(j)
    BY <1>1, <2>3, OwnInstructions
  <2>5. FundPlan(a, extra) = Stage(pay)
    BY <1>3 DEF FundPlan, Unless, TransferPlan
  <2>6. pay.do = "transfer" /\ Rank[pay.do] = 1
    BY DEF Rank
  <2> HIDE DEF pay
  <2>7. Block(j, Stage(pay), 1, 1) /\ Remaining(Stage(pay)) = {pay}
    BY <2>4, <2>6, Single
  <2> QED
    BY <2>5, <2>6, <2>7
<1> QED
  BY <1>2, <1>3

LEMMA OnePlan ==
  ASSUME NEW j, NEW i \in Instructions(j), NEW do, i.do = do, do # "extend", NEW r, Rank[do] = r
  PROVE  Block(j, Stage(i), r, r) /\ Remaining(Stage(i)) = {i}
BY Single

LEMMA ShrinkPlanFits ==
  ASSUME NEW j, JobOK(j), NEW a \in Target(j), NEW extra
  PROVE  LET P == ShrinkPlan(a, extra)
         IN  Block(j, P, 10, 10) /\ \A i \in Remaining(P) : i.do = "trim"
<1> DEFINE trim == [do |-> "trim", account |-> a]
<1>1. trim \in Instructions(j)
  BY OwnInstructions
<1>2. trim.do = "trim" /\ Rank["trim"] = 10
  BY DEF Rank
<1>3. ShrinkPlan(a, extra) = Unless(extra >= 0, Stage(trim))
  BY DEF ShrinkPlan, TrimPlan
<1> HIDE DEF trim
<1>4. Block(j, Stage(trim), 10, 10) /\ Remaining(Stage(trim)) = {trim}
  BY <1>1, <1>2, OnePlan
<1> QED
  BY <1>2, <1>3, <1>4, Optional

LEMMA ClosePlanFits ==
  ASSUME NEW j, JobOK(j), NEW b \in Closable(j), NEW skip
  PROVE  LET P == Unless(skip, ClosePlan(b))
         IN  Block(j, P, 9, 9) /\ \A i \in Remaining(P) : i.do = "close" /\ i.account = b
<1> DEFINE close == [do |-> "close", account |-> b]
<1>1. close \in Instructions(j)
  BY OwnInstructions
<1>2. close.do = "close" /\ close.account = b /\ Rank["close"] = 9
  BY DEF Rank
<1>3. ClosePlan(b) = Stage(close)
  BY DEF ClosePlan
<1> HIDE DEF close
<1>4. Block(j, Stage(close), 9, 9) /\ Remaining(Stage(close)) = {close}
  BY <1>1, <1>2, OnePlan
<1> QED
  BY <1>2, <1>3, <1>4, Optional

\* What a plan publishes with, when it creates metadata and when it updates it.
Creating(P) == Has(P, "initialize") /\ ~Has(P, "setData") /\ ~Has(P, "setDataFrom")
Updating(P) == (Has(P, "setData") \/ Has(P, "setDataFrom")) /\ ~Has(P, "initialize")

LEMMA PublishPlansFit ==
  ASSUME NEW j, JobOK(j), NEW a \in Target(j)
  PROVE  /\ \A data \in {<<>>, j.data} :
              LET P == InitializePlan(data)
              IN  /\ Block(j, P, 8, 8) /\ Has(P, "initialize")
                  /\ \A i \in Remaining(P) : i.do = "initialize" /\ i.data = data
         /\ LET P == Stage([do |-> "setData", account |-> a, data |-> j.data])
            IN  Block(j, P, 8, 8) /\ \A i \in Remaining(P) : i.do = "setData"
         /\ \A b \in Fresh(j) \cup Given(j) :
              LET P == SetDataFromPlan(a, b)
              IN  /\ Block(j, P, 8, 8) /\ Has(P, "setDataFrom")
                  /\ \A i \in Remaining(P) : i.do = "setDataFrom" /\ i.source = b
<1>1. Rank["initialize"] = 8 /\ Rank["setData"] = 8 /\ Rank["setDataFrom"] = 8
  BY DEF Rank
<1>2. ASSUME NEW data \in {<<>>, j.data}
      PROVE  /\ Block(j, InitializePlan(data), 8, 8) /\ Has(InitializePlan(data), "initialize")
             /\ \A i \in Remaining(InitializePlan(data)) : i.do = "initialize" /\ i.data = data
  <2> DEFINE x == [do |-> "initialize", data |-> data]
  <2>1. x \in Instructions(j) /\ x.do = "initialize" /\ x.data = data
    BY OwnInstructions
  <2>2. InitializePlan(data) = Stage(x)
    BY DEF InitializePlan
  <2> HIDE DEF x
  <2>3. Block(j, Stage(x), 8, 8) /\ Remaining(Stage(x)) = {x}
    BY <1>1, <2>1, OnePlan
  <2> QED
    BY <2>1, <2>2, <2>3 DEF Has
<1>3. LET P == Stage([do |-> "setData", account |-> a, data |-> j.data])
      IN  Block(j, P, 8, 8) /\ \A i \in Remaining(P) : i.do = "setData"
  <2> DEFINE x == [do |-> "setData", account |-> a, data |-> j.data]
  <2>1. x \in Instructions(j) /\ x.do = "setData"
    BY OwnInstructions
  <2> HIDE DEF x
  <2>2. Block(j, Stage(x), 8, 8) /\ Remaining(Stage(x)) = {x}
    BY <1>1, <2>1, OnePlan
  <2> QED
    BY <2>1, <2>2 DEF x
<1>4. ASSUME NEW b \in Fresh(j) \cup Given(j)
      PROVE  /\ Block(j, SetDataFromPlan(a, b), 8, 8) /\ Has(SetDataFromPlan(a, b), "setDataFrom")
             /\ \A i \in Remaining(SetDataFromPlan(a, b)) : i.do = "setDataFrom" /\ i.source = b
  <2> DEFINE x == [do |-> "setDataFrom", account |-> a, source |-> b]
  <2>1. x \in Instructions(j) /\ x.do = "setDataFrom" /\ x.source = b
    BY OwnInstructions
  <2>2. SetDataFromPlan(a, b) = Stage(x)
    BY DEF SetDataFromPlan
  <2> HIDE DEF x
  <2>3. Block(j, Stage(x), 8, 8) /\ Remaining(Stage(x)) = {x}
    BY <1>1, <2>1, OnePlan
  <2> QED
    BY <2>1, <2>2, <2>3 DEF Has
<1> QED
  BY <1>2, <1>3, <1>4

LEMMA WriteFromPlanFits ==
  ASSUME NEW j, JobOK(j), NEW t \in Place(j) \cup Fresh(j), NEW b \in Given(j)
  PROVE  LET P == WriteFromPlan(t, b)
         IN  /\ Block(j, P, 7, 7)
             /\ \A i \in Remaining(P) : i.do = "writeFrom" /\ i.account = t
             /\ \A p \in DOMAIN j.data : \E i \in Remaining(P) : Covers(i, t, p)
<1> DEFINE x == [do |-> "writeFrom", account |-> t, source |-> b]
<1>1. x \in Instructions(j) /\ x.do = "writeFrom" /\ x.account = t /\ Rank["writeFrom"] = 7
  BY OwnInstructions DEF Rank
<1>2. WriteFromPlan(t, b) = Stage(x)
  BY DEF WriteFromPlan
<1> HIDE DEF x
<1>3. Block(j, Stage(x), 7, 7) /\ Remaining(Stage(x)) = {x}
  BY <1>1, OnePlan
<1>4. \A p \in DOMAIN j.data : Covers(x, t, p)
  BY <1>1 DEF Covers
<1> QED
  BY <1>1, <1>2, <1>3, <1>4

\* The keypair's account is made at its full length.
MakePlan(j, b, n) ==
  Stage([do |-> "createAccount", account |-> b, length |-> n])
    \o Stage([do |-> "allocateKeypair", account |-> b])
    \o Stage([do |-> "setAuthority", account |-> b])

LEMMA MakePlanFits ==
  ASSUME NEW j, JobOK(j), NEW b \in Fresh(j)
  PROVE  LET P == MakePlan(j, b, Len(j.data))
         IN  /\ Block(j, P, 4, 6) /\ Has(P, "createAccount")
             /\ \A i \in Remaining(P) : i.do \in {"createAccount", "allocateKeypair", "setAuthority"}
<1> DEFINE x == [do |-> "createAccount", account |-> b, length |-> Len(j.data)]
           y == [do |-> "allocateKeypair", account |-> b]
           z == [do |-> "setAuthority", account |-> b]
<1>1. /\ x \in Instructions(j) /\ y \in Instructions(j) /\ z \in Instructions(j)
      /\ x.do = "createAccount" /\ y.do = "allocateKeypair" /\ z.do = "setAuthority"
  BY OwnInstructions
<1>2. Rank["createAccount"] = 4 /\ Rank["allocateKeypair"] = 5 /\ Rank["setAuthority"] = 6
  BY DEF Rank
<1>3. MakePlan(j, b, Len(j.data)) = Stage(x) \o Stage(y) \o Stage(z)
  BY DEF MakePlan
<1> HIDE DEF x, y, z
<1> DEFINE X == Stage(x)
           Y == Stage(y)
           Z == Stage(z)
<1>4. /\ Block(j, X, 4, 4) /\ Remaining(X) = {x}
      /\ Block(j, Y, 5, 5) /\ Remaining(Y) = {y}
      /\ Block(j, Z, 6, 6) /\ Remaining(Z) = {z}
  BY <1>1, <1>2, OnePlan
<1> HIDE DEF X, Y, Z
<1>5. Block(j, X \o Y, 4, 5) /\ Remaining(X \o Y) = Remaining(X) \cup Remaining(Y)
  <2>1. Block(j, X, 4, 4) /\ Block(j, Y, 5, 5)
    BY <1>4
  <2> QED
    BY <2>1, Joined, 4 \in Nat, 5 \in Nat
<1>6. Block(j, (X \o Y) \o Z, 4, 6)
      /\ Remaining((X \o Y) \o Z) = Remaining(X \o Y) \cup Remaining(Z)
  <2> DEFINE W == X \o Y
  <2>1. Block(j, W, 4, 5) /\ Block(j, Z, 6, 6)
    BY <1>4, <1>5
  <2> HIDE DEF W
  <2>2. Block(j, W \o Z, 4, 6) /\ Remaining(W \o Z) = Remaining(W) \cup Remaining(Z)
    BY <2>1, Joined, 4 \in Nat, 5 \in Nat, 6 \in Nat
  <2> QED
    BY <2>2 DEF W
<1>7. Remaining((X \o Y) \o Z) = {x, y, z}
  BY <1>4, <1>5, <1>6
<1>8. Has((X \o Y) \o Z, "createAccount")
  BY <1>1, <1>7 DEF Has
<1>9. \A i \in Remaining((X \o Y) \o Z) : i.do \in {"createAccount", "allocateKeypair", "setAuthority"}
  BY <1>1, <1>7
<1> QED
  BY <1>3, <1>6, <1>8, <1>9 DEF X, Y, Z

\* A plan joined to one that comes before it keeps what it has.
LEMMA HasJoined ==
  ASSUME NEW P, NEW Q, NEW R, Remaining(R) = Remaining(P) \cup Remaining(Q), NEW do
  PROVE  Has(R, do) <=> Has(P, do) \/ Has(Q, do)
BY DEF Has

LEMMA CreateBufferFits ==
  ASSUME NEW j, JobOK(j), NEW b \in Fresh(j)
  PROVE  LET P == CreateBuffer(j, b, None, Len(j.data))
         IN  /\ Block(j, P, 4, 7) /\ Has(P, "createAccount")
             /\ \A i \in Remaining(P) :
                  /\ i.do \in {"createAccount", "allocateKeypair", "setAuthority", "write"}
                  /\ i.do = "write" => i.account = b
             /\ \A p \in DOMAIN j.data : \E i \in Remaining(P) : Covers(i, b, p)
<1> DEFINE X == MakePlan(j, b, Len(j.data))
           W == WritePlan(b, j.data)
<1>1. CreateBuffer(j, b, None, Len(j.data)) = X \o W
  BY DEF CreateBuffer, MakePlan
<1>2. /\ Block(j, X, 4, 6) /\ Has(X, "createAccount")
      /\ \A i \in Remaining(X) : i.do \in {"createAccount", "allocateKeypair", "setAuthority"}
  BY MakePlanFits
<1>3. /\ Block(j, W, 7, 7) /\ \A i \in Remaining(W) : i.do = "write" /\ i.account = b
      /\ \A p \in DOMAIN j.data : \E i \in Remaining(W) : Covers(i, b, p)
  BY WritePlanFits
<1> HIDE DEF X, W
<1>4. Block(j, X \o W, 4, 7) /\ Remaining(X \o W) = Remaining(X) \cup Remaining(W)
  BY <1>2, <1>3, Joined, 4 \in Nat, 6 \in Nat, 7 \in Nat
<1>5. Has(X \o W, "createAccount")
  BY <1>2, <1>4, HasJoined
<1> QED
  BY <1>1, <1>2, <1>3, <1>4, <1>5

LEMMA CreateBufferFromFits ==
  ASSUME NEW j, JobOK(j), NEW b \in Fresh(j), NEW s \in Given(j)
  PROVE  LET P == CreateBuffer(j, b, s, Len(j.data))
         IN  /\ Block(j, P, 4, 9) /\ Has(P, "createAccount")
             /\ \A p \in DOMAIN j.data : \E i \in Remaining(P) : Covers(i, b, p)
<1> DEFINE X == MakePlan(j, b, Len(j.data))
           W == WriteFromPlan(b, s)
           C == Unless(~Closes(j), ClosePlan(s))
           Y == W \o C
<1>1. CreateBuffer(j, b, s, Len(j.data)) = X \o Y
  BY DEF CreateBuffer, MakePlan, Given
<1>2. Block(j, X, 4, 6) /\ Has(X, "createAccount")
  BY MakePlanFits
<1>3. Block(j, W, 7, 7) /\ \A p \in DOMAIN j.data : \E i \in Remaining(W) : Covers(i, b, p)
  BY WriteFromPlanFits
<1>4. Block(j, C, 9, 9)
  BY ClosePlanFits DEF Closable
<1> HIDE DEF X, W, C
<1>5. Block(j, Y, 7, 9) /\ Remaining(Y) = Remaining(W) \cup Remaining(C)
  BY <1>3, <1>4, Joined, 7 \in Nat, 9 \in Nat
<1> HIDE DEF Y
<1>6. Block(j, X \o Y, 4, 9) /\ Remaining(X \o Y) = Remaining(X) \cup Remaining(Y)
  BY <1>2, <1>5, Joined, 4 \in Nat, 6 \in Nat, 7 \in Nat, 9 \in Nat
<1>7. Has(X \o Y, "createAccount")
  BY <1>2, <1>6, HasJoined
<1> QED
  BY <1>1, <1>3, <1>5, <1>6, <1>7

-----------------------------------------------------------------------------
(* What is put together at the PDA: up to instructions of rank hi.         *)

Uploads(j, P, hi) ==
  /\ AtPlace(j) /\ Block(j, P, 1, hi) /\ Has(P, "allocate")
  /\ Partly(<<>>, P, MetadataPda(j), j.data)
  /\ GrowingAfterAllocate(P, Len(j.data))

LEMMA GrowingOn ==
  ASSUME NEW j, NEW P, NEW lo, NEW m, Block(j, P, lo, m), NEW Q, NEW k \in 4 .. 10, NEW hi \in Nat,
         Block(j, Q, k, hi), NEW n, GrowingAfterAllocate(P, n)
  PROVE  GrowingAfterAllocate(P \o Q, n)
<1> DEFINE S == (SUBSET Instructions(j)) \ {{}}
<1>1. P \in Seq(S) /\ Q \in Seq(S)
  BY DEF Block, PlanOK
<1>2. \A i \in Remaining(Q) : i.do \notin {"allocate", "extend"}
  BY DEF Block, Rank
<1> HIDE DEF S
<1> QED
  BY <1>1, <1>2, AppendedGrowing

LEMMA UploadBegins ==
  ASSUME NEW j, JobOK(j), AtPlace(j), NEW W, Block(j, W, 7, 7),
         \A p \in DOMAIN j.data : \E i \in Remaining(W) : Covers(i, MetadataPda(j), p)
  PROVE  LET A == AllocatePlan(j, Len(j.data))
         IN  Uploads(j, A \o W, 7) /\ Remaining(A \o W) = Remaining(A) \cup Remaining(W)
<1> DEFINE A == AllocatePlan(j, Len(j.data))
           P == A \o W
<1>1. Block(j, A, 1, 3) /\ Has(A, "allocate") /\ GrowingAfterAllocate(A, Len(j.data))
  BY AllocatePlanFits
<1> HIDE DEF A
<1>2. Block(j, A \o W, 1, 7) /\ Remaining(A \o W) = Remaining(A) \cup Remaining(W)
  BY <1>1, Joined, 1 \in Nat, 3 \in Nat, 7 \in Nat, SMTT(60)
<1>3. GrowingAfterAllocate(A \o W, Len(j.data))
  BY <1>1, GrowingOn, 7 \in Nat, 7 \in 4 .. 10
<1> HIDE DEF P
<1>4. Has(P, "allocate")
  BY <1>1, <1>2, HasJoined DEF P
<1>5. Partly(<<>>, P, MetadataPda(j), j.data)
  BY <1>2, JobData DEF Partly, P
<1> QED
  BY <1>2, <1>3, <1>4, <1>5 DEF Uploads, P, A

LEMMA UploadGoesOn ==
  ASSUME NEW j, NEW P, NEW m \in Nat, Uploads(j, P, m),
         NEW Q, NEW k \in 4 .. 10, NEW hi \in Nat, Block(j, Q, k, hi), 1 <= m, m < k, k <= hi
  PROVE  Uploads(j, P \o Q, hi) /\ Remaining(P \o Q) = Remaining(P) \cup Remaining(Q)
<1> DEFINE R == P \o Q
<1>1. Block(j, P, 1, m) /\ k \in Nat
  BY DEF Uploads
<1>2. Block(j, P \o Q, 1, hi) /\ Remaining(P \o Q) = Remaining(P) \cup Remaining(Q)
  BY <1>1, Joined, 1 \in Nat
<1>3. GrowingAfterAllocate(P \o Q, Len(j.data))
  BY <1>1, GrowingOn DEF Uploads
<1> HIDE DEF R
<1>4. Has(R, "allocate")
  BY <1>2, HasJoined DEF R, Uploads
<1>5. Partly(<<>>, R, MetadataPda(j), j.data)
  BY <1>2 DEF R, Partly, Uploads
<1> QED
  BY <1>2, <1>3, <1>4, <1>5 DEF Uploads, R

LEMMA HasSomething ==
  ASSUME NEW P, NEW do, Has(P, do)
  PROVE  P # <<>>
BY DEF Has, Remaining

LEMMA UploadPrepared ==
  ASSUME NEW j, JobOK(j), NEW P, NEW hi, Uploads(j, P, hi), ~Filling(j, P)
  PROVE  Prepared(j, P) /\ Building(j, P)
<1>1. Prepared(j, P)
  BY HasSomething DEF Prepared, Uploads, Block
<1>2. Building(j, P)
  <2>1. 1 \in DOMAIN j.data /\ 1 \notin DOMAIN <<>>
    BY JobData
  <2>2. PICK i \in Remaining(P) : Covers(i, MetadataPda(j), 1)
    BY <2>1 DEF Uploads, Partly
  <2> QED
    BY <2>2 DEF Uploads, Building, Place, Covers
<1> QED
  BY <1>1, <1>2

\* Who extends an account puts an upload together there.
Extends(j, P) == Has(P, "extend") => Building(j, P)

-----------------------------------------------------------------------------
(* The plans that clients begin with, one by one.                          *)

\* The job as it is when its client begins.
Ready(j) == JobOK(j) /\ Given(j) \cap (Fresh(j) \cup Place(j)) = {}

LEMMA ReadyPlaces ==
  ASSUME NEW j, Ready(j)
  PROVE  /\ JobOK(j) /\ Fresh(j) \cap Place(j) = {}
         /\ Given(j) \cap Fresh(j) = {} /\ Given(j) \cap Place(j) = {}
         /\ AtPlace(j) => Place(j) = {MetadataPda(j)}
         /\ AtPlace(j) /\ j.op # "create-buffer" => Target(j) = {MetadataPda(j)}
         /\ Given(j) \subseteq Closable(j)
BY JobAddresses DEF Ready, Place, Target, Closable

LEMMA InstructionDataCreates ==
  ASSUME NEW j, Ready(j), AtPlace(j), j.op # "create-buffer"
  PROVE  LET P == CreateUsingInstructionData(j)
         IN  Prepared(j, P) /\ Creating(P) /\ Extends(j, P)
<1> DEFINE a == MetadataPda(j)
           pay == [do |-> "transfer", account |-> a, amount |-> Rent(Len(j.data))]
           X == Stage(pay)
           Y == InitializePlan(j.data)
<1>1. CreateUsingInstructionData(j) = X \o Y
  BY DEF CreateUsingInstructionData, TransferPlan
<1>2. JobOK(j) /\ a \in Place(j) /\ a \in Target(j) /\ j.data # <<>> /\ Len(j.data) \in Nat
  BY ReadyPlaces, JobData
<1>3. pay.do = "transfer" /\ Rank["transfer"] = 1
  BY DEF Rank
<1>4. pay \in Instructions(j)
  <2>1. HeaderLen + Len(j.data) \in 0 .. MaxLen
    BY <1>2, LengthAssumption DEF JobOK
  <2>2. Rent(Len(j.data)) \in Nat
    BY <2>1, RentAssumption DEF Rent
  <2> QED
    BY <1>2, <2>2, OwnInstructions
<1> HIDE DEF pay
<1>5. Block(j, X, 1, 1) /\ Remaining(X) = {pay}
  BY <1>3, <1>4, OnePlan
<1>6. Block(j, Y, 8, 8) /\ Has(Y, "initialize")
      /\ \A i \in Remaining(Y) : i.do = "initialize" /\ i.data = j.data
  BY <1>2, PublishPlansFit
<1> HIDE DEF X, Y
<1>7. Block(j, X \o Y, 1, 8) /\ Remaining(X \o Y) = Remaining(X) \cup Remaining(Y)
  <2>1. Block(j, X, 1, 1) /\ Block(j, Y, 8, 8)
    BY <1>5, <1>6
  <2> QED
    BY <2>1, Joined, 1 \in Nat, 8 \in Nat
<1> DEFINE P == X \o Y
<1>8. \A i \in Remaining(P) : i.do \in {"transfer", "initialize"} /\ (i.do = "initialize" => i.data = j.data)
  BY <1>3, <1>5, <1>6, <1>7
<1>9. P # <<>>
  <2>1. Remaining(P) # {}
    BY <1>5, <1>7
  <2> QED
    BY <2>1, EmptyPlan
<1>13. Has(P, "initialize")
  BY <1>6, <1>7, HasJoined
<1>14. Creating(P) /\ Extends(j, P)
  BY <1>8, <1>13 DEF Creating, Has, Extends
<1>10. PlanOK(j, P)
  BY <1>7 DEF Block
<1> HIDE DEF P
<1>11. ~Building(j, P) /\ ~Filling(j, P)
  BY <1>2, <1>8 DEF Building, Filling
<1>12. Prepared(j, P)
  BY <1>9, <1>10, <1>11 DEF Prepared
<1> QED
  BY <1>1, <1>12, <1>14 DEF P

\* Nothing of the plan is about the keypair's account.
LEMMA NotFilling ==
  ASSUME NEW j, j.op # "create-buffer", NEW P,
         \A i \in Remaining(P) : /\ i.do \in {"write", "writeFrom", "close"} => i.account \notin Fresh(j)
                                 /\ i.do = "setDataFrom" => i.source \notin Fresh(j)
  PROVE  ~Filling(j, P)
BY DEF Filling

LEMMA NewBufferCreates ==
  ASSUME NEW j, Ready(j), AtPlace(j), j.op # "create-buffer"
  PROVE  LET P == CreateUsingNewBuffer(j)
         IN  Prepared(j, P) /\ Creating(P) /\ Extends(j, P)
<1> DEFINE a == MetadataPda(j)
           A == AllocatePlan(j, Len(j.data))
           W == WritePlan(a, j.data)
           X == InitializePlan(<<>>)
           P == (A \o W) \o X
<1>1. CreateUsingNewBuffer(j) = P
  BY DEF CreateUsingNewBuffer
<1>2. JobOK(j) /\ a \in Place(j) /\ a \in Target(j) /\ a \notin Fresh(j)
  BY ReadyPlaces
<1>3. /\ Block(j, W, 7, 7) /\ \A i \in Remaining(W) : i.do = "write" /\ i.account = a
      /\ \A p \in DOMAIN j.data : \E i \in Remaining(W) : Covers(i, a, p)
  BY <1>2, WritePlanFits
<1>4. Block(j, X, 8, 8) /\ Has(X, "initialize") /\ \A i \in Remaining(X) : i.do = "initialize"
  BY <1>2, PublishPlansFit
<1>5. \A i \in Remaining(A) : i.do \in {"transfer", "allocate", "extend"}
  BY <1>2, AllocatePlanFits
<1> HIDE DEF W, X
<1>6. Uploads(j, A \o W, 7) /\ Remaining(A \o W) = Remaining(A) \cup Remaining(W)
  BY <1>2, <1>3, UploadBegins
<1> DEFINE B == A \o W
<1> HIDE DEF A, B
<1>7. Uploads(j, B \o X, 8) /\ Remaining(B \o X) = Remaining(B) \cup Remaining(X)
  BY <1>4, <1>6, UploadGoesOn, 7 \in Nat, 8 \in Nat, 8 \in 4 .. 10 DEF B
<1>8. \A i \in Remaining(P) : /\ i.do \in {"transfer", "allocate", "extend", "write", "initialize"}
                              /\ i.do = "write" => i.account = a
  BY <1>3, <1>4, <1>5, <1>6, <1>7 DEF B
<1>9. Uploads(j, P, 8) /\ Has(P, "initialize")
  BY <1>4, <1>7, HasJoined DEF B
<1>11. Creating(P)
  BY <1>8, <1>9 DEF Creating, Has
<1> HIDE DEF P
<1>10. ~Filling(j, P)
  BY <1>2, <1>8, NotFilling
<1> QED
  BY <1>1, <1>2, <1>9, <1>10, <1>11, UploadPrepared DEF Extends

LEMMA ExistingBufferCreates ==
  ASSUME NEW j, Ready(j), AtPlace(j), j.op # "create-buffer", Given(j) # {}
  PROVE  LET P == CreateUsingExistingBuffer(j, Len(j.data))
         IN  Prepared(j, P) /\ Creating(P) /\ Extends(j, P)
<1> DEFINE a == MetadataPda(j)
           A == AllocatePlan(j, Len(j.data))
           W == WriteFromPlan(a, j.buffer)
           X == InitializePlan(<<>>)
           C == Unless(~Closes(j), ClosePlan(j.buffer))
           B == A \o W
           D == B \o X
           P == D \o C
<1>1. CreateUsingExistingBuffer(j, Len(j.data)) = P
  BY DEF CreateUsingExistingBuffer
<1>2. /\ JobOK(j) /\ a \in Place(j) /\ a \in Target(j) /\ a \notin Fresh(j)
      /\ j.buffer \in Given(j) /\ j.buffer \in Closable(j) /\ j.buffer \notin Fresh(j)
  BY ReadyPlaces DEF Given
<1>3. /\ Block(j, W, 7, 7) /\ \A i \in Remaining(W) : i.do = "writeFrom" /\ i.account = a
      /\ \A p \in DOMAIN j.data : \E i \in Remaining(W) : Covers(i, a, p)
  BY <1>2, WriteFromPlanFits
<1>4. Block(j, X, 8, 8) /\ Has(X, "initialize") /\ \A i \in Remaining(X) : i.do = "initialize"
  BY <1>2, PublishPlansFit
<1>5. Block(j, C, 9, 9) /\ \A i \in Remaining(C) : i.do = "close" /\ i.account = j.buffer
  BY <1>2, ClosePlanFits
<1>6. \A i \in Remaining(A) : i.do \in {"transfer", "allocate", "extend"}
  BY <1>2, AllocatePlanFits
<1> HIDE DEF W, X, C
<1>7. Uploads(j, B, 7) /\ Remaining(B) = Remaining(A) \cup Remaining(W)
  BY <1>2, <1>3, UploadBegins
<1> HIDE DEF A, B
<1>8. Uploads(j, D, 8) /\ Remaining(D) = Remaining(B) \cup Remaining(X)
  BY <1>4, <1>7, UploadGoesOn, 7 \in Nat, 8 \in Nat, 8 \in 4 .. 10
<1> HIDE DEF D
<1>9. Uploads(j, P, 9) /\ Remaining(P) = Remaining(D) \cup Remaining(C)
  BY <1>5, <1>8, UploadGoesOn, 8 \in Nat, 9 \in Nat, 9 \in 4 .. 10
<1>10. \A i \in Remaining(P) :
         /\ i.do \in {"transfer", "allocate", "extend", "writeFrom", "initialize", "close"}
         /\ i.do \in {"writeFrom", "close"} => i.account \in {a, j.buffer}
  BY <1>3, <1>4, <1>5, <1>6, <1>7, <1>8, <1>9
<1>12. Has(P, "initialize")
  BY <1>4, <1>8, <1>9 DEF Has
<1> HIDE DEF P
<1>13. Creating(P)
  BY <1>10, <1>12 DEF Creating, Has
<1>11. ~Filling(j, P)
  BY <1>2, <1>10, NotFilling
<1> QED
  BY <1>1, <1>2, <1>9, <1>11, <1>13, UploadPrepared DEF Extends

LEMMA PdaBufferCreates ==
  ASSUME NEW j, Ready(j), j.op = "create-buffer", j.newBuffer = None
  PROVE  Prepared(j, CreatePdaBuffer(j))
<1> DEFINE a == MetadataPda(j)
           A == AllocatePlan(j, Len(j.data))
           W == WritePlan(a, j.data)
           C == Unless(~Closes(j), ClosePlan(a))
           B == A \o W
           P == B \o C
<1>1. CreatePdaBuffer(j) = P
  BY DEF CreatePdaBuffer
<1>2. /\ JobOK(j) /\ AtPlace(j) /\ a \in Place(j) /\ a \in Closable(j) /\ Fresh(j) = {}
  BY ReadyPlaces DEF AtPlace, Place, Closable, Fresh
<1>3. /\ Block(j, W, 7, 7)
      /\ \A p \in DOMAIN j.data : \E i \in Remaining(W) : Covers(i, a, p)
  BY <1>2, WritePlanFits
<1>4. Block(j, C, 9, 9)
  BY <1>2, ClosePlanFits
<1> HIDE DEF W, C
<1>5. Uploads(j, B, 7)
  BY <1>2, <1>3, UploadBegins
<1> HIDE DEF B
<1>6. Uploads(j, P, 9)
  BY <1>4, <1>5, UploadGoesOn, 7 \in Nat, 9 \in Nat, 9 \in 4 .. 10
<1>7. ~Filling(j, P)
  BY <1>2 DEF Filling
<1> QED
  BY <1>1, <1>2, <1>6, <1>7, UploadPrepared

\* A buffer in the account of a new keypair.
LEMMA KeypairBufferCreates ==
  ASSUME NEW j, Ready(j), j.op = "create-buffer", j.newBuffer # None,
         NEW source, source = None \/ source \in Given(j)
  PROVE  Prepared(j, CreateBuffer(j, j.newBuffer, source, Len(j.data)))
<1> DEFINE b == j.newBuffer
           P == CreateBuffer(j, b, source, Len(j.data))
<1>1. JobOK(j) /\ b \in Fresh(j) /\ Len(j.data) \in Nat
  BY ReadyPlaces, JobData DEF Fresh
<1>2. /\ PlanOK(j, P) /\ Has(P, "createAccount")
      /\ \A p \in DOMAIN j.data : \E i \in Remaining(P) : Covers(i, b, p)
  <2>1. CASE source = None
    BY <1>1, <2>1, CreateBufferFits DEF Block
  <2>2. CASE source \in Given(j)
    BY <1>1, <2>2, CreateBufferFromFits DEF Block
  <2> QED
    BY <2>1, <2>2
<1> HIDE DEF P
<1>3. ~Building(j, P)
  BY DEF Building, AtPlace
<1>4. Partly(<<>>, P, b, j.data)
  BY <1>1, <1>2 DEF Partly
<1>5. Prepared(j, P)
  BY <1>2, <1>3, <1>4, HasSomething DEF Prepared
<1> QED
  BY <1>5 DEF P

LEMMA BufferCloses ==
  ASSUME NEW j, Ready(j), j.op = "close-buffer"
  PROVE  Prepared(j, ClosePlan(j.target))
<1> DEFINE P == ClosePlan(j.target)
           i == [do |-> "close", account |-> j.target]
<1>1. JobOK(j) /\ ~AtPlace(j) /\ Fresh(j) = {} /\ j.target \in Closable(j)
  BY DEF Ready, JobOK, AtPlace, Closable
<1>2. P = Stage(i) /\ i \in Instructions(j) /\ i.do = "close"
  BY <1>1, OwnInstructions DEF ClosePlan
<1> HIDE DEF i
<1>3. PlanOK(j, Stage(i)) /\ Remaining(Stage(i)) = {i}
  BY <1>2, Single DEF Block
<1>4. Stage(i) # <<>>
  BY <1>3, EmptyPlan
<1> QED
  BY <1>1, <1>2, <1>3, <1>4 DEF Prepared, Building, Filling

\* An update writes nothing to the metadata but at once.
LEMMA NotBuilding ==
  ASSUME NEW j, j.op # "create-buffer", NEW P,
         \A i \in Remaining(P) : /\ i.do \in {"write", "writeFrom"} => i.account \notin Place(j)
                                 /\ i.do # "initialize"
  PROVE  ~Building(j, P)
BY DEF Building

\* What the data may take more than what is there.
Extra(j, extra) == extra \in Int /\ extra <= Len(j.data)

\* Plan R consists of the plans F, X and T.
MadeOf(j, R, F, X, T) ==
  /\ Block(j, R, 1, 10)
  /\ Remaining(R) = (Remaining(F) \cup Remaining(X)) \cup Remaining(T)

LEMMA JoinedThrice ==
  ASSUME NEW j, NEW F, NEW X, NEW T, Block(j, F, 1, 1) /\ Block(j, X, 8, 8) /\ Block(j, T, 10, 10)
  PROVE  MadeOf(j, (F \o X) \o T, F, X, T)
<1> DEFINE B == F \o X
<1>1. Block(j, B, 1, 8) /\ Remaining(B) = Remaining(F) \cup Remaining(X)
  BY Joined, 1 \in Nat, 8 \in Nat
<1> HIDE DEF B
<1>2. Block(j, B \o T, 1, 10) /\ Remaining(B \o T) = Remaining(B) \cup Remaining(T)
  <2>1. Block(j, B, 1, 8) /\ Block(j, T, 10, 10) /\ 1 <= 8 /\ 8 < 10 /\ 10 <= 10
    BY <1>1
  <2> QED
    BY <2>1, Joined, 1 \in Nat, 8 \in Nat, 10 \in Nat
<1> QED
  BY <1>1, <1>2 DEF B, MadeOf

LEMMA InstructionDataUpdates ==
  ASSUME NEW j, Ready(j), AtPlace(j), j.op # "create-buffer", NEW extra, Extra(j, extra)
  PROVE  LET P == UpdateUsingInstructionData(j, extra) IN Prepared(j, P) /\ Updating(P)
<1> DEFINE a == MetadataPda(j)
           F == FundPlan(a, extra)
           set == [do |-> "setData", account |-> a, data |-> j.data]
           X == Stage(set)
           T == ShrinkPlan(a, extra)
           B == F \o X
           P == B \o T
<1>1. UpdateUsingInstructionData(j, extra) = P
  BY DEF UpdateUsingInstructionData
<1>2. JobOK(j) /\ a \in Target(j)
  BY ReadyPlaces
<1>3. Block(j, F, 1, 1) /\ \A i \in Remaining(F) : i.do = "transfer"
  BY <1>2, FundPlanFits DEF Extra
<1>4. Block(j, X, 8, 8) /\ Remaining(X) = {set} /\ set.do = "setData"
  <2>1. set \in Instructions(j) /\ set.do = "setData" /\ Rank["setData"] = 8
    BY <1>2, OwnInstructions DEF Rank
  <2> HIDE DEF set
  <2> QED
    BY <2>1, OnePlan
<1>5. Block(j, T, 10, 10) /\ \A i \in Remaining(T) : i.do = "trim"
  BY <1>2, ShrinkPlanFits
<1> HIDE DEF F, set, X, T
<1>6. /\ Block(j, P, 1, 10)
      /\ Remaining(P) = (Remaining(F) \cup Remaining(X)) \cup Remaining(T)
  <2>1. Block(j, F, 1, 1) /\ Block(j, X, 8, 8) /\ Block(j, T, 10, 10)
    BY <1>3, <1>4, <1>5
  <2>2. MadeOf(j, (F \o X) \o T, F, X, T)
    BY <2>1, JoinedThrice
  <2> QED
    BY <2>2 DEF MadeOf
<1>8. \A i \in Remaining(P) : i.do \in {"transfer", "setData", "trim"}
  BY <1>3, <1>4, <1>5, <1>6
<1>9. set \in Remaining(P)
  BY <1>4, <1>6
<1> HIDE DEF P
<1>10. PlanOK(j, P) /\ P # <<>>
  BY <1>6, <1>9, EmptyPlan DEF Block
<1>12. Updating(P)
  BY <1>4, <1>8, <1>9 DEF Updating, Has
<1>11. ~Building(j, P) /\ ~Filling(j, P)
  BY <1>8, NotBuilding, NotFilling
<1> QED
  BY <1>1, <1>10, <1>11, <1>12 DEF Prepared

\* What pays for the metadata to grow and makes it grow.
LEMMA GrowthFits ==
  ASSUME NEW j, Ready(j), AtPlace(j), NEW extra, Extra(j, extra)
  PROVE  LET P == FundPlan(MetadataPda(j), extra) \o GrowPlan(MetadataPda(j), extra)
         IN  Block(j, P, 1, 3) /\ \A i \in Remaining(P) : i.do \in {"transfer", "extend"}
<1> DEFINE F == FundPlan(MetadataPda(j), extra)
           G == GrowPlan(MetadataPda(j), extra)
<1>1. JobOK(j)
  BY ReadyPlaces
<1>2. Block(j, F, 1, 1) /\ \A i \in Remaining(F) : i.do = "transfer"
  BY <1>1, FundPlanFits DEF Extra
<1>3. Block(j, G, 3, 3) /\ \A i \in Remaining(G) : i.do = "extend"
  BY <1>1, GrowPlanFits DEF Extra
<1> HIDE DEF F, G
<1>4. Block(j, F \o G, 1, 3) /\ Remaining(F \o G) = Remaining(F) \cup Remaining(G)
  <2>1. Block(j, F, 1, 1) /\ Block(j, G, 3, 3)
    BY <1>2, <1>3
  <2> QED
    BY <2>1, Joined, 1 \in Nat, 3 \in Nat
<1>5. \A i \in Remaining(F \o G) : i.do \in {"transfer", "extend"}
  BY <1>2, <1>3, <1>4
<1> QED
  BY <1>4, <1>5 DEF F, G

\* An update's last instructions: from buffer b, which is closed, or not.
EndPlan(j, b, extra, P) ==
  ((P \o SetDataFromPlan(MetadataPda(j), b)) \o Unless(~Closes(j), ClosePlan(b)))
    \o ShrinkPlan(MetadataPda(j), extra)

\* Plan Q is plan P and such an end.
Ends(j, b, P, Q) ==
  /\ PlanOK(j, Q) /\ Q # <<>> /\ Remaining(P) \subseteq Remaining(Q)
  /\ Has(Q, "setDataFrom")
  /\ \A i \in Remaining(Q) : \/ i \in Remaining(P) \/ i.do = "trim"
                             \/ i.do = "setDataFrom" /\ i.source = b
                             \/ i.do = "close" /\ i.account = b

LEMMA EndFits ==
  ASSUME NEW j, Ready(j), AtPlace(j), j.op # "create-buffer", NEW b \in Fresh(j) \cup Given(j),
         NEW extra, NEW P, Block(j, P, 1, 7)
  PROVE  Ends(j, b, P, EndPlan(j, b, extra, P))
<1> DEFINE a == MetadataPda(j)
           S == SetDataFromPlan(a, b)
           C == Unless(~Closes(j), ClosePlan(b))
           T == ShrinkPlan(a, extra)
           X == P \o S
           Y == X \o C
           Q == Y \o T
<1>1. JobOK(j) /\ a \in Target(j) /\ b \in Closable(j)
  BY ReadyPlaces DEF Closable
<1>2. Block(j, S, 8, 8) /\ Has(S, "setDataFrom")
      /\ \A i \in Remaining(S) : i.do = "setDataFrom" /\ i.source = b
  BY <1>1, PublishPlansFit, ZenonT(90)
<1>3. Block(j, C, 9, 9) /\ \A i \in Remaining(C) : i.do = "close" /\ i.account = b
  BY <1>1, ClosePlanFits
<1>4. Block(j, T, 10, 10) /\ \A i \in Remaining(T) : i.do = "trim"
  BY <1>1, ShrinkPlanFits
<1> HIDE DEF S, C, T
<1>6. Block(j, X, 1, 8) /\ Remaining(X) = Remaining(P) \cup Remaining(S)
  <2>1. Block(j, P, 1, 7) /\ Block(j, S, 8, 8)
    BY <1>2
  <2> QED
    BY <2>1, Joined, 1 \in Nat, 7 \in Nat, 8 \in Nat
<1> HIDE DEF X
<1>7. Block(j, Y, 1, 9) /\ Remaining(Y) = Remaining(X) \cup Remaining(C)
  <2>1. Block(j, X, 1, 8) /\ Block(j, C, 9, 9)
    BY <1>3, <1>6
  <2> QED
    BY <2>1, Joined, 1 \in Nat, 8 \in Nat, 9 \in Nat
<1> HIDE DEF Y
<1>8. Block(j, Q, 1, 10) /\ Remaining(Q) = Remaining(Y) \cup Remaining(T)
  <2>1. Block(j, Y, 1, 9) /\ Block(j, T, 10, 10)
    BY <1>4, <1>7
  <2> QED
    BY <2>1, Joined, 1 \in Nat, 9 \in Nat, 10 \in Nat
<1> HIDE DEF Q
<1>5. Has(Q, "setDataFrom")
  BY <1>2, <1>6, <1>7, <1>8 DEF Has
<1>9. PlanOK(j, Q) /\ Q # <<>>
  BY <1>5, <1>8, HasSomething DEF Block
<1>10. Remaining(P) \subseteq Remaining(Q)
  BY <1>6, <1>7, <1>8
<1>11. \A i \in Remaining(Q) : \/ i \in Remaining(P) \/ i.do = "trim"
                               \/ i.do = "setDataFrom" /\ i.source = b
                               \/ i.do = "close" /\ i.account = b
  BY <1>2, <1>3, <1>4, <1>6, <1>7, <1>8
<1> QED
  BY <1>5, <1>9, <1>10, <1>11 DEF Ends, EndPlan, Q, Y, X, S, C, T

LEMMA ExistingBufferUpdates ==
  ASSUME NEW j, Ready(j), AtPlace(j), j.op # "create-buffer", Given(j) # {},
         NEW extra, Extra(j, extra)
  PROVE  LET P == UpdateUsingExistingBuffer(j, extra) IN Prepared(j, P) /\ Updating(P)
<1> DEFINE a == MetadataPda(j)
           P == FundPlan(a, extra) \o GrowPlan(a, extra)
           Q == EndPlan(j, j.buffer, extra, P)
<1>1. UpdateUsingExistingBuffer(j, extra) = Q
  BY DEF UpdateUsingExistingBuffer, EndPlan
<1>2. j.buffer \in Given(j) /\ j.buffer \notin Fresh(j)
  BY ReadyPlaces DEF Given
<1>3. Block(j, P, 1, 7) /\ \A i \in Remaining(P) : i.do \in {"transfer", "extend"}
  <2>1. Block(j, P, 1, 3) /\ \A i \in Remaining(P) : i.do \in {"transfer", "extend"}
    BY GrowthFits
  <2> QED
    BY <2>1 DEF Block
<1> HIDE DEF P
<1>4. Ends(j, j.buffer, P, Q)
  BY <1>2, <1>3, EndFits
<1> HIDE DEF Q
<1>5. \A i \in Remaining(Q) : /\ i.do \in {"transfer", "extend", "trim", "setDataFrom", "close"}
                              /\ i.do = "setDataFrom" => i.source = j.buffer
                              /\ i.do = "close" => i.account = j.buffer
  BY <1>3, <1>4 DEF Ends
<1>6. ~Building(j, Q) /\ ~Filling(j, Q)
  BY <1>2, <1>5, NotBuilding, NotFilling
<1>7. Updating(Q)
  BY <1>4, <1>5 DEF Ends, Updating, Has
<1> QED
  BY <1>1, <1>4, <1>6, <1>7 DEF Ends, Prepared

LEMMA NewBufferUpdates ==
  ASSUME NEW j, Ready(j), AtPlace(j), j.op # "create-buffer", Fresh(j) # {},
         NEW extra, Extra(j, extra)
  PROVE  LET P == UpdateUsingNewBuffer(j, extra) IN Prepared(j, P) /\ Updating(P)
<1> DEFINE a == MetadataPda(j)
           b == j.newBuffer
           G == FundPlan(a, extra) \o GrowPlan(a, extra)
           K == CreateBuffer(j, b, None, Len(j.data))
           P == G \o K
           Q == EndPlan(j, b, extra, P)
<1>1. UpdateUsingNewBuffer(j, extra) = Q
  BY DEF UpdateUsingNewBuffer, EndPlan
<1>2. JobOK(j) /\ b \in Fresh(j) /\ b \notin Place(j) /\ Len(j.data) \in Nat
  BY ReadyPlaces, JobData DEF Fresh
<1>3. Block(j, G, 1, 3) /\ \A i \in Remaining(G) : i.do \in {"transfer", "extend"}
  BY GrowthFits
<1>4. /\ Block(j, K, 4, 7) /\ Has(K, "createAccount")
      /\ \A i \in Remaining(K) :
           /\ i.do \in {"createAccount", "allocateKeypair", "setAuthority", "write"}
           /\ i.do = "write" => i.account = b
      /\ \A p \in DOMAIN j.data : \E i \in Remaining(K) : Covers(i, b, p)
  BY <1>2, CreateBufferFits
<1> HIDE DEF G, K
<1>5. Block(j, P, 1, 7) /\ Remaining(P) = Remaining(G) \cup Remaining(K)
  <2>1. Block(j, G, 1, 3) /\ Block(j, K, 4, 7)
    BY <1>3, <1>4
  <2> QED
    BY <2>1, Joined, 1 \in Nat, 3 \in Nat, 4 \in Nat, 7 \in Nat
<1> HIDE DEF P
<1>6. Ends(j, b, P, Q)
  BY <1>2, <1>5, EndFits
<1> HIDE DEF Q
<1>7. \A i \in Remaining(Q) : /\ i.do \in {"write", "writeFrom"} => i.account = b
                              /\ i.do # "initialize"
  BY <1>3, <1>4, <1>5, <1>6 DEF Ends
<1>8. ~Building(j, Q)
  BY <1>2, <1>7, NotBuilding
<1>9. Has(Q, "createAccount")
  BY <1>4, <1>5, <1>6 DEF Ends, Has
<1>10. Partly(<<>>, Q, b, j.data)
  <2>1. \A p \in DOMAIN j.data : \E i \in Remaining(Q) : Covers(i, b, p)
    BY <1>4, <1>5, <1>6 DEF Ends
  <2> QED
    BY <1>2, <2>1 DEF Partly
<1>11. Updating(Q)
  BY <1>6, <1>7 DEF Ends, Updating, Has
<1> QED
  BY <1>1, <1>6, <1>8, <1>9, <1>10, <1>11 DEF Ends, Prepared

-----------------------------------------------------------------------------
(* A client begins.                                                        *)

LEMMA JobReady ==
  ASSUME NEW J, JobsOK(J), NEW c \in Client
  PROVE  Ready(J[c].input)
BY DEF Ready, JobsOK, Disjoint

LEMMA StartedJobs ==
  ASSUME DOMAIN job = Client, \A d \in Client : DOMAIN job[d] = ClientJob,
         NEW c \in Client, job[c].status = "waiting",
         NEW a, NEW status, NEW plan, NEW whole
  PROVE  LET J2 == StartedWith(c, a, status, plan, whole)
         IN  /\ DOMAIN J2 = Client /\ \A d \in Client : DOMAIN J2[d] = ClientJob
             /\ SameJobs(job, J2, c) /\ J2[c].status = status /\ J2[c].plan = plan
             /\ J2[c].found = Found(a)
             /\ \A d \in Client \ {c} :
                  job[d].status = "running" => ~J2[c].alone /\ ~J2[d].alone
<1> DEFINE J2 == StartedWith(c, a, status, plan, whole)
<1>1. DOMAIN J2 = Client
  BY DEF StartedWith
<1>2. /\ DOMAIN J2[c] = ClientJob /\ J2[c].input = job[c].input
      /\ J2[c].status = status /\ J2[c].plan = plan /\ J2[c].found = Found(a)
      /\ J2[c].alone = ~\E d \in Client \ {c} : job[d].status = "running"
  BY DEF StartedWith, ClientJob, Running
<1>3. ASSUME NEW d \in Client \ {c}
      PROVE  /\ DOMAIN J2[d] = ClientJob /\ J2[d].input = job[d].input
             /\ J2[d].status = job[d].status /\ J2[d].plan = job[d].plan
             /\ J2[d].found = job[d].found /\ (J2[d].alone => job[d].alone)
             /\ job[d].status = "running" => ~J2[d].alone
  <2>1. J2[d] = IF Running(d) THEN [job[d] EXCEPT !.alone = FALSE] ELSE job[d]
    BY DEF StartedWith
  <2>2. CASE Running(d)
    BY <2>1, <2>2 DEF ClientJob
  <2>3. CASE ~Running(d)
    BY <2>1, <2>3 DEF Running
  <2> QED
    BY <2>2, <2>3
<1> HIDE DEF J2
<1>4. SameJobs(job, J2, c)
  BY <1>2, <1>3 DEF SameJobs
<1> QED
  BY <1>1, <1>2, <1>3, <1>4 DEF J2

\* Whom an authority speaks for is a matter of the programs, which stay.
LEMMA SamePrograms ==
  ASSUME JobsOK(job'), prog' = prog
  PROVE  JobsOK(job)'
<1>1. ASSUME NEW c \in Client PROVE Informed(job[c].input)'
  <2>1. Informed(job'[c].input)
    BY DEF JobsOK
  <2> QED
    BY <2>1 DEF Informed, IsProgramAuthority, Upgradeable, Executable
<1>2. /\ DOMAIN job' = Client /\ Disjoint(job') /\ AloneOK(job')
      /\ \A c \in Client :
           /\ DOMAIN job'[c] = ClientJob /\ JobOK(job'[c].input)
           /\ PlanOK(job'[c].input, job'[c].plan)
           /\ ExtendsFound(job'[c].input, job'[c].plan, job'[c].found)
           /\ job'[c].status = "running" <=> job'[c].plan # <<>>
  BY DEF JobsOK
<1> QED
  BY <1>1, <1>2 DEF JobsOK

\* Who publishes has looked at its PDA, and found something there if it extends what
\* is not its own upload.
Looked(j, a, plan) ==
  j.op \in {"create", "update", "write"} =>
    /\ a = MetadataPda(j)
    /\ Extends(j, plan) \/ (j.op # "create" /\ Decodable(a))

LEMMA LookedFinds ==
  ASSUME UploadInv, NEW c \in Client, NEW a, NEW plan,
         Looked(job[c].input, a, plan), PlanOK(job[c].input, plan)
  PROVE  /\ ExtendsFound(job[c].input, plan, Found(a))
         /\ job[c].input.op \in {"update", "write"} /\ Found(a) = "metadata" =>
              IsMetadata(acct[MetadataPda(job[c].input)])
<1> DEFINE j == job[c].input
<1>1. JobOK(j) /\ Sound(acct)
  BY DEF UploadInv, JobsOK, AccountsOK
<1>2. ASSUME j.op \in {"update", "write"}, Found(a) = "metadata" PROVE IsMetadata(acct[MetadataPda(j)])
  <2>1. a = MetadataPda(j) /\ ValidMetadata(acct[a])
    BY <1>2 DEF Looked, Found
  <2> QED
    BY <2>1 DEF ValidMetadata, IsMetadata
<1>3. ASSUME Has(plan, "extend"), ~Building(j, plan)
      PROVE  j.op \in {"update", "write"} /\ Found(a) \in {"metadata", "other"}
  <2>1. PICK i \in Remaining(plan) : i.do = "extend"
    BY <1>3 DEF Has
  <2>2. i.account \in Place(j)
    <3>1. PICK s \in DOMAIN plan : i \in plan[s]
      BY DEF Remaining
    <3> DEFINE T == (SUBSET Instructions(j)) \ {{}}
    <3>2. plan \in Seq(T)
      BY DEF PlanOK
    <3> HIDE DEF T
    <3>3. plan[s] \in T
      BY <3>1, <3>2
    <3>4. Fitting(j, i)
      BY <3>1, <3>3, InstructionsFit DEF T
    <3> QED
      BY <2>1, <3>4 DEF Fitting
  <2>3. j.op \in {"create", "update", "write"}
    BY <1>3, <2>2 DEF Place, AtPlace, Building
  <2>4. j.op # "create" /\ Decodable(a)
    BY <1>3, <2>3 DEF Looked, Extends
  <2> QED
    BY <2>3, <2>4 DEF Found, Decodable
<1> QED
  BY <1>2, <1>3 DEF ExtendsFound

LEMMA StartKeeps ==
  ASSUME UploadInv, open = None, NEW c \in Client, job[c].status = "waiting",
         NEW a, NEW plan, NEW whole, Start(c, a, plan, whole),
         Prepared(job[c].input, plan), Looked(job[c].input, a, plan),
         job[c].input.op = "close-buffer" =>
           /\ \A d \in Client : job[d].status # "running"
           /\ ~IsVacant(acct[job[c].input.target])
  PROVE  UploadInv'
<1>1. /\ JobsOK(job) /\ Exclusive(job) /\ AccountsOK(job, acct)
      /\ DOMAIN job = Client /\ \A d \in Client : DOMAIN job[d] = ClientJob
  BY DEF UploadInv, JobsOK
<1>2. job' = StartedWith(c, a, "running", plan, whole) /\ UNCHANGED <<acct, prog, signer, open>>
  BY DEF Start, vars
<1> DEFINE J == job
           J2 == job'
<1>3. /\ DOMAIN J2 = Client /\ \A d \in Client : DOMAIN J2[d] = ClientJob
      /\ SameJobs(J, J2, c) /\ J2[c].status = "running" /\ J2[c].plan = plan
      /\ J2[c].found = Found(a)
      /\ \A d \in Client \ {c} : J[d].status = "running" => ~J2[c].alone /\ ~J2[d].alone
  BY <1>1, <1>2, StartedJobs
<1>4. Starts(J, acct, c, J2)
  <2>1. /\ ExtendsFound(J[c].input, plan, Found(a))
        /\ J[c].input.op \in {"update", "write"} /\ Found(a) = "metadata" =>
             IsMetadata(acct[MetadataPda(J[c].input)])
    BY LookedFinds DEF Prepared
  <2>2. J2[c].input = J[c].input
    BY <1>3 DEF SameJobs
  <2>3. FoundOK(J2, c, acct)
    BY <1>3, <2>1, <2>2 DEF FoundOK
  <2> QED
    BY <1>3, <2>1, <2>3 DEF Starts
<1> HIDE DEF J, J2
<1>5. JobsOK(J2) /\ Exclusive(J2) /\ AccountsOK(J2, acct)
  BY <1>1, <1>3, <1>4, StartedKeeps DEF J
<1> QED
  <2>1. OpenOK'
    BY <1>2 DEF OpenOK
  <2>2. prog' \in [Program -> ProgramRecord] /\ signer' \in Signer \cup {None}
    BY <1>2 DEF UploadInv
  <2>3. JobsOK(job)'
    BY <1>2, <1>5, SamePrograms DEF J2
  <2>4. Exclusive(job)'
    BY <1>5 DEF J2
  <2>5. AccountsOK(job, acct)'
    BY <1>2, <1>5 DEF J2
  <2> QED
    BY <2>1, <2>2, <2>3, <2>4, <2>5 DEF UploadInv

LEMMA RejectKeeps ==
  ASSUME UploadInv, open = None, NEW c \in Client, job[c].status = "waiting",
         NEW a, Reject(c, a)
  PROVE  UploadInv'
<1>1. /\ JobsOK(job) /\ Exclusive(job) /\ AccountsOK(job, acct)
      /\ DOMAIN job = Client /\ \A d \in Client : DOMAIN job[d] = ClientJob
  BY DEF UploadInv, JobsOK
<1>2. job' = StartedWith(c, a, "rejected", <<>>, FALSE) /\ UNCHANGED <<acct, prog, signer, open>>
  BY DEF Reject, vars
<1> DEFINE J == job
           J2 == job'
<1>3. /\ DOMAIN J2 = Client /\ \A d \in Client : DOMAIN J2[d] = ClientJob
      /\ SameJobs(J, J2, c) /\ J2[c].status = "rejected" /\ J2[c].plan = <<>>
  <2> DEFINE none == <<>>
             no == FALSE
  <2>1. J2 = StartedWith(c, a, "rejected", none, no)
    BY <1>2
  <2> HIDE DEF none, no
  <2>2. /\ DOMAIN J2 = Client /\ \A d \in Client : DOMAIN J2[d] = ClientJob
        /\ SameJobs(J, J2, c) /\ J2[c].status = "rejected" /\ J2[c].plan = none
    BY <1>1, <2>1, StartedJobs
  <2> QED
    BY <2>2 DEF none
<1>4. Stops(J, c, J2)
  BY <1>3 DEF Stops
<1> HIDE DEF J, J2
<1>5. JobsOK(J2) /\ Exclusive(J2) /\ AccountsOK(J2, acct)
  BY <1>1, <1>3, <1>4, StoppedAccounts, StoppedJobs DEF J
<1> QED
  <2>1. OpenOK'
    BY <1>2 DEF OpenOK
  <2>2. prog' \in [Program -> ProgramRecord] /\ signer' \in Signer \cup {None}
    BY <1>2 DEF UploadInv
  <2>3. JobsOK(job)'
    BY <1>2, <1>5, SamePrograms DEF J2
  <2>4. Exclusive(job)'
    BY <1>5 DEF J2
  <2>5. AccountsOK(job, acct)'
    BY <1>2, <1>5 DEF J2
  <2> QED
    BY <2>1, <2>2, <2>3, <2>4, <2>5 DEF UploadInv

\* A buffer that can be read holds the data of the job that names it.
LEMMA GivenLength ==
  ASSUME UploadInv, NEW c \in Client, NEW b \in Given(job[c].input), Decodable(b)
  PROVE  BodyLen(b) = Len(job[c].input.data)
<1>1. acct \in [Address -> AccountRecord] /\ GivenHolds(job[c].input, acct) /\ JobOK(job[c].input)
  BY DEF UploadInv, AccountsOK, JobsOK, Sound
<1>2. b \in Address /\ acct[b] \in AccountRecord
  BY <1>1, JobAddresses
<1>3. ~IsVacant(acct[b])
  BY <1>2, VacantEmpty, LengthAssumption DEF Decodable
<1> QED
  BY <1>1, <1>3 DEF GivenHolds, BodyLen

LEMMA BodyLengths ==
  ASSUME UploadInv, NEW a \in Address
  PROVE  BodyLen(a) \in Nat
<1>1. acct[a] \in AccountRecord
  BY DEF UploadInv, AccountsOK, Sound
<1>2. acct[a].body \in Seq(Byte)
  BY <1>1 DEF AccountRecord
<1> QED
  BY <1>2 DEF BodyLen

LEMMA CreateStarts ==
  ASSUME UploadInv, open = None, NEW c \in Client, job[c].status = "waiting",
         job[c].input.op \in {"create", "write"}, StartCreate(c)
  PROVE  UploadInv'
<1> DEFINE j == job[c].input
           a == MetadataPda(j)
<1>1. Ready(j) /\ AtPlace(j) /\ j.op \notin {"create-buffer", "close-buffer"}
  BY JobReady DEF UploadInv, AtPlace
<1>2. CASE FromExisting(j) /\ ~Decodable(j.buffer) /\ Reject(c, a)
  BY <1>2, RejectKeeps
<1>3. CASE /\ FromExisting(j) /\ Decodable(j.buffer)
           /\ Start(c, a, CreateUsingExistingBuffer(j, BodyLen(j.buffer)), FALSE)
  <2>1. j.buffer \in Given(j)
    BY <1>3 DEF FromExisting, Given
  <2>2. BodyLen(j.buffer) = Len(j.data)
    BY <1>3, <2>1, GivenLength
  <2>3. LET P == CreateUsingExistingBuffer(j, BodyLen(j.buffer))
        IN  Prepared(j, P) /\ Looked(j, a, P)
    BY <1>1, <2>1, <2>2, ExistingBufferCreates DEF Looked
  <2> QED
    BY <1>1, <1>3, <2>3, StartKeeps
<1>4. CASE Inline(j) /\ Start(c, a, CreateUsingInstructionData(j), TRUE)
  <2>1. LET P == CreateUsingInstructionData(j) IN Prepared(j, P) /\ Looked(j, a, P)
    BY <1>1, InstructionDataCreates DEF Looked
  <2> QED
    BY <1>1, <1>4, <2>1, StartKeeps
<1>5. CASE Start(c, a, CreateUsingNewBuffer(j), FALSE)
  <2>1. LET P == CreateUsingNewBuffer(j) IN Prepared(j, P) /\ Looked(j, a, P)
    BY <1>1, NewBufferCreates DEF Looked
  <2> QED
    BY <1>1, <1>5, <2>1, StartKeeps
<1> QED
  BY <1>2, <1>3, <1>4, <1>5 DEF StartCreate

LEMMA UpdateStarts ==
  ASSUME UploadInv, open = None, NEW c \in Client, job[c].status = "waiting",
         job[c].input.op \in {"update", "write"}, StartUpdate(c)
  PROVE  UploadInv'
<1> DEFINE j == job[c].input
           a == MetadataPda(j)
<1>1. /\ Ready(j) /\ JobOK(j) /\ AtPlace(j) /\ j.op \notin {"create-buffer", "close-buffer"}
      /\ Len(j.data) \in Nat
  BY JobReady, JobData DEF UploadInv, AtPlace, Ready
<1>2. BodyLen(a) \in Nat
  BY <1>1, JobAddresses, BodyLengths
<1>3. CASE Reject(c, a)
  BY <1>3, RejectKeeps
<1>8. Decodable(a) => \A P : Looked(j, a, P)
  BY DEF Looked
<1>4. CASE /\ FromExisting(j) /\ Decodable(a) /\ Decodable(j.buffer)
           /\ Start(c, a, UpdateUsingExistingBuffer(j, BodyLen(j.buffer) - BodyLen(a)), FALSE)
  <2>1. j.buffer \in Given(j)
    BY <1>4 DEF FromExisting, Given
  <2>2. BodyLen(j.buffer) = Len(j.data)
    BY <1>4, <2>1, GivenLength
  <2> DEFINE extra == BodyLen(j.buffer) - BodyLen(a)
  <2>3. Extra(j, extra)
    BY <1>1, <1>2, <2>2 DEF Extra
  <2> HIDE DEF extra
  <2>4. Prepared(j, UpdateUsingExistingBuffer(j, extra))
    BY <1>1, <2>1, <2>3, ExistingBufferUpdates
  <2> QED
    BY <1>1, <1>4, <1>8, <2>4, StartKeeps DEF extra
<1> DEFINE extra == Len(j.data) - BodyLen(a)
<1>5. Extra(j, extra)
  BY <1>1, <1>2 DEF Extra
<1>6. CASE Decodable(a) /\ Start(c, a, UpdateUsingInstructionData(j, extra), TRUE)
  <2> HIDE DEF extra
  <2>1. Prepared(j, UpdateUsingInstructionData(j, extra))
    BY <1>1, <1>5, InstructionDataUpdates
  <2> QED
    BY <1>1, <1>6, <1>8, <2>1, StartKeeps
<1>7. CASE /\ ~FromExisting(j) /\ ~Inline(j) /\ Decodable(a)
           /\ Start(c, a, UpdateUsingNewBuffer(j, extra), FALSE)
  <2>1. Given(j) = {} /\ Len(j.data) > InlineLimit
    BY <1>1, <1>7, PlanAssumption DEF FromExisting, Inline, Given
  <2>2. Fresh(j) # {}
    BY <1>1, <2>1 DEF JobOK
  <2> HIDE DEF extra
  <2>3. Prepared(j, UpdateUsingNewBuffer(j, extra))
    BY <1>1, <1>5, <2>2, NewBufferUpdates
  <2> QED
    BY <1>1, <1>7, <1>8, <2>3, StartKeeps
<1> QED
  BY <1>3, <1>4, <1>6, <1>7 DEF StartUpdate

LEMMA CreateBufferStarts ==
  ASSUME UploadInv, open = None, NEW c \in Client, job[c].status = "waiting",
         job[c].input.op = "create-buffer", StartCreateBuffer(c)
  PROVE  UploadInv'
<1> DEFINE j == job[c].input
           b == j.newBuffer
<1>1. Ready(j) /\ \A x, P : Looked(j, x, P)
  BY JobReady DEF UploadInv, Looked
<1>2. CASE b = None /\ Start(c, MetadataPda(j), CreatePdaBuffer(j), FALSE)
  BY <1>1, <1>2, PdaBufferCreates, StartKeeps
<1>3. CASE b # None /\ Start(c, b, CreateBuffer(j, b, None, Len(j.data)), FALSE)
  BY <1>1, <1>3, KeypairBufferCreates, StartKeeps
<1>4. CASE /\ b # None /\ FromExisting(j) /\ Decodable(j.buffer)
           /\ Start(c, b, CreateBuffer(j, b, j.buffer, BodyLen(j.buffer)), FALSE)
  <2>1. j.buffer \in Given(j)
    BY <1>4 DEF FromExisting, Given
  <2>2. BodyLen(j.buffer) = Len(j.data)
    BY <1>4, <2>1, GivenLength
  <2>3. Prepared(j, CreateBuffer(j, b, j.buffer, BodyLen(j.buffer)))
    BY <1>1, <1>4, <2>1, <2>2, KeypairBufferCreates
  <2> QED
    BY <1>1, <1>4, <2>3, StartKeeps
<1>5. CASE Reject(c, b)
  BY <1>5, RejectKeeps
<1> QED
  BY <1>2, <1>3, <1>4, <1>5 DEF StartCreateBuffer

LEMMA CloseBufferStarts ==
  ASSUME UploadInv, open = None, NEW c \in Client, job[c].status = "waiting",
         job[c].input.op = "close-buffer", StartCloseBuffer(c)
  PROVE  UploadInv'
<1> DEFINE j == job[c].input
           b == j.target
<1>1. /\ Ready(j) /\ b \in Address /\ acct[b] \in AccountRecord
      /\ \A x, P : Looked(j, x, P)
  BY JobReady DEF UploadInv, Ready, JobOK, AccountsOK, Sound, Looked
<1>2. \A d \in Client : job[d].status # "running"
  BY DEF StartCloseBuffer, Running
<1>3. CASE Decodable(b) /\ Start(c, b, ClosePlan(b), TRUE)
  <2>1. ~IsVacant(acct[b])
    BY <1>1, <1>3, VacantEmpty, LengthAssumption DEF Decodable
  <2>2. Prepared(j, ClosePlan(b))
    BY <1>1, BufferCloses
  <2> QED
    BY <1>1, <1>2, <1>3, <2>1, <2>2, StartKeeps
<1>4. CASE Reject(c, b)
  BY <1>4, RejectKeeps
<1> QED
  BY <1>3, <1>4 DEF StartCloseBuffer

LEMMA BeginKeeps ==
  ASSUME UploadInv, NEW c \in Client, Begin(c)
  PROVE  UploadInv'
<1>1. open = None /\ job[c].status = "waiting" /\ job[c].input.op # "update-buffer"
  BY DEF Begin, UploadInv, JobsOK, JobOK
<1>2. CASE job[c].input.op = "create" /\ StartCreate(c)
  BY <1>1, <1>2, CreateStarts
<1>3. CASE job[c].input.op = "update" /\ StartUpdate(c)
  BY <1>1, <1>3, UpdateStarts
<1>4. CASE job[c].input.op = "write" /\ StartWrite(c)
  BY <1>1, <1>4, CreateStarts, UpdateStarts DEF StartWrite
<1>5. CASE job[c].input.op = "create-buffer" /\ StartCreateBuffer(c)
  BY <1>1, <1>5, CreateBufferStarts
<1>6. CASE job[c].input.op = "close-buffer" /\ StartCloseBuffer(c)
  BY <1>1, <1>6, CloseBufferStarts, SMTT(60)
<1> QED
  BY <1>1, <1>2, <1>3, <1>4, <1>5, <1>6 DEF Begin

-----------------------------------------------------------------------------
(* A client goes on, is refused or is killed.                              *)

LEMMA RunKeepsPrograms ==
  ASSUME NEW j, NEW i, Run(j, i)
  PROVE  prog' = prog
BY DEF Run, Transfer, CreateAccount, AllocateKeypair, AllocatePda, SetBufferAuthority, Extend,
       WriteData, WriteFromBuffer, WriteBytes, Initialize, SetData, SetDataFromBuffer, SetBytes,
       Trim, Close, Put, PayOut, Commit

\* The jobs when a transaction fails, whatever its client has done in it.
LEMMA WithoutStops ==
  ASSUME NEW J, NEW K, NEW c \in Client, DOMAIN K = Client,
         \A d \in Client : DOMAIN K[d] = ClientJob, SameJobs(J, K, c)
  PROVE  /\ Stops(J, c, Without(K, c))
         /\ DOMAIN Without(K, c) = Client
         /\ \A d \in Client : DOMAIN Without(K, c)[d] = ClientJob
<1> DEFINE J2 == Without(K, c)
<1>1. DOMAIN J2 = Client /\ \A d \in Client \ {c} : J2[d] = K[d]
  BY DEF Without
<1>2. /\ J2[c].status = "refused" /\ J2[c].plan = <<>> /\ J2[c].input = K[c].input
      /\ DOMAIN J2[c] = ClientJob /\ J2[c].found = K[c].found /\ J2[c].alone = K[c].alone
  BY DEF Without, ClientJob
<1> HIDE DEF J2
<1>3. Stops(J, c, J2)
  BY <1>1, <1>2 DEF Stops, SameJobs
<1>4. \A d \in Client : DOMAIN J2[d] = ClientJob
  BY <1>1, <1>2
<1> QED
  BY <1>1, <1>3, <1>4 DEF J2

\* What a client does when it goes on: one instruction of its plan, which may leave its
\* transaction open.
Goes(c, i) ==
  /\ Stepped(job, acct, c, i, job', acct')
  /\ DOMAIN job' = Client /\ \A d \in Client : DOMAIN job'[d] = ClientJob
  /\ prog' = prog /\ signer' \in Signer \cup {None}
  /\ open # None => open.client = c
  /\ open' # None =>
       /\ job'[c].plan # <<>>
       /\ open' = IF open # None THEN open
                  ELSE [client |-> c, acct |-> acct, plan |-> job[c].plan]

LEMMA StepGoes ==
  ASSUME UploadInv, NEW c \in Client, Step(c)
  PROVE  \E i : Goes(c, i) /\ Run(job[c].input, i)
<1> DEFINE j == job[c].input
           P == job[c].plan
<1>1. /\ JobsOK(job) /\ Exclusive(job) /\ AccountsOK(job, acct)
      /\ prog \in [Program -> ProgramRecord] /\ signer \in Signer \cup {None}
      /\ DOMAIN job = Client /\ \A d \in Client : DOMAIN job[d] = ClientJob
      /\ JobOK(j) /\ Informed(j) /\ PlanOK(j, P)
  BY DEF UploadInv, JobsOK
<1>2. job[c].status = "running" /\ (open # None => open.client = c) /\ P # <<>>
  BY <1>1, SMTT(60) DEF Step, Turn, Running, JobsOK
<1>3. PICK i \in Head(P) :
        LET Q == After(P, i)
        IN  /\ Run(j, i)
            /\ job' = [job EXCEPT ![c].plan = Q, ![c].status = IF Q = <<>> THEN "done" ELSE @]
            /\ \/ open' = None
               \/ /\ Q # <<>>
                  /\ open' = IF open # None THEN open ELSE [client |-> c, acct |-> acct, plan |-> P]
  BY DEF Step, After
<1> DEFINE Q == After(P, i)
           J2 == job'
<1>4. /\ DOMAIN J2 = Client /\ \A d \in Client \ {c} : J2[d] = job[d]
      /\ DOMAIN J2[c] = ClientJob /\ J2[c].input = j /\ J2[c].plan = Q
      /\ J2[c].status = IF Q = <<>> THEN "done" ELSE "running"
      /\ J2[c].found = job[c].found /\ J2[c].alone = job[c].alone
  BY <1>1, <1>2, <1>3 DEF ClientJob
<1>5. SameJobs(job, J2, c) /\ \A d \in Client : DOMAIN J2[d] = ClientJob
  BY <1>1, <1>4 DEF SameJobs
<1>6. /\ PlanOK(j, Q) /\ Leaves(P, i, Q) /\ i \in Instructions(j) /\ 1 \in DOMAIN P /\ i \in P[1]
  BY <1>1, <1>2, AfterPlanOK
<1>7. Fitting(j, i)
  BY <1>6, InstructionsFit
<1>8. IInv' /\ Changes(j, i, acct, acct') /\ prog' = prog
  <2>1. IInv
    BY <1>1 DEF IInv, TypeOK, AccountsOK, Sound
  <2>2. Run(j, i)
    BY <1>3
  <2> QED
    BY <1>1, <1>7, <2>1, <2>2, RunChanges, RunKeepsPrograms
<1>9. Sound(acct') /\ signer' \in Signer \cup {None}
  BY <1>8 DEF IInv, TypeOK, Sound
<1>10. open' # None =>
         /\ Q # <<>>
         /\ open' = IF open # None THEN open ELSE [client |-> c, acct |-> acct, plan |-> P]
  BY <1>3
<1> HIDE DEF Q
<1>11. Stepped(job, acct, c, i, J2, acct')
  BY <1>1, <1>2, <1>4, <1>5, <1>6, <1>7, <1>8, <1>9 DEF Stepped
<1>12. Goes(c, i)
  BY <1>2, <1>4, <1>5, <1>8, <1>9, <1>10, <1>11 DEF Goes
<1> QED
  BY <1>3, <1>12

LEMMA StepKeepsUploads ==
  ASSUME UploadInv, NEW c \in Client, Step(c)
  PROVE  UploadInv'
<1> DEFINE J2 == job'
<1>1. /\ AccountsOK(job, acct) /\ OpenOK /\ prog \in [Program -> ProgramRecord]
      /\ DOMAIN job = Client /\ \A d \in Client : DOMAIN job[d] = ClientJob
  BY DEF UploadInv, JobsOK
<1>2. PICK i : Goes(c, i)
  BY StepGoes
<1>3. /\ DOMAIN J2 = Client /\ \A d \in Client : DOMAIN J2[d] = ClientJob
      /\ prog' = prog /\ signer' \in Signer \cup {None}
      /\ open # None => open.client = c
      /\ open' # None =>
           open' = IF open # None THEN open ELSE [client |-> c, acct |-> acct, plan |-> job[c].plan]
      /\ Stepped(job, acct, c, i, J2, acct')
  BY <1>2 DEF Goes
<1>4. SameJobs(job, J2, c) /\ JobsOK(job)
  BY <1>3 DEF Stepped
<1>5. JobsOK(J2) /\ Exclusive(J2) /\ AccountsOK(J2, acct')
  BY <1>3, <1>4, SteppedKeeps
<1>6. OpenOK'
  <2> SUFFICES ASSUME open' # None
               PROVE  open'.client \in Client /\ AccountsOK(Without(J2, open'.client), open'.acct)
    BY DEF OpenOK
  <2>1. CASE open = None
    <3>1. open'.client = c /\ open'.acct = acct
      BY <1>3, <2>1
    <3>2. Stops(job, c, Without(J2, c))
      BY <1>3, <1>4, WithoutStops
    <3>3. AccountsOK(Without(J2, c), acct)
      BY <1>1, <3>2, StoppedAccounts
    <3> QED
      BY <3>1, <3>3
  <2>2. CASE open # None
    <3>1. open' = open /\ open.client = c
      BY <1>3, <2>2
    <3>2. AccountsOK(Without(job, c), open.acct)
      BY <1>1, <2>2, <3>1 DEF OpenOK
    <3>3. SameJobs(Without(job, c), J2, c)
      <4>1. \A d \in Client \ {c} : Without(job, c)[d] = job[d]
        BY <1>1 DEF Without
      <4>2. /\ Without(job, c)[c].input = job[c].input
            /\ Without(job, c)[c].found = job[c].found
            /\ Without(job, c)[c].alone = job[c].alone
        BY <1>1 DEF Without, ClientJob
      <4>3. job[c].status = "running" /\ J2[c].status \in {"running", "done"}
        BY <1>3 DEF Stepped
      <4> QED
        BY <1>4, <4>1, <4>2, <4>3 DEF SameJobs
    <3>4. Stops(Without(job, c), c, Without(J2, c))
      BY <1>3, <3>3, WithoutStops
    <3>5. AccountsOK(Without(J2, c), open.acct)
      BY <3>2, <3>4, StoppedAccounts
    <3> QED
      BY <3>1, <3>5
  <2> QED
    BY <2>1, <2>2
<1>7. JobsOK(job)'
  BY <1>3, <1>5, SamePrograms
<1>8. Exclusive(job)' /\ AccountsOK(job, acct)'
  BY <1>5
<1> QED
  BY <1>1, <1>3, <1>6, <1>7, <1>8 DEF UploadInv

\* A client that stops takes nothing from the others.
LEMMA StopKeepsUploads ==
  ASSUME UploadInv, NEW c \in Client, Stops(job, c, job'), DOMAIN job' = Client,
         \A d \in Client : DOMAIN job'[d] = ClientJob, AccountsOK(job', acct'),
         open' = None, UNCHANGED <<prog, signer>>
  PROVE  UploadInv'
<1> DEFINE J2 == job'
<1>1. JobsOK(J2) /\ Exclusive(J2)
  BY StoppedJobs DEF UploadInv
<1>2. JobsOK(job)'
  BY <1>1, SamePrograms
<1>3. Exclusive(job)'
  BY <1>1
<1>4. AccountsOK(job, acct)' /\ OpenOK'
  BY DEF OpenOK
<1>5. prog' \in [Program -> ProgramRecord] /\ signer' \in Signer \cup {None}
  BY DEF UploadInv
<1> QED
  BY <1>2, <1>3, <1>4, <1>5 DEF UploadInv

LEMMA RefuseKeepsUploads ==
  ASSUME UploadInv, NEW c \in Client, Refuse(c)
  PROVE  UploadInv'
<1>1. /\ DOMAIN job = Client /\ \A d \in Client : DOMAIN job[d] = ClientJob
      /\ AccountsOK(job, acct) /\ OpenOK
  BY DEF UploadInv, JobsOK
<1>2. /\ open # None => open.client = c
      /\ acct' = IF open = None THEN acct ELSE open.acct
      /\ open' = None /\ UNCHANGED <<prog, signer>>
      /\ job' = Without(job, c)
  BY DEF Refuse, Turn, Without
<1>3. /\ Stops(job, c, job') /\ DOMAIN job' = Client
      /\ \A d \in Client : DOMAIN job'[d] = ClientJob
  <2>1. SameJobs(job, job, c)
    BY DEF SameJobs
  <2> QED
    BY <1>1, <1>2, <2>1, WithoutStops
<1>4. AccountsOK(job', acct')
  <2>1. CASE open = None
    BY <1>1, <1>2, <1>3, <2>1, StoppedAccounts
  <2>2. CASE open # None
    BY <1>1, <1>2, <2>2 DEF OpenOK
  <2> QED
    BY <2>1, <2>2
<1> QED
  BY <1>2, <1>3, <1>4, StopKeepsUploads

LEMMA CrashKeepsUploads ==
  ASSUME UploadInv, NEW c \in Client, Crash(c)
  PROVE  UploadInv'
<1>1. /\ DOMAIN job = Client /\ \A d \in Client : DOMAIN job[d] = ClientJob
      /\ AccountsOK(job, acct)
  BY DEF UploadInv, JobsOK
<1>2. /\ open = None /\ UNCHANGED <<acct, prog, signer, open>>
      /\ job' = [job EXCEPT ![c].status = "crashed", ![c].plan = <<>>]
  BY DEF Crash, vars
<1>3. DOMAIN job' = Client /\ \A d \in Client \ {c} : job'[d] = job[d]
  BY <1>1, <1>2
<1>4. /\ job'[c].status = "crashed" /\ job'[c].plan = <<>> /\ job'[c].input = job[c].input
      /\ DOMAIN job'[c] = ClientJob
      /\ job'[c].found = job[c].found /\ job'[c].alone = job[c].alone
  BY <1>1, <1>2 DEF ClientJob
<1>5. Stops(job, c, job') /\ \A d \in Client : DOMAIN job'[d] = ClientJob
  BY <1>1, <1>3, <1>4 DEF Stops, SameJobs
<1>6. AccountsOK(job', acct')
  BY <1>1, <1>2, <1>5, StoppedAccounts
<1> QED
  BY <1>2, <1>3, <1>5, <1>6, StopKeepsUploads

-----------------------------------------------------------------------------
(* The theorems.                                                           *)

LEMMA UploadInit ==
  ASSUME UploadScene, PlanInit
  PROVE  UploadInv
<1>1. /\ prog \in [Program -> ProgramRecord] /\ signer \in Signer \cup {None}
      /\ open = None
  BY InputAssumption DEF PlanInit
<1>2. PICK s \in Scenario : job = [c \in Client |-> Waiting(s.inputs[c])]
  BY DEF PlanInit
<1>3. /\ DOMAIN job = Client
      /\ \A c \in Client : /\ DOMAIN job[c] = ClientJob
                           /\ job[c].status = "waiting" /\ job[c].plan = <<>>
  BY <1>2 DEF Waiting, ClientJob
<1>6. \A c \in Client : ExtendsFound(job[c].input, job[c].plan, job[c].found)
  BY <1>3, EmptyPlan DEF ExtendsFound, Has
<1>4. JobsOK(job) /\ Exclusive(job)
  BY <1>3, <1>6, EmptyPlan DEF JobsOK, Exclusive, UploadScene, AloneOK
<1>5. AccountsOK(job, acct)
  BY <1>3 DEF AccountsOK, LeftHolds, UploadScene
<1> QED
  BY <1>1, <1>4, <1>5 DEF UploadInv, OpenOK

LEMMA UploadNext ==
  ASSUME UploadInv, [PlanNext]_planVars
  PROVE  UploadInv'
<1>1. CASE UNCHANGED planVars
  <2>1. UNCHANGED <<acct, prog, signer, job, open>>
    BY <1>1 DEF planVars, vars
  <2>2. JobsOK(job') /\ Exclusive(job') /\ AccountsOK(job', acct')
    BY <2>1 DEF UploadInv
  <2>3. JobsOK(job)' /\ Exclusive(job)' /\ AccountsOK(job, acct)'
    BY <2>1, <2>2, SamePrograms
  <2>4. OpenOK'
    BY <2>1 DEF UploadInv, OpenOK
  <2> QED
    BY <2>1, <2>3, <2>4 DEF UploadInv
<1>2. ASSUME NEW c \in Client, Begin(c) PROVE UploadInv'
  BY <1>2, BeginKeeps
<1>3. ASSUME NEW c \in Client, Step(c) PROVE UploadInv'
  BY <1>3, StepKeepsUploads
<1>4. ASSUME NEW c \in Client, Refuse(c) PROVE UploadInv'
  BY <1>4, RefuseKeepsUploads
<1>5. ASSUME NEW c \in Client, Crash(c) PROVE UploadInv'
  BY <1>5, CrashKeepsUploads
<1> QED
  BY <1>1, <1>2, <1>3, <1>4, <1>5 DEF PlanNext

\* From any scene of uploads the invariant holds, whatever the number of clients, the
\* jobs they have (long uploads that race to an account that is not there included), the
\* lengths of their data and of a chunk, and wherever they are refused or killed.
THEOREM UploadsKeepInvariant == UploadScene /\ PlanSpec => []UploadInv
<1>1. UploadScene /\ PlanInit => UploadInv
  BY UploadInit
<1>2. UploadInv /\ [PlanNext]_planVars => UploadInv'
  BY UploadNext
<1> QED
  BY <1>1, <1>2, PTL DEF PlanSpec

\* Clients that create, update and write the same metadata, with data of any length, in
\* transactions that interleave anywhere, fail or are never sent, leave the data of one
\* of them there, whole and under its codec, and nothing but zeros behind; the header
\* counts such zeros only if a client was misled into extending the buffer of another
\* (createMetadata.ts:113, updateMetadata.ts:117, updateMetadata.ts:149).
THEOREM MetadataIsNeverTorn == UploadScene /\ PlanSpec => []NeverTorn
<1>1. UploadInv => NeverTorn
  <2> SUFFICES ASSUME UploadInv, NEW a \in Pda, acct[a].discriminator = "Metadata"
               PROVE  \E u \in Former \cup {Intent(c) : c \in {c \in Client : Publishing(c)}} :
                        /\ Holds(acct[a], u)
                        /\ acct[a].dataLength = Len(u.data) \/ Misled(job, a)
    BY DEF NeverTorn
  <2>1. a \in Address /\ Whole(job, a, acct[a]) /\ IsMetadata(acct[a])
    BY DEF UploadInv, AccountsOK, Address, IsMetadata
  <2>2. Wanted(job) = Former \cup {Intent(c) : c \in {c \in Client : Publishing(c)}}
    BY DEF Wanted, Intent, Publishing
  <2> QED
    BY <2>1, <2>2 DEF Whole
<1> QED
  BY <1>1, UploadsKeepInvariant, PTL

\* No client shares the address at which it leaves a buffer with another.
BuffersOwned == \A c \in Client : job[c].input.op = "create-buffer" => OwnBuffer(job, c)

\* What a client is asked for does not change.
LEMMA InputsStay ==
  ASSUME UploadInv, [PlanNext]_planVars
  PROVE  \A c \in Client : job'[c].input = job[c].input
<1>1. DOMAIN job = Client /\ \A c \in Client : DOMAIN job[c] = ClientJob
  BY DEF UploadInv, JobsOK
<1>2. CASE UNCHANGED planVars
  BY <1>2 DEF planVars
<1>3. ASSUME NEW c \in Client, Begin(c) PROVE SameJobs(job, job', c)
  <2>3. job[c].status = "waiting"
    BY <1>3 DEF Begin
  <2>1. ASSUME NEW a, NEW plan, NEW whole, Start(c, a, plan, whole) PROVE SameJobs(job, job', c)
    BY <1>1, <2>1, <2>3, StartedJobs DEF Start
  <2>2. ASSUME NEW a, Reject(c, a) PROVE SameJobs(job, job', c)
    <3> DEFINE none == <<>>
               no == FALSE
    <3>1. job' = StartedWith(c, a, "rejected", none, no)
      BY <2>2 DEF Reject
    <3> HIDE DEF none, no
    <3> QED
      BY <1>1, <2>3, <3>1, StartedJobs
  <2> QED
    BY <1>3, <2>1, <2>2 DEF Begin, StartCreate, StartUpdate, StartWrite, StartCreateBuffer,
                            StartUpdateBuffer, StartCloseBuffer
<1>4. ASSUME NEW c \in Client, Step(c) \/ Refuse(c) \/ Crash(c)
      PROVE  \A d \in Client : job'[d].input = job[d].input
  <2>1. ASSUME NEW d \in Client \ {c} PROVE job'[d] = job[d]
    BY <1>1, <1>4 DEF Step, Refuse, Crash
  <2>2. job'[c].input = job[c].input
    BY <1>1, <1>4, ZenonT(90) DEF Step, Refuse, Crash, ClientJob
  <2> QED
    BY <2>1, <2>2, SMTT(60)
<1> QED
  BY <1>2, <1>3, <1>4 DEF PlanNext, SameJobs

LEMMA BuffersStayOwned ==
  ASSUME UploadInv, UploadInv', BuffersOwned, [PlanNext]_planVars
  PROVE  BuffersOwned'
<1>1. \A c \in Client : job'[c].input = job[c].input
  BY InputsStay
<1> QED
  BY <1>1 DEF BuffersOwned, OwnBuffer, Place, AtPlace, Fresh, MetadataPda

\* A buffer that a client fills, from its data or from another buffer, in writes that
\* land in any order, holds that data once the client is done, as long as it is there
\* (createBuffer.ts:38, createBuffer.ts:161).
THEOREM BuffersHoldUploads == UploadScene /\ BuffersOwned /\ PlanSpec => []BufferHoldsUpload
<1>1. UploadInv /\ BuffersOwned => BufferHoldsUpload
  <2> SUFFICES ASSUME UploadInv, BuffersOwned, NEW c \in Client,
                      job[c].input.op = "create-buffer", job[c].status = "done"
               PROVE  LET j == job[c].input
                          b == IF j.newBuffer = None THEN MetadataPda(j) ELSE j.newBuffer
                      IN  ValidBuffer(acct[b]) => acct[b].body = j.data
    BY DEF BufferHoldsUpload
  <2> DEFINE j == job[c].input
             b == IF j.newBuffer = None THEN MetadataPda(j) ELSE j.newBuffer
  <2>1. LeftHolds(job, c, acct) /\ OwnBuffer(job, c)
    BY DEF UploadInv, AccountsOK, BuffersOwned
  <2>2. b \in Place(j) \cup Fresh(j)
    BY DEF Place, AtPlace, Fresh
  <2> HIDE DEF b
  <2>3. ValidBuffer(acct[b]) => acct[b].body = j.data
    BY <2>1, <2>2 DEF LeftHolds
  <2> QED
    BY <2>3 DEF b
<1>2. UploadInv /\ UploadInv' /\ BuffersOwned /\ [PlanNext]_planVars => BuffersOwned'
  BY BuffersStayOwned
<1>3. UploadScene /\ PlanSpec => []UploadInv
  BY UploadsKeepInvariant
<1> QED
  BY <1>1, <1>2, <1>3, PTL DEF PlanSpec
===============================================================================
