---------------------------- MODULE SequenceProofs ----------------------------
(***************************************************************************)
(* Proofs about the numbering of documents: however many requests run, and *)
(* whatever fails, documents are committed in the order of their numbers.  *)
(* The argument: a request that has taken a number holds the lock on the   *)
(* table until it ends, so that the numbers it took follow the committed   *)
(* one, and no other request can move it meanwhile.                        *)
(***************************************************************************)
EXTENDS Sequence, SequenceTheorems, TLAPS

\* The committed documents have the numbers up to the committed next one.
Counted ==
    /\ next = Start + Len(docs) * Inc
    /\ \A i \in DOMAIN docs : docs[i] = Start + (i - 1) * Inc

\* What each request relies on.
Sound(t) ==
    /\ tx[t].pc \in {"locked", "selected"} => table = t
    /\ tx[t].got # <<>> => table = t /\ ~ tx[t].stale /\ tx[t].view # "none"
    /\ tx[t].view = "locked" => table = t
    /\ tx[t].pc = "selected" => tx[t].view # "none"
    /\ tx[t].stale => tx[t].view = "early"
    /\ tx[t].view # "none" /\ ~ tx[t].stale => tx[t].seen = next + Len(tx[t].got) * Inc
    /\ \A i \in DOMAIN tx[t].got : tx[t].got[i] = next + (i - 1) * Inc
    /\ Len(tx[t].got) <= MaxGot
    /\ tx[t].pc \in {"table", "locked", "selected"} => Len(tx[t].got) < MaxGot

SeqInv == TypeOK /\ Counted /\ \A t \in Request : Sound(t)

-----------------------------------------------------------------------------
\* A number k steps on is an integer.
LEMMA Products ==
    /\ \A k \in Int : k * Inc \in Int
    /\ \A k \in Int : (k + 1) * Inc = k * Inc + Inc
    /\ \A k, n \in Int : (k + n) * Inc = k * Inc + n * Inc
    /\ 0 * Inc = 0
BY SequenceAssumption

\* The numbers the sequence goes through are integers, and the number k steps
\* on is one of them as long as k is in bounds.
LEMMA IssuedInt ==
    ASSUME TypeOK
    PROVE  /\ Issued \subseteq Int
           /\ \A k \in 0 .. Len(docs) + MaxGot : Start + k * Inc \in Issued
BY SequenceAssumption DEF Issued

\* An idle request is well typed and sound.
LEMMA IdleOK ==
    ASSUME TypeOK, NEW pc \in {"idle", "open", "failed"}
    PROVE  [Idle EXCEPT !.pc = pc] \in Tx
<1>1. Start \in Issued
  <2>1. 0 \in 0 .. Len(docs) + MaxGot
    BY SequenceAssumption DEF TypeOK
  <2>2. Start + 0 * Inc = Start
    BY SequenceAssumption, Products
  <2> QED BY <2>1, <2>2, IssuedInt
<1>2. <<>> \in Seq(Issued)
  OBVIOUS
<1> QED BY <1>1, <1>2 DEF Idle, Tx

\* A step of one request leaves the others sound, unless it commits.
LEMMA OthersSound ==
    ASSUME SeqInv, NEW t \in Request, NEW u \in Request, u # t,
           tx'[u] = tx[u], next' = next, table = u => table' = u
    PROVE  Sound(u)'
<1>1. Sound(u)
  BY DEF SeqInv
<1> QED BY <1>1 DEF Sound

\* A step that commits nothing and changes one request is sound if the
\* request is afterwards, and it takes the lock from nobody.
LEMMA OneStep ==
    ASSUME SeqInv, NEW t \in Request, NEW m \in Tx,
           Set(t, m), UNCHANGED <<next, docs>>,
           table' \in Request \cup {None}, record' \in Request \cup {None},
           table \notin {t, None} => table' = table,
           Sound(t)'
    PROVE  SeqInv'
<1>1. TypeOK'
  <2>1. Issued' = Issued /\ Tx' = Tx
    BY DEF Issued, Tx
  <2> QED BY <2>1 DEF SeqInv, TypeOK, Set
<1>2. Counted'
  BY DEF SeqInv, Counted
<1>3. ASSUME NEW u \in Request PROVE Sound(u)'
  <2>1. CASE u = t
    BY <2>1
  <2>2. CASE u # t
    <3>1. tx'[u] = tx[u]
      BY <2>2 DEF SeqInv, TypeOK, Set
    <3>2. table = u => table' = u
      BY <2>2, SequenceAssumption
    <3> QED BY <2>2, <3>1, <3>2, OthersSound
  <2> QED BY <2>1, <2>2
<1> QED BY <1>1, <1>2, <1>3 DEF SeqInv

\* A request that is left idle, newly open or failed has nothing to keep.
LEMMA IdleStep ==
    ASSUME SeqInv, NEW t \in Request, NEW pc \in {"idle", "open", "failed"},
           Set(t, [Idle EXCEPT !.pc = pc]), UNCHANGED <<next, docs>>,
           table' \in {table, Free(t, table)}, record' \in {record, Free(t, record)}
    PROVE  SeqInv'
<1> DEFINE m == [Idle EXCEPT !.pc = pc]
<1>1. m \in Tx
  BY IdleOK DEF SeqInv
<1>2. tx'[t] = m
  BY DEF Set, SeqInv, TypeOK
<1>3. Sound(t)'
  <2>1. /\ tx'[t].pc = pc /\ tx'[t].view = "none" /\ tx'[t].got = <<>>
        /\ tx'[t].stale = FALSE
    BY <1>2 DEF Idle
  <2>2. Len(<<>>) = 0 /\ DOMAIN <<>> = {}
    OBVIOUS
  <2> QED BY <2>1, <2>2, SequenceAssumption DEF Sound
<1>4. /\ table' \in Request \cup {None} /\ record' \in Request \cup {None}
      /\ table \notin {t, None} => table' = table
  BY DEF Free, SeqInv, TypeOK
<1> HIDE DEF m
<1> QED BY <1>1, <1>3, <1>4, OneStep DEF m

\* The snapshot of a request shows the committed number.
LEMMA ViewOK ==
    ASSUME SeqInv, NEW t \in Request, NEW how \in {"early", "locked"},
           how = "locked" => table = t
    PROVE  LET m == Viewing(tx[t], how)
           IN  /\ m \in Tx
               /\ m.pc = tx[t].pc /\ m.got = tx[t].got /\ m.stale = tx[t].stale
               /\ m.other = tx[t].other
               /\ m.view # "none"
               /\ m.view = "locked" => table = t
               /\ m.stale => m.view = "early"
               /\ ~ m.stale => m.seen = next + Len(m.got) * Inc
<1>1. tx[t] \in Tx /\ next \in Issued /\ Sound(t) /\ next \in Int
  BY IssuedInt DEF SeqInv, TypeOK
<1>2. CASE tx[t].view = "none"
  <2>1. tx[t].got = <<>> /\ tx[t].stale = FALSE
    BY <1>1, <1>2 DEF Sound, Tx
  <2>2. Len(<<>>) * Inc = 0
    BY Products
  <2>3. Viewing(tx[t], how) = [tx[t] EXCEPT !.view = how, !.seen = next]
    BY <1>2 DEF Viewing
  <2> DEFINE m == [tx[t] EXCEPT !.view = how, !.seen = next]
  <2>4. m \in Tx
    BY <1>1 DEF Tx
  <2>5. /\ m.pc = tx[t].pc /\ m.got = <<>> /\ m.stale = FALSE /\ m.other = tx[t].other
        /\ m.view = how /\ m.seen = next
    BY <1>1, <2>1 DEF Tx
  <2>6. next = next + Len(<<>>) * Inc
    BY <1>1, <2>2
  <2> HIDE DEF m
  <2> QED BY <2>1, <2>3, <2>4, <2>5, <2>6 DEF m
<1>3. CASE tx[t].view # "none"
  <2>1. Viewing(tx[t], how) = tx[t]
    BY <1>3 DEF Viewing
  <2> QED BY <1>1, <1>3, <2>1 DEF Sound
<1> QED BY <1>2, <1>3

-----------------------------------------------------------------------------
\* A request that keeps what it has but for pc and the lock stays sound.
LEMMA MovesOn ==
    ASSUME SeqInv, NEW t \in Request, NEW m \in Tx,
           Set(t, m), UNCHANGED <<next, docs>>,
           table' \in Request \cup {None}, record' \in Request \cup {None},
           table' \in {table, t}, table \in {t, None} \/ table' = table,
           m.got = tx[t].got, m.stale = tx[t].stale,
           tx[t].got # <<>> => m.view # "none",
           m.view = "locked" => table' = t,
           m.stale => m.view = "early",
           m.view # "none" /\ ~ m.stale => m.seen = next + Len(m.got) * Inc,
           m.pc \in {"locked", "selected"} => table' = t,
           m.pc = "selected" => m.view # "none",
           m.pc \in {"table", "locked", "selected"} => Len(m.got) < MaxGot
    PROVE  SeqInv'
<1>1. Sound(t) /\ tx'[t] = m
  BY DEF SeqInv, TypeOK, Set
<1>2. table = t => table' = t
  OBVIOUS
<1>3. Sound(t)'
  BY <1>1, <1>2 DEF Sound
<1> QED BY <1>3, OneStep

\* Taking the number: the one seen is the next after those already taken.
LEMMA UpdateStep ==
    ASSUME SeqInv, NEW t \in Request, Update(t)
    PROVE  SeqInv'
<1> DEFINE old == tx[t]
           m == [old EXCEPT !.pc = "open", !.got = Append(@, old.seen), !.seen = @ + Inc]
<1>1. /\ old \in Tx /\ Sound(t) /\ next = Start + Len(docs) * Inc
      /\ old.pc = "selected" /\ ~ old.stale /\ table = t
      /\ next \in Int /\ Len(docs) \in Nat
  BY IssuedInt DEF SeqInv, TypeOK, Update, At, Sound, Counted
<1>2. /\ old.view # "none" /\ old.seen = next + Len(old.got) * Inc
      /\ Len(old.got) < MaxGot /\ old.got \in Seq(Issued) /\ old.seen \in Issued
      /\ old.seen \in Int
  BY <1>1, IssuedInt DEF SeqInv, Sound, Tx
<1>3. /\ Len(old.got) \in Nat
      /\ Append(old.got, old.seen) \in Seq(Issued)
      /\ Len(Append(old.got, old.seen)) = Len(old.got) + 1
      /\ \A i \in 1 .. Len(old.got) : Append(old.got, old.seen)[i] = old.got[i]
      /\ Append(old.got, old.seen)[Len(old.got) + 1] = old.seen
  BY <1>2, AppendProperties, LenProperties
<1>4. old.seen + Inc = next + (Len(old.got) + 1) * Inc
  <2> DEFINE n == Len(old.got)
  <2>1. n \in Int
    BY <1>3
  <2>2. old.seen = next + n * Inc /\ next \in Int
    BY <1>1, <1>2
  <2> HIDE DEF n
  <2>3. n * Inc \in Int /\ Inc \in Int
    BY <2>1, Products, SequenceAssumption
  <2>4. (n + 1) * Inc = n * Inc + Inc
    BY <2>1, Products
  <2>5. old.seen + Inc = next + (n + 1) * Inc
    BY <2>2, <2>3, <2>4
  <2> QED BY <2>5 DEF n
<1>5. old.seen + Inc \in Issued
  <2>1. Len(docs) + (Len(old.got) + 1) \in 0 .. Len(docs) + MaxGot
    BY <1>1, <1>2, <1>3, SequenceAssumption
  <2>2. old.seen + Inc = Start + (Len(docs) + (Len(old.got) + 1)) * Inc
    <3> DEFINE n == Len(old.got) + 1
               l == Len(docs)
    <3>1. n \in Int /\ l \in Int
      BY <1>1, <1>3
    <3>2. old.seen + Inc = next + n * Inc /\ next = Start + l * Inc
      BY <1>1, <1>4
    <3> HIDE DEF n, l
    <3>3. n * Inc \in Int /\ l * Inc \in Int /\ Start \in Int
      BY <3>1, Products, SequenceAssumption
    <3>4. (l + n) * Inc = l * Inc + n * Inc
      BY <3>1, Products
    <3>5. old.seen + Inc = Start + (l + n) * Inc
      BY <3>2, <3>3, <3>4
    <3> QED BY <3>5 DEF n, l
  <2> QED BY <2>1, <2>2, IssuedInt DEF SeqInv
<1>6. m \in Tx
  BY <1>1, <1>3, <1>5 DEF Tx
<1>7. /\ m.pc = "open" /\ m.view = old.view /\ m.stale = old.stale
      /\ m.got = Append(old.got, old.seen) /\ m.seen = old.seen + Inc
  BY <1>1 DEF Tx
<1>8. tx'[t] = m /\ Set(t, m) /\ UNCHANGED <<next, docs, table, record>>
  BY DEF Update, Set, SeqInv, TypeOK
<1> HIDE DEF m
<1>9. \A i \in DOMAIN m.got : m.got[i] = next + (i - 1) * Inc
  <2> TAKE i \in DOMAIN m.got
  <2>1. i \in 1 .. Len(old.got) + 1 /\ DOMAIN old.got = 1 .. Len(old.got)
    BY <1>2, <1>3, <1>7, LenProperties
  <2>2. CASE i \in 1 .. Len(old.got)
    BY <1>1, <1>3, <1>7, <2>1, <2>2 DEF Sound
  <2>3. CASE i = Len(old.got) + 1
    BY <1>2, <1>3, <1>7, <2>3
  <2> QED BY <2>1, <2>2, <2>3, <1>3
<1>10. Sound(t)'
  <2>1. /\ tx'[t] = m /\ table' = t /\ next' = next /\ m.view # "none"
        /\ m.stale = FALSE /\ m.pc = "open"
    BY <1>1, <1>2, <1>7, <1>8 DEF Tx
  <2>2. m.seen = next + Len(m.got) * Inc
    BY <1>3, <1>4, <1>7
  <2>3. Len(m.got) <= MaxGot
    BY <1>2, <1>3, <1>7, SequenceAssumption
  <2> QED BY <2>1, <2>2, <2>3, <1>9 DEF Sound
<1> QED BY <1>6, <1>8, <1>10, OneStep DEF SeqInv, TypeOK

-----------------------------------------------------------------------------
\* What a commit adds to the documents: the next numbers, in order.
LEMMA CommitDocs ==
    ASSUME SeqInv, NEW t \in Request, Commit(t)
    PROVE  /\ docs' \in Seq(Issued) /\ Len(docs') = Len(docs) + Len(tx[t].got)
           /\ \A i \in DOMAIN docs : i \in DOMAIN docs' /\ docs'[i] = docs[i]
           /\ \A i \in DOMAIN docs' : docs'[i] = Start + (i - 1) * Inc
           /\ next' = Start + Len(docs') * Inc
<1> DEFINE got == tx[t].got
<1>1. /\ docs \in Seq(Issued) /\ got \in Seq(Issued) /\ docs' = docs \o got
      /\ Len(docs) \in Int /\ Len(got) \in Int /\ next \in Int
      /\ next = Start + Len(docs) * Inc /\ Sound(t)
      /\ next' = IF got = <<>> THEN next ELSE tx[t].seen
  BY IssuedInt DEF SeqInv, TypeOK, Tx, Commit, Counted
<1>2. /\ docs' \in Seq(Issued) /\ Len(docs') = Len(docs) + Len(got)
      /\ \A i \in 1 .. Len(docs') :
            docs'[i] = IF i <= Len(docs) THEN docs[i] ELSE got[i - Len(docs)]
  BY <1>1, ConcatProperties
<1>3. DOMAIN docs = 1 .. Len(docs) /\ DOMAIN docs' = 1 .. Len(docs') /\ DOMAIN got = 1 .. Len(got)
  BY <1>1, <1>2, LenProperties
<1>4. Len(got) >= 0 /\ Len(docs) >= 0
  BY <1>1, LenProperties
<1> HIDE DEF got
<1>5. \A i \in DOMAIN docs' : docs'[i] = Start + (i - 1) * Inc
  <2> TAKE i \in DOMAIN docs'
  <2>1. i \in 1 .. Len(docs')
    BY <1>3
  <2>2. CASE i <= Len(docs)
    <3>1. i \in DOMAIN docs /\ docs'[i] = docs[i]
      BY <1>1, <1>2, <1>3, <2>1, <2>2
    <3> QED BY <3>1 DEF SeqInv, Counted
  <2>3. CASE ~ (i <= Len(docs))
    <3> DEFINE k == i - Len(docs)
               l == Len(docs)
    <3>1. k \in 1 .. Len(got) /\ docs'[i] = got[k] /\ i - 1 = l + (k - 1)
      BY <1>1, <1>2, <1>4, <2>1, <2>3
    <3>2. got[k] = next + (k - 1) * Inc
      BY <1>1, <1>3, <3>1 DEF Sound, got
    <3>3. k - 1 \in Int /\ l \in Int
      BY <1>1, <3>1
    <3>4. next = Start + l * Inc
      BY <1>1
    <3> HIDE DEF k, l
    <3>5. l * Inc \in Int /\ (k - 1) * Inc \in Int /\ Start \in Int
      BY <3>3, Products, SequenceAssumption
    <3>6. (l + (k - 1)) * Inc = l * Inc + (k - 1) * Inc
      BY <3>3, Products
    <3>7. docs'[i] = Start + (l + (k - 1)) * Inc
      BY <3>1, <3>2, <3>4, <3>5, <3>6
    <3> QED BY <3>1, <3>7
  <2> QED BY <2>2, <2>3
<1>6. next' = Start + Len(docs') * Inc
  <2>1. CASE got = <<>>
    <3>1. Len(got) = 0
      BY <2>1
    <3> QED BY <1>1, <1>2, <2>1, <3>1
  <2>2. CASE got # <<>>
    <3> DEFINE n == Len(got)
               l == Len(docs)
    <3>1. next' = next + n * Inc
      BY <1>1, <2>2 DEF Sound, got
    <3>2. n \in Int /\ l \in Int
      BY <1>1
    <3>3. next = Start + l * Inc /\ Len(docs') = l + n
      BY <1>1, <1>2
    <3> HIDE DEF n, l
    <3>4. n * Inc \in Int /\ l * Inc \in Int /\ Start \in Int
      BY <3>2, Products, SequenceAssumption
    <3>5. (l + n) * Inc = l * Inc + n * Inc
      BY <3>2, Products
    <3> QED BY <3>1, <3>3, <3>4, <3>5
  <2> QED BY <2>1, <2>2
<1>7. \A i \in DOMAIN docs : i \in DOMAIN docs' /\ docs'[i] = docs[i]
  BY <1>1, <1>2, <1>3, <1>4
<1> QED BY <1>2, <1>5, <1>6, <1>7 DEF got

\* A commit: the others that have a snapshot are out of date, and none of
\* them holds a number.
LEMMA CommitStep ==
    ASSUME SeqInv, NEW t \in Request, Commit(t)
    PROVE  SeqInv'
<1>1. /\ docs' \in Seq(Issued) /\ Len(docs') = Len(docs) + Len(tx[t].got)
      /\ \A i \in DOMAIN docs' : docs'[i] = Start + (i - 1) * Inc
      /\ next' = Start + Len(docs') * Inc
  BY CommitDocs
<1>2. /\ tx[t].got \in Seq(Issued) /\ Len(tx[t].got) \in Nat
      /\ docs \in Seq(Issued) /\ Len(docs) \in Nat /\ Len(docs') \in Nat
      /\ Sound(t) /\ tx \in [Request -> Tx]
  BY <1>1, LenProperties DEF SeqInv, TypeOK, Tx
<1>3. Issued \subseteq Issued' /\ next' \in Issued' /\ Start \in Issued'
  <2>1. 0 .. Len(docs) + MaxGot \subseteq 0 .. Len(docs') + MaxGot
    BY <1>1, <1>2, SequenceAssumption
  <2>2. Len(docs') \in 0 .. Len(docs') + MaxGot /\ 0 \in 0 .. Len(docs') + MaxGot
    BY <1>2, SequenceAssumption
  <2>3. Start = Start + 0 * Inc
    BY Products, SequenceAssumption
  <2> QED BY <2>1, <2>2, <2>3, <1>1 DEF Issued
<1>4. Tx \subseteq Tx' /\ docs' \in Seq(Issued')
  <2>1. ASSUME NEW s \in Seq(Issued) PROVE s \in Seq(Issued')
    BY <1>3, SeqDef
  <2>2. docs' \in Seq(Issued')
    BY <1>1, <2>1
  <2>3. ASSUME NEW m \in Tx PROVE m \in Tx'
    <3>1. m.seen \in Issued' /\ m.got \in Seq(Issued')
      BY <1>3, <2>1, <2>3 DEF Tx
    <3>2. m = [pc |-> m.pc, view |-> m.view, seen |-> m.seen,
               stale |-> m.stale, other |-> m.other, got |-> m.got]
      BY DEF Tx
    <3>3. /\ m.pc \in {"idle", "open", "record", "table", "locked", "selected", "failed"}
          /\ m.view \in {"none", "early", "locked"}
          /\ m.stale \in BOOLEAN /\ m.other \in BOOLEAN
      BY DEF Tx
    <3> QED BY <3>1, <3>2, <3>3 DEF Tx
  <2> QED BY <2>2, <2>3
<1>5. Idle \in Tx'
  BY <1>3 DEF Idle, Tx
<1>6. tx' = [u \in Request |-> IF u = t THEN Idle ELSE Outdated(t, tx[u])]
  BY DEF Commit
<1>7. ASSUME NEW u \in Request, u # t
      PROVE  Outdated(t, tx[u]) \in Tx
  BY <1>2, <1>7 DEF Outdated, Tx
<1>8. /\ table' \in Request \cup {None} /\ record' \in Request \cup {None}
      /\ table # t => table' = table
  BY DEF Commit, Release, Free, SeqInv, TypeOK
<1>9. TypeOK'
  BY <1>3, <1>4, <1>5, <1>6, <1>7, <1>8 DEF TypeOK
<1>10. Counted'
  BY <1>1 DEF Counted
<1>11. ASSUME NEW u \in Request PROVE Sound(u)'
  <2>1. CASE u = t
    <3>1. tx'[u].pc = "idle" /\ tx'[u].view = "none" /\ tx'[u].got = <<>> /\ tx'[u].stale = FALSE
      BY <1>6, <2>1 DEF Idle
    <3>2. Len(<<>>) = 0 /\ DOMAIN <<>> = {}
      OBVIOUS
    <3> QED BY <3>1, <3>2, SequenceAssumption DEF Sound
  <2>2. CASE u # t /\ tx[t].got = <<>>
    <3>1. tx[u] \in Tx /\ tx'[u] = Outdated(t, tx[u]) /\ next' = next
      BY <1>2, <1>6, <2>2 DEF Commit
    <3>2. /\ tx'[u].pc = tx[u].pc /\ tx'[u].view = tx[u].view /\ tx'[u].got = tx[u].got
          /\ tx'[u].stale = tx[u].stale /\ tx'[u].seen = tx[u].seen
      BY <3>1, <2>2 DEF Outdated, Tx
    <3>3. table = u => table' = u
      BY <1>8, <2>2
    <3>4. Sound(u)
      BY DEF SeqInv
    <3> QED BY <3>1, <3>2, <3>3, <3>4 DEF Sound
  <2>3. CASE u # t /\ tx[t].got # <<>>
    <3>1. table = t /\ tx[u] \in Tx /\ tx'[u] = Outdated(t, tx[u]) /\ Sound(u)
      BY <1>2, <1>6, <2>3 DEF Sound, SeqInv
    <3>2. /\ tx[u].pc \notin {"locked", "selected"} /\ tx[u].got = <<>>
          /\ tx[u].view \in {"none", "early"}
      BY <2>3, <3>1 DEF Sound, Tx
    <3>3. /\ tx'[u].pc = tx[u].pc /\ tx'[u].view = tx[u].view /\ tx'[u].got = <<>>
          /\ tx'[u].stale => tx'[u].view = "early"
          /\ tx'[u].view # "none" => tx'[u].stale
      <4>1. CASE tx[u].view = "none"
        BY <2>3, <3>1, <3>2, <4>1 DEF Outdated, Tx, Sound
      <4>2. CASE tx[u].view # "none"
        BY <2>3, <3>1, <3>2, <4>2 DEF Outdated, Tx
      <4> QED BY <4>1, <4>2
    <3>4. Len(<<>>) = 0 /\ DOMAIN <<>> = {}
      OBVIOUS
    <3>5. tx[u].pc \in {"table", "locked", "selected"} => 0 < MaxGot
      BY <3>1, <3>2, <3>4 DEF Sound
    <3> QED BY <3>2, <3>3, <3>4, <3>5, SequenceAssumption DEF Sound
  <2> QED BY <2>1, <2>2, <2>3
<1> QED BY <1>9, <1>10, <1>11 DEF SeqInv

-----------------------------------------------------------------------------
\* The invariant holds at first.
LEMMA InitInv == Init => SeqInv
<1> SUFFICES ASSUME Init PROVE SeqInv
  OBVIOUS
<1>1. Len(<<>>) = 0 /\ DOMAIN <<>> = {} /\ docs = <<>>
  BY DEF Init
<1>2. Start + 0 * Inc = Start
  BY Products, SequenceAssumption
<1>3. Start \in Issued
  <2>1. 0 \in 0 .. Len(docs) + MaxGot
    BY <1>1, SequenceAssumption
  <2> QED BY <2>1, <1>2 DEF Issued
<1>4. docs \in Seq(Issued) /\ Idle \in Tx
  BY <1>1, <1>3 DEF Idle, Tx
<1>5. TypeOK
  BY <1>3, <1>4 DEF Init, TypeOK
<1>6. Counted
  BY <1>1, <1>2 DEF Init, Counted
<1>7. ASSUME NEW t \in Request PROVE Sound(t)
  BY <1>1, SequenceAssumption DEF Init, Idle, Sound
<1> QED BY <1>5, <1>6, <1>7 DEF SeqInv

\* Every step keeps the invariant.
LEMMA StepInv == SeqInv /\ [Next]_vars => SeqInv'
<1> SUFFICES ASSUME SeqInv, [Next]_vars PROVE SeqInv'
  OBVIOUS
<1>1. CASE UNCHANGED vars
  BY <1>1 DEF vars, SeqInv, TypeOK, Counted, Sound, Issued, Tx
<1>2. ASSUME NEW t \in Request, Begin(t) \/ Rollback(t) PROVE SeqInv'
  <2>1. /\ Set(t, [Idle EXCEPT !.pc = "open"]) \/ Set(t, [Idle EXCEPT !.pc = "idle"])
        /\ UNCHANGED <<next, docs>>
        /\ table' \in {table, Free(t, table)} /\ record' \in {record, Free(t, record)}
    <3>1. Idle = [Idle EXCEPT !.pc = "idle"]
      <4>1. Idle \in Tx /\ Idle.pc = "idle"
        BY IssuedInt, IdleOK DEF SeqInv, Idle, Tx
      <4> QED BY <4>1 DEF Tx
    <3>2. Set(t, Idle) => Set(t, [Idle EXCEPT !.pc = "idle"])
      BY <3>1
    <3> QED BY <1>2, <3>2 DEF Begin, Rollback, Release
  <2> QED BY <2>1, IdleStep
<1>3. ASSUME NEW t \in Request, SelectedStale(t) \/ WriteStale(t) \/ Deadlock(t) PROVE SeqInv'
  <2>1. /\ Set(t, [Idle EXCEPT !.pc = "failed"]) /\ UNCHANGED <<next, docs>>
        /\ table' = Free(t, table) /\ record' = Free(t, record)
    BY <1>3 DEF SelectedStale, WriteStale, Deadlock, Fail, Release
  <2> QED BY <2>1, IdleStep
<1>4. ASSUME NEW t \in Request, Read(t) \/ Write(t) PROVE SeqInv'
  <2> DEFINE v == Viewing(tx[t], "early")
             pc == IF tx'[t].pc = "record" THEN "record" ELSE v.pc
             m == [v EXCEPT !.pc = pc]
  <2>1. /\ v \in Tx /\ v.got = tx[t].got /\ v.stale = tx[t].stale /\ v.view # "none"
        /\ v.view = "locked" => table = t
        /\ v.stale => v.view = "early"
        /\ ~ v.stale => v.seen = next + Len(v.got) * Inc
        /\ v.pc = "open"
    BY <1>4, ViewOK DEF Read, Write, At
  <2>2. (Set(t, v) \/ Set(t, [v EXCEPT !.pc = "record"])) /\ UNCHANGED <<next, docs, table, record>>
    BY <1>4 DEF Read, Write
  <2> HIDE DEF v
  <2>3. v = [v EXCEPT !.pc = "open"]
    BY <2>1 DEF Tx
  <2>4. PICK p \in {"open", "record"} : Set(t, [v EXCEPT !.pc = p])
    BY <2>2, <2>3
  <2> DEFINE w == [v EXCEPT !.pc = p]
  <2>5. /\ w \in Tx /\ w.got = v.got /\ w.stale = v.stale /\ w.view = v.view /\ w.seen = v.seen
        /\ w.pc = p
    BY <2>1 DEF Tx
  <2> HIDE DEF w
  <2> QED BY <2>1, <2>2, <2>4, <2>5, MovesOn DEF SeqInv, TypeOK, w
<1>5. ASSUME NEW t \in Request, WriteDone(t) \/ GetId(t) \/ LockTable(t) PROVE SeqInv'
  <2>1. PICK p \in {"open", "table", "locked"} :
            /\ Set(t, [tx[t] EXCEPT !.pc = p]) /\ UNCHANGED <<next, docs>>
            /\ p = "locked" => table' = t
            /\ p \in {"table", "locked"} => Len(tx[t].got) < MaxGot
            /\ table' \in {table, t} /\ record' \in {record, t}
            /\ table \in {t, None} \/ table' = table
    BY <1>5 DEF WriteDone, GetId, LockTable, At, SeqInv, Sound
  <2> DEFINE w == [tx[t] EXCEPT !.pc = p]
  <2>2. tx[t] \in Tx /\ Sound(t)
    BY DEF SeqInv, TypeOK
  <2>3. /\ w \in Tx /\ w.got = tx[t].got /\ w.stale = tx[t].stale /\ w.view = tx[t].view
        /\ w.seen = tx[t].seen /\ w.pc = p
    BY <2>2 DEF Tx
  <2>4. table' \in Request \cup {None} /\ record' \in Request \cup {None}
    BY <2>1 DEF SeqInv, TypeOK
  <2>5. table = t => table' = t
    BY <2>1
  <2>6. /\ w.got # <<>> => w.view # "none"
        /\ w.view = "locked" => table' = t
        /\ w.stale => w.view = "early"
        /\ w.view # "none" /\ ~ w.stale => w.seen = next + Len(w.got) * Inc
    BY <2>2, <2>3, <2>5 DEF Sound
  <2>7. Set(t, w)
    BY <2>1
  <2> HIDE DEF w
  <2> QED BY <2>1, <2>3, <2>4, <2>6, <2>7, MovesOn
<1>6. ASSUME NEW t \in Request, Select(t) PROVE SeqInv'
  <2> DEFINE v == Viewing(tx[t], "locked")
             w == [v EXCEPT !.pc = "selected"]
  <2>1. /\ table = t /\ Len(tx[t].got) < MaxGot
        /\ Set(t, w) /\ UNCHANGED <<next, docs, table, record>>
    BY <1>6 DEF Select, At, SeqInv, Sound
  <2>2. /\ v \in Tx /\ v.got = tx[t].got /\ v.stale = tx[t].stale /\ v.view # "none"
        /\ v.stale => v.view = "early"
        /\ ~ v.stale => v.seen = next + Len(v.got) * Inc
    BY <2>1, ViewOK
  <2> HIDE DEF v
  <2>3. /\ w \in Tx /\ w.got = v.got /\ w.stale = v.stale /\ w.view = v.view /\ w.seen = v.seen
        /\ w.pc = "selected"
    BY <2>2 DEF Tx
  <2> HIDE DEF w
  <2> QED BY <2>1, <2>2, <2>3, MovesOn DEF SeqInv, TypeOK
<1>7. QED BY <1>1, <1>2, <1>3, <1>4, <1>5, <1>6, UpdateStep, CommitStep DEF Next, Runs, Ends

\* The invariant holds in every state of the system.
THEOREM SequenceInvariant == Spec => []SeqInv
BY InitInv, StepInv, PTL DEF Spec

\* Type correctness: in particular every number that is seen or taken is one
\* the sequence goes through, however requests interleave.
THEOREM SequenceTypes == Spec => []TypeOK
<1>1. SeqInv => TypeOK
  BY DEF SeqInv
<1> QED BY <1>1, SequenceInvariant, PTL

\* get_id called before any other statement cannot fail for a stale snapshot.
THEOREM FreshUnderLock == Spec => []LockedViewIsFresh
<1>1. SeqInv => LockedViewIsFresh
  BY DEF SeqInv, Sound, LockedViewIsFresh
<1> QED BY <1>1, SequenceInvariant, PTL

\* Documents come into being numbered in order, without gap or repetition:
\* get_id in the transactions of osv_pool.execute implements Numbers.
THEOREM SequenceImplements == Spec => Implements
<1>1. Init => Abstract!Init
  BY DEF Init, Abstract!Init
<1>2. SeqInv /\ [Next]_vars => [Abstract!Take]_docs
  <2> SUFFICES ASSUME SeqInv, [Next]_vars PROVE [Abstract!Take]_docs
    OBVIOUS
  <2>1. CASE \E t \in Request : Commit(t)
    <3> PICK t \in Request : Commit(t)
      BY <2>1
    <3>1. /\ docs' \in Seq(Issued) /\ Len(docs') = Len(docs) + Len(tx[t].got)
          /\ \A i \in DOMAIN docs : docs'[i] = docs[i]
          /\ \A i \in DOMAIN docs' : docs'[i] = Start + (i - 1) * Inc
      BY CommitDocs
    <3>2. docs' \in Seq(Int)
      BY <3>1, IssuedInt DEF SeqInv
    <3>3. Len(docs) \in Nat /\ Len(tx[t].got) \in Nat
      BY LenProperties DEF SeqInv, TypeOK, Tx
    <3>4. \A i \in DOMAIN docs' :
            docs'[i] = IF i \in DOMAIN docs THEN docs[i] ELSE Abstract!Number(i)
      BY <3>1 DEF Abstract!Number
    <3> QED BY <3>1, <3>2, <3>3, <3>4 DEF Abstract!Take
  <2>2. CASE ~ \E t \in Request : Commit(t)
    BY <2>2 DEF Next, Runs, Ends, Begin, Read, Write, WriteDone, GetId, LockTable, Select,
                Update, SelectedStale, WriteStale, Deadlock, Fail, Rollback, vars
  <2> QED BY <2>1, <2>2
<1> QED BY <1>1, <1>2, SequenceInvariant, PTL DEF Spec, Implements, Abstract!Spec
=============================================================================
