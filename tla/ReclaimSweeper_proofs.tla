----------------------- MODULE ReclaimSweeper_proofs -----------------------
(***************************************************************************)
(* Proofs about the indexer and the sweeper that runs in it: no cursor     *)
(* passes an event that is not in the table, for any number of types,      *)
(* pages of any size, and any number of failures and crashes.  A page is   *)
(* everything of its type up to its last event, so the cursor may go there *)
(* once the page is in the table; what the chain emits comes after all     *)
(* cursors; and rows are never taken out.                                  *)
(***************************************************************************)
EXTENDS ReclaimSweeper, Numbers_proofs, SequenceTheorems

---------------------------------------------------------------------------
(* Sequences that grow *)

IsSequence(s) == \E S : s \in Seq(S)

LEMMA SequenceGrows ==
  ASSUME NEW s, IsSequence(s), NEW t, IsSequence(t)
  PROVE  /\ IsSequence(s \o t)
         /\ Len(s) \in Nat /\ Len(t) \in Nat /\ Len(s \o t) = Len(s) + Len(t)
         /\ DOMAIN s = 1 .. Len(s) /\ DOMAIN (s \o t) = 1 .. Len(s \o t)
         /\ \A i \in 1 .. Len(s) : (s \o t)[i] = s[i]
         /\ \A i \in 1 .. Len(t) : (s \o t)[Len(s) + i] = t[i]
<1>1. PICK S : s \in Seq(S)
  BY DEF IsSequence
<1>2. PICK T : t \in Seq(T)
  BY DEF IsSequence
<1>3. s \in Seq(S \cup T) /\ t \in Seq(S \cup T)
  <2>1. /\ s \in [1 .. Len(s) -> S] /\ Len(s) \in Nat
        /\ t \in [1 .. Len(t) -> T] /\ Len(t) \in Nat
    BY <1>1, <1>2, LenProperties
  <2>2. s \in [1 .. Len(s) -> S \cup T] /\ t \in [1 .. Len(t) -> S \cup T]
    BY <2>1
  <2>3. QED
    BY <2>1, <2>2, SeqDef
<1>4. /\ s \o t \in Seq(S \cup T)
      /\ Len(s \o t) = Len(s) + Len(t)
      /\ \A i \in 1 .. Len(s) + Len(t) :
            (s \o t)[i] = IF i <= Len(s) THEN s[i] ELSE t[i - Len(s)]
  BY <1>3, ConcatProperties
<1>5. /\ Len(s) \in Nat /\ Len(t) \in Nat
      /\ DOMAIN s = 1 .. Len(s) /\ DOMAIN (s \o t) = 1 .. Len(s \o t)
  BY <1>3, <1>4, LenProperties
<1>6. ASSUME NEW i \in 1 .. Len(t) PROVE (s \o t)[Len(s) + i] = t[i]
  <2>1. Len(s) + i \in 1 .. Len(s) + Len(t) /\ ~(Len(s) + i <= Len(s))
        /\ (Len(s) + i) - Len(s) = i
    BY <1>5
  <2>2. QED
    BY <1>4, <2>1
<1>7. ASSUME NEW i \in 1 .. Len(s) PROVE (s \o t)[i] = s[i]
  BY <1>4, <1>5
<1>8. QED
  BY <1>4, <1>5, <1>6, <1>7 DEF IsSequence

---------------------------------------------------------------------------
(* The table and the cursors *)

\* The cursors are of the types that the table knows and no event is beyond the
\* chain; what a row stands for is an event.
IndexerInv ==
    /\ IsSequence(events) /\ IsSequence(rows)
    /\ \A n \in DOMAIN events : events[n].type \in Types
    /\ \A r \in DOMAIN rows : rows[r] \in DOMAIN events
    /\ cursor \in [Types -> Nat]
    /\ \A type \in Types : cursor[type] <= Len(events)
    /\ NothingBehindCursor

LEMMA EventNumbers ==
  ASSUME IndexerInv
  PROVE  /\ Len(events) \in Nat /\ DOMAIN events = 1 .. Len(events)
         /\ DOMAIN events \subseteq Nat /\ IsFiniteSet(DOMAIN events)
<1>1. PICK S : events \in Seq(S)
  BY DEF IndexerInv, IsSequence
<1>2. Len(events) \in Nat /\ DOMAIN events = 1 .. Len(events)
  BY <1>1, LenProperties
<1>3. QED
  BY <1>2, FS_Interval

\* The chain's events come after every cursor.
LEMMA EmittedStep ==
  ASSUME IndexerInv, NEW fresh, IsSequence(fresh),
         \A i \in DOMAIN fresh : fresh[i].type \in Types,
         events' = events \o fresh, UNCHANGED <<rows, cursor, lost>>
  PROVE  IndexerInv'
<1>1. /\ IsSequence(events') /\ DOMAIN events' = 1 .. Len(events')
      /\ Len(events) \in Nat /\ Len(fresh) \in Nat /\ Len(events') = Len(events) + Len(fresh)
      /\ DOMAIN events = 1 .. Len(events)
      /\ \A n \in 1 .. Len(events) : events'[n] = events[n]
      /\ \A i \in 1 .. Len(fresh) : events'[Len(events) + i] = fresh[i]
  BY SequenceGrows DEF IndexerInv
<1>2. DOMAIN fresh = 1 .. Len(fresh)
  BY LenProperties DEF IsSequence
<1>3. ASSUME NEW n \in DOMAIN events'
      PROVE  \/ n \in DOMAIN events /\ events'[n] = events[n]
             \/ n > Len(events) /\ events'[n].type \in Types
  <2>1. CASE n <= Len(events)
    BY <1>1, <1>3, <2>1
  <2>2. CASE n > Len(events)
    <3>1. n - Len(events) \in 1 .. Len(fresh) /\ Len(events) + (n - Len(events)) = n
      BY <1>1, <1>3, <2>2
    <3>2. events'[n] = fresh[n - Len(events)]
      BY <1>1, <3>1
    <3>3. QED
      BY <1>2, <2>2, <3>1, <3>2
  <2>3. QED
    BY <1>1, <1>3, <2>1, <2>2
<1>4. \A n \in DOMAIN events' : events'[n].type \in Types
  BY <1>3 DEF IndexerInv
<1>5. \A r \in DOMAIN rows' : rows'[r] \in DOMAIN events'
  BY <1>1 DEF IndexerInv
<1>6. cursor' \in [Types -> Nat] /\ \A type \in Types : cursor'[type] <= Len(events')
  BY <1>1 DEF IndexerInv
<1>7. ASSUME NEW n \in DOMAIN events', n <= cursor'[events'[n].type]
      PROVE  Stored(n)' \/ n \in lost'
  <2>1. n \in DOMAIN events /\ events'[n] = events[n]
    BY <1>1, <1>3, <1>7 DEF IndexerInv
  <2>2. CASE n \in lost
    BY <2>2
  <2>3. CASE Stored(n)
    <3>1. PICK r \in DOMAIN rows : Same(rows[r], n)
      BY <2>3 DEF Stored
    <3>2. rows[r] \in DOMAIN events /\ events'[rows[r]] = events[rows[r]]
      BY <1>1 DEF IndexerInv
    <3>3. QED
      BY <2>1, <3>1, <3>2 DEF Stored, Same
  <2>4. QED
    BY <1>7, <2>1, <2>2, <2>3 DEF IndexerInv, NothingBehindCursor
<1>8. QED
  BY <1>1, <1>4, <1>5, <1>6, <1>7 DEF IndexerInv, NothingBehindCursor

\* After an insert every event of it has a row, and so has what had one.
LEMMA InsertedStores ==
  ASSUME IndexerInv, NEW nodes \in SUBSET DOMAIN events, rows' = Inserted(nodes),
         UNCHANGED events
  PROVE  /\ IsSequence(rows') /\ \A r \in DOMAIN rows' : rows'[r] \in DOMAIN events
         /\ \A n \in DOMAIN events : Stored(n) \/ n \in nodes => Stored(n)'
<1> DEFINE new(n) == ~Stored(n) /\ \A m \in nodes : Same(m, n) => n <= m
           N == {n \in nodes : new(n)}
           k == Cardinality(N)
<1>1. N \in SUBSET Nat /\ N \subseteq DOMAIN events /\ IsFiniteSet(N)
  BY EventNumbers, FS_Subset
<1>2. rows' = rows \o InOrder(N)
  BY DEF Inserted
<1>3. ASSUME NEW n \in nodes, ~Stored(n) PROVE \E m \in N : Same(m, n)
  <2> DEFINE Alike == {m \in nodes : Same(m, n)}
  <2>1. Alike \subseteq Nat /\ Alike # {}
    BY EventNumbers DEF Same
  <2>2. PICK m \in Alike : \A x \in Alike : m <= x
    <3> HIDE DEF Alike
    <3>1. QED
      BY <2>1, LeastNumber
  <2>3. m \in nodes /\ Same(m, n)
    OBVIOUS
  <2>4. ~Stored(m)
    BY <1>3, <2>3 DEF Stored, Same
  <2>5. \A x \in nodes : Same(x, m) => m <= x
    BY <2>2, <2>3 DEF Same
  <2>6. QED
    BY <2>3, <2>4, <2>5
<1> HIDE DEF N
<1>4. /\ k \in Nat /\ InOrder(N) \in [1 .. k -> N]
      /\ \A n \in N : \E i \in 1 .. k : InOrder(N)[i] = n
  BY <1>1, InOrderSorts
<1>5. InOrder(N) \in Seq(N) /\ Len(InOrder(N)) = k
  BY <1>4, LenProperties, SeqDef
<1>6. IsSequence(InOrder(N)) /\ IsSequence(rows)
  BY <1>5 DEF IsSequence, IndexerInv
<1>7. /\ IsSequence(rows') /\ Len(rows) \in Nat /\ Len(rows') = Len(rows) + k
      /\ DOMAIN rows = 1 .. Len(rows) /\ DOMAIN rows' = 1 .. Len(rows')
      /\ \A r \in 1 .. Len(rows) : rows'[r] = rows[r]
      /\ \A i \in 1 .. k : rows'[Len(rows) + i] = InOrder(N)[i]
  <2> DEFINE t == InOrder(N)
  <2>1. IsSequence(t) /\ Len(t) = k /\ IsSequence(rows)
    BY <1>5, <1>6
  <2> HIDE DEF t
  <2>2. /\ IsSequence(rows \o t) /\ Len(rows) \in Nat /\ Len(rows \o t) = Len(rows) + Len(t)
        /\ DOMAIN rows = 1 .. Len(rows) /\ DOMAIN (rows \o t) = 1 .. Len(rows \o t)
        /\ \A r \in 1 .. Len(rows) : (rows \o t)[r] = rows[r]
        /\ \A i \in 1 .. Len(t) : (rows \o t)[Len(rows) + i] = t[i]
    <3>1. IsSequence(rows) /\ IsSequence(t)
      BY <2>1
    <3>2. QED
      BY ONLY <3>1, SequenceGrows
  <2>3. rows' = rows \o t
    BY <1>2 DEF t
  <2>4. QED
    BY <2>1, <2>2, <2>3 DEF t
<1>8. ASSUME NEW r \in DOMAIN rows' PROVE rows'[r] \in DOMAIN events
  <2>1. CASE r <= Len(rows)
    BY <1>7, <1>8, <2>1 DEF IndexerInv
  <2>2. CASE r > Len(rows)
    <3>1. r - Len(rows) \in 1 .. k /\ Len(rows) + (r - Len(rows)) = r
      BY <1>4, <1>7, <1>8, <2>2
    <3>2. rows'[r] = InOrder(N)[r - Len(rows)]
      BY <1>7, <3>1
    <3>3. QED
      BY <1>1, <1>4, <3>1, <3>2
  <2>3. QED
    BY <1>7, <1>8, <2>1, <2>2
<1>9. ASSUME NEW n \in DOMAIN events, Stored(n) PROVE Stored(n)'
  <2>1. PICK r \in DOMAIN rows : Same(rows[r], n)
    BY <1>9 DEF Stored
  <2>2. r \in DOMAIN rows' /\ rows'[r] = rows[r]
    BY <1>4, <1>7
  <2>3. QED
    BY <2>1, <2>2 DEF Stored, Same
<1>10. ASSUME NEW n \in nodes, ~Stored(n) PROVE Stored(n)'
  <2>1. PICK m \in N : Same(m, n)
    BY <1>3, <1>10
  <2>2. PICK i \in 1 .. k : InOrder(N)[i] = m
    BY <1>4
  <2>3. Len(rows) + i \in DOMAIN rows' /\ rows'[Len(rows) + i] = m
    BY <1>4, <1>7, <2>2
  <2>4. QED
    BY <2>1, <2>3 DEF Stored, Same
<1>11. QED
  BY <1>7, <1>8, <1>9, <1>10

\* A cursor moves over what is in the table or lost.
LEMMA TableStep ==
  ASSUME IndexerInv, UNCHANGED events, NEW nodes \in SUBSET DOMAIN events,
         rows' = Inserted(nodes) \/ UNCHANGED rows,
         lost \subseteq lost',
         cursor' \in [Types -> Nat], \A type \in Types : cursor'[type] <= Len(events),
         \A n \in DOMAIN events :
            n <= cursor'[events[n].type] =>
               \/ n <= cursor[events[n].type] \/ n \in lost'
               \/ n \in nodes /\ rows' = Inserted(nodes)
  PROVE  IndexerInv'
<1>1. /\ IsSequence(rows') /\ \A r \in DOMAIN rows' : rows'[r] \in DOMAIN events
      /\ \A n \in DOMAIN events : Stored(n) => Stored(n)'
  <2>1. CASE rows' = Inserted(nodes)
    BY <2>1, InsertedStores
  <2>2. CASE UNCHANGED rows
    BY <2>2 DEF IndexerInv, Stored, Same
  <2>3. QED
    BY <2>1, <2>2
<1>2. ASSUME NEW n \in DOMAIN events, n \in nodes, rows' = Inserted(nodes)
      PROVE  Stored(n)'
  BY <1>2, InsertedStores
<1>3. ASSUME NEW n \in DOMAIN events, n <= cursor'[events[n].type]
      PROVE  Stored(n)' \/ n \in lost'
  BY <1>1, <1>2, <1>3 DEF IndexerInv, NothingBehindCursor
<1>4. NothingBehindCursor'
  BY <1>3 DEF NothingBehindCursor
<1>5. QED
  BY <1>1, <1>4 DEF IndexerInv

\* A page ends with an event, and holds everything of its type up to it.
LEMMA PageIsPrefix ==
  ASSUME IndexerInv, NEW i \in DOMAIN TypeOrder, Reads(i)
  PROVE  LET page == Page(TypeOrder[i])
         IN  /\ page \subseteq DOMAIN events
             /\ Latest(page) \in Nat /\ Latest(page) <= Len(events)
             /\ \A n \in DOMAIN events :
                   events[n].type = TypeOrder[i] /\ n <= Latest(page) =>
                      n <= cursor[TypeOrder[i]] \/ n \in page
<1> DEFINE T == TypeOrder[i]
           A == Ahead(T)
           P == Page(T)
           L == Latest(P)
           size(n) == Cardinality(Below(A, n))
<1>1. T \in Types /\ cursor[T] \in Nat /\ cursor[T] <= Len(events) /\ A # {}
  BY DEF Reads, Types, IndexerInv
<1>2. A \subseteq DOMAIN events
  BY <1>1, EventNumbers DEF Ahead
<1>3. A \in SUBSET Nat /\ IsFiniteSet(A)
  BY <1>2, EventNumbers, FS_Subset
<1>4. P = {n \in A : size(n) < PageSize}
  BY DEF Page, FirstOf
<1>5. ASSUME NEW n \in DOMAIN events, events[n].type = T, ~(n <= cursor[T])
      PROVE  n \in A
  BY <1>1, <1>5, EventNumbers DEF Ahead
<1>6. PageSize \in Nat \ {0}
  BY IndexerAssumption
<1> HIDE DEF A, P
<1>7. P # {}
  <2>1. PICK m \in A : \A n \in A : m <= n
    BY <1>1, <1>3, LeastNumber
  <2>2. Below(A, m) = {}
    <3>1. \A n \in A : n \in Nat /\ ~(n < m)
      BY <1>3, <2>1
    <3>2. QED
      BY <3>1 DEF Below
  <2>3. size(m) = 0
    BY <2>2, FS_EmptySet
  <2>4. QED
    BY <1>4, <1>6, <2>1, <2>3
<1>8. L \in P /\ \A m \in P : m <= L
  <2>1. P \in SUBSET Nat /\ IsFiniteSet(P)
    BY <1>3, <1>4, FS_Subset
  <2>2. \E b \in P : \A m \in P : m <= b
    BY <1>7, <2>1, FiniteHasGreatest
  <2>3. QED
    BY <2>2 DEF Latest
<1> HIDE DEF L
<1>9. ASSUME NEW n \in A, n <= L PROVE n \in P
  <2>1. L \in A /\ n \in Nat /\ L \in Nat /\ size(L) < PageSize
    BY <1>3, <1>4, <1>8
  <2>2. CASE n = L
    BY <1>8, <2>2
  <2>3. CASE n < L
    <3>1. size(n) \in Nat /\ size(L) \in Nat /\ size(n) < size(L)
      BY <1>3, <2>1, <2>3, BelowGrows
    <3>2. QED
      BY <1>4, <1>6, <2>1, <3>1
  <2>4. QED
    BY <1>9, <2>1, <2>2, <2>3
<1>10. P \subseteq DOMAIN events /\ L \in Nat /\ L <= Len(events)
  BY <1>2, <1>4, <1>8, EventNumbers
<1>11. QED
  BY <1>5, <1>9, <1>10 DEF A, P, L
---------------------------------------------------------------------------
(* The steps of the indexer *)

\* A page, whole or in part, is in the table, or all of it but an event that is
\* lost; the cursor goes to its end or stays.
LEMMA ReadStep ==
  ASSUME IndexerInv, NEW i \in DOMAIN TypeOrder, ReadPage(i) \/ LoseEvent(i)
  PROVE  IndexerInv'
<1> DEFINE T == TypeOrder[i]
           page == Page(T)
<1>1. Reads(i) /\ UNCHANGED events /\ cursor' = [cursor EXCEPT ![T] = Latest(page)]
  BY DEF ReadPage, LoseEvent
<1>2. /\ page \subseteq DOMAIN events /\ Latest(page) \in Nat /\ Latest(page) <= Len(events)
      /\ \A n \in DOMAIN events : events[n].type = T /\ n <= Latest(page) =>
                                     n <= cursor[T] \/ n \in page
  BY <1>1, PageIsPrefix
<1>3. /\ cursor' \in [Types -> Nat] /\ \A type \in Types : cursor'[type] <= Len(events)
      /\ \A n \in DOMAIN events : n <= cursor'[events[n].type] =>
                                     n <= cursor[events[n].type] \/ n \in page
  BY <1>1, <1>2 DEF IndexerInv
<1>4. CASE ReadPage(i)
  <2>1. rows' = Inserted(page) /\ lost' = lost
    BY <1>4 DEF ReadPage
  <2>2. QED
    BY <1>1, <1>2, <1>3, <2>1, TableStep
<1>5. CASE LoseEvent(i)
  <2>1. PICK m \in page : rows' = Inserted(page \ {m}) /\ lost' = lost \cup {m}
    BY <1>5 DEF LoseEvent
  <2>2. page \ {m} \in SUBSET DOMAIN events
    BY <1>2
  <2>3. \A n \in DOMAIN events : n <= cursor'[events[n].type] =>
           n <= cursor[events[n].type] \/ n \in lost' \/ n \in page \ {m}
    BY <1>3, <2>1
  <2>4. lost \subseteq lost'
    BY <2>1
  <2>5. QED
    BY <1>1, <1>3, <2>1, <2>2, <2>3, <2>4, TableStep
<1>6. QED
  BY <1>4, <1>5

\* Rows are added and no cursor moves.
LEMMA RowsStep ==
  ASSUME IndexerInv, UNCHANGED <<events, cursor, lost>>, NEW nodes \in SUBSET DOMAIN events,
         rows' = Inserted(nodes) \/ UNCHANGED rows
  PROVE  IndexerInv'
<1>1. cursor' \in [Types -> Nat] /\ \A type \in Types : cursor'[type] <= Len(events)
  BY DEF IndexerInv
<1>2. QED
  BY <1>1, TableStep

LEMMA PartStep ==
  ASSUME IndexerInv, UNCHANGED <<events, cursor, lost>>, NEW nodes \in SUBSET DOMAIN events,
         InsertedInPart(nodes)
  PROVE  IndexerInv'
<1>1. CASE UNCHANGED rows
  BY <1>1, RowsStep
<1>2. CASE \E n \in nodes : rows' = Inserted({m \in nodes : m <= n})
  <2>1. PICK n \in nodes : rows' = Inserted({m \in nodes : m <= n})
    BY <1>2
  <2>2. {m \in nodes : m <= n} \in SUBSET DOMAIN events
    OBVIOUS
  <2>3. QED
    BY <2>1, <2>2, RowsStep
<1>3. QED
  BY <1>1, <1>2 DEF InsertedInPart

LEMMA IndexerMovesStep ==
  ASSUME IndexerInv, IndexerStep \/ IndexerFault \/ StreamEnds
  PROVE  IndexerInv'
<1>1. ASSUME NEW i \in DOMAIN TypeOrder, ReadPage(i) \/ LoseEvent(i) PROVE IndexerInv'
  BY <1>1, ReadStep
<1>2. ASSUME NEW i \in DOMAIN TypeOrder, ReadThrows(i) PROVE IndexerInv'
  <2>1. /\ Reads(i) /\ InsertedInPart(Page(TypeOrder[i]))
        /\ UNCHANGED <<events, cursor, lost>>
    BY <1>2 DEF ReadThrows, CursorOnThrow
  <2>2. Page(TypeOrder[i]) \in SUBSET DOMAIN events
    BY <2>1, PageIsPrefix
  <2>3. QED
    BY <2>1, <2>2, PartStep
<1>3. CASE BackfillDone \/ StreamOpens \/ StreamEnds
  <2>1. UNCHANGED <<events, rows, cursor, lost>>
    BY <1>3 DEF BackfillDone, StreamOpens, StreamEnds
  <2>2. QED
    BY <2>1, RowsStep
<1>4. FirstOf(Checkpoint, CheckpointSize) \in SUBSET DOMAIN events
  BY DEF FirstOf, Checkpoint
<1>5. CASE StreamDelivers
  BY <1>4, <1>5, RowsStep DEF StreamDelivers
<1>6. CASE StreamMisses
  BY <1>4, <1>6, PartStep DEF StreamMisses
<1>7. QED
  BY <1>1, <1>2, <1>3, <1>5, <1>6 DEF IndexerStep, IndexerFault

LEMMA CrashStep ==
  ASSUME IndexerInv, IndexerCrash
  PROVE  IndexerInv'
<1>1. UNCHANGED <<events, cursor, lost>>
  BY DEF IndexerCrash
<1>2. CASE UNCHANGED rows
  BY <1>1, <1>2, RowsStep
<1>3. CASE \E i \in DOMAIN TypeOrder : Reads(i) /\ InsertedInPart(Page(TypeOrder[i]))
  <2>1. PICK i \in DOMAIN TypeOrder : Reads(i) /\ InsertedInPart(Page(TypeOrder[i]))
    BY <1>3
  <2>2. Page(TypeOrder[i]) \in SUBSET DOMAIN events
    BY <2>1, PageIsPrefix
  <2>3. QED
    BY <1>1, <2>1, <2>2, PartStep
<1>4. QED
  BY <1>2, <1>3 DEF IndexerCrash

---------------------------------------------------------------------------
(* The calls that emit *)

\* What users and the sweeper emit is of the types the indexer reads.
LEMMA SendsStep ==
  ASSUME IndexerInv, NEW type \in Types, NEW p, NEW u, Sends(ProposalEvent(type, p, u))
  PROVE  IndexerInv'
<1> DEFINE e == ProposalEvent(type, p, u)
<1>1. e.type \in Types
  BY DEF ProposalEvent
<1>2. events' = events \o <<e>> /\ UNCHANGED <<rows, cursor, lost>>
  BY DEF Sends, Emits, indexerRest
<1> HIDE DEF e
<1>3. <<e>> \in Seq({e}) /\ DOMAIN <<e>> = {1} /\ <<e>>[1] = e
  OBVIOUS
<1>4. IsSequence(<<e>>) /\ \A i \in DOMAIN <<e>> : <<e>>[i].type \in Types
  BY <1>1, <1>3 DEF IsSequence
<1>5. QED
  BY <1>2, <1>4, EmittedStep

LEMMA ReclaimedStep ==
  ASSUME IndexerInv, NEW p, NEW batch \in SUBSET Users, ReclaimAll(p, batch),
         UNCHANGED <<rows, cursor, lost>>
  PROVE  IndexerInv'
<1> DEFINE order == SetToSeq(batch)
           fresh == [i \in DOMAIN order |-> ProposalEvent("VoteReclaimed", p, order[i])]
           size == Cardinality(batch)
<1>1. IsFiniteSet(batch) /\ size \in Nat
  BY FiniteUsers, FS_Subset, FS_CardinalityType
<1>2. DOMAIN order = 1 .. size
  <2>1. \E f \in [1 .. size -> batch] : IsInjective(f)
    BY <1>1, FS_CardinalityType DEF ExistsBijection, Bijection, Injection
  <2>2. order \in [1 .. size -> batch]
    BY <2>1 DEF SetToSeq
  <2>3. QED
    BY <2>2
<1>3. events' = events \o fresh
  BY DEF ReclaimAll, Emits
<1>4. "VoteReclaimed" \in Types
  BY SweeperAssumption
<1> HIDE DEF order
<1>5. \A i \in DOMAIN order : fresh[i].type \in Types
  BY <1>4 DEF ProposalEvent
<1>6. DOMAIN fresh = 1 .. size
  BY <1>2
<1> HIDE DEF fresh
<1>7. IsSequence(fresh)
  <2> DEFINE S == {fresh[i] : i \in 1 .. size}
  <2>1. fresh \in [1 .. size -> S]
    <3>1. fresh = [i \in 1 .. size |-> fresh[i]]
      BY <1>2, <1>6 DEF fresh
    <3>2. QED
      BY <3>1
  <2>2. fresh \in Seq(S)
    BY <1>1, <2>1, SeqDef
  <2>3. QED
    BY <2>2 DEF IsSequence
<1>8. QED
  BY <1>2, <1>3, <1>5, <1>6, <1>7, EmittedStep

LEMMA SweepsStep ==
  ASSUME IndexerInv, SweepStep
  PROVE  IndexerInv'
<1>1. ASSUME UNCHANGED <<events, rows, cursor, lost>> PROVE IndexerInv'
  BY <1>1, RowsStep
<1>2. ASSUME NEW p \in Proposals, SweepReads(p) PROVE IndexerInv'
  BY <1>1, <1>2 DEF SweepReads, indexerVars
<1>3. ASSUME NEW batch \in SUBSET Users, SweepsBatch(batch) PROVE IndexerInv'
  <2>1. UNCHANGED <<rows, cursor, lost>> /\ (ReclaimAll(sweep.p, batch) \/ UNCHANGED events)
    BY <1>3 DEF SweepsBatch, Unreclaimed
  <2>2. QED
    BY <1>1, <2>1, ReclaimedStep
<1>4. ASSUME NEW u \in Users, SweepsOne(u) PROVE IndexerInv'
  <2>1. UNCHANGED <<rows, cursor, lost>> /\ (ReclaimAll(sweep.p, {u}) \/ UNCHANGED events)
    BY <1>4 DEF SweepsOne, Unreclaimed
  <2>2. {u} \in SUBSET Users
    OBVIOUS
  <2>3. QED
    BY <1>1, <2>1, <2>2, ReclaimedStep
<1>5. QED
  BY <1>2, <1>3, <1>4 DEF SweepStep

LEMMA UsersStep ==
  ASSUME IndexerInv,
         NEW p, NEW u, NEW n,
         \/ UserProposes(u, n) \/ UserVotes(p, u, n) \/ UserUnvotes(p, u)
         \/ UserReclaims(p, u) \/ UserResolves(p)
  PROVE  IndexerInv'
<1>1. \E type \in Types : \E q, w : Sends(ProposalEvent(type, q, w))
  BY SweeperAssumption DEF UserProposes, UserVotes, UserUnvotes, UserReclaims, UserResolves
<1>2. QED
  BY <1>1, SendsStep

LEMMA SweeperStarts == SweeperInit => IndexerInv
<1> SUFFICES ASSUME SweeperInit PROVE IndexerInv
  OBVIOUS
<1>1. /\ events = <<>> /\ rows = <<>> /\ cursor = [type \in Types |-> 0]
  BY DEF SweeperInit, IndexerInit
<1>2. IsSequence(<<>>)
  <2>1. <<>> \in Seq({})
    OBVIOUS
  <2>2. QED
    BY <2>1 DEF IsSequence
<1>3. DOMAIN <<>> = {} /\ Len(<<>>) = 0
  OBVIOUS
<1>4. QED
  BY <1>1, <1>2, <1>3 DEF IndexerInv, NothingBehindCursor

LEMMA SweeperStep ==
  ASSUME IndexerInv, [SweeperNext]_sweeperVars
  PROVE  IndexerInv'
<1>1. CASE \/ UNCHANGED sweeperVars \/ TimePasses
  <2>1. UNCHANGED <<events, rows, cursor, lost>>
    BY <1>1 DEF sweeperVars, indexerVars, TimePasses
  <2>2. QED
    BY <2>1, RowsStep
<1>2. CASE IndexerMoves
  BY <1>2, IndexerMovesStep DEF IndexerMoves
<1>3. CASE SweepStep
  BY <1>3, SweepsStep
<1>4. CASE Crash
  BY <1>4, CrashStep DEF Crash
<1>5. CASE \E u \in Users, n \in Amounts : UserProposes(u, n) \/ \E p \in Proposals : UserVotes(p, u, n)
  BY <1>5, UsersStep
<1>6. CASE \E p \in Proposals : \/ \E u \in Users : UserUnvotes(p, u) \/ UserReclaims(p, u)
                                \/ UserResolves(p)
  BY <1>6, UsersStep
<1>7. QED
  BY <1>1, <1>2, <1>3, <1>4, <1>5, <1>6 DEF SweeperNext

\* However backfills, the stream, failures, crashes and the chain interleave, an
\* event that a type's cursor has passed is in the table, or its insert failed.
THEOREM NothingIsSkipped == SweeperSpec => []NothingBehindCursor
<1>1. SweeperInit => IndexerInv
  BY SweeperStarts
<1>2. IndexerInv /\ [SweeperNext]_sweeperVars => IndexerInv'
  BY SweeperStep
<1>3. IndexerInv => NothingBehindCursor
  BY DEF IndexerInv
<1>4. QED
  BY <1>1, <1>2, <1>3, PTL DEF SweeperSpec
=============================================================================
