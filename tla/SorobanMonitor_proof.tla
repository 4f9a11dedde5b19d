------------------------ MODULE SorobanMonitor_proof ------------------------
(***************************************************************************)
(* How often a process saves an event in pollEscrowEvents, for any events, *)
(* any number of processes, ledgers, restarts and rejected calls.          *)
(*                                                                         *)
(* An event that a process has saved as often as its faults allow is spent *)
(* for it: one more save, and ReplaysAreAccounted would be false.  Spent   *)
(* events are fetched again as long as the start ledger is theirs, so the  *)
(* proof is about the window of ids: it must not lose a spent event that   *)
(* can still be fetched.                                                   *)
(***************************************************************************)
EXTENDS SorobanMonitor, FiniteSetTheorems, WellFoundedInduction, TLAPS

OfLedger(l) == {e \in EventId : Event[e].ledger = l}

\* The window has room for the events of any one ledger (10 000 in the code).
WindowFits == \A l \in Nat : Cardinality(OfLedger(l)) <= Window

\* The page fetched, b, is an increasing list of events up to the start ledger s.
PageShape(at, s, b) ==
    /\ b # <<>> => at \in {"persist", "read", "event", "save"}
    /\ \A i, j \in DOMAIN b : i < j => b[i] < b[j]
    /\ \A e \in ToSet(b) : Event[e].ledger <= s

\* No id is in the window k twice.
WindowShape(k) == \A i, j \in DOMAIN k : k[i] = k[j] => i = j

\* Nothing but events of its own ledger came into the window after event e.
Youngest(k, e) ==
    \A i, j \in DOMAIN k : k[i] = e /\ i <= j => Event[k[j]].ledger = Event[e].ledger

\* A spent event that waits in the page, or can be fetched again, is in the window
\* and will not be pushed out: until it is looked at only events of its ledger
\* enter the window, for which there is room.
SpentIsKnown(s, k, b, spent) ==
    \A e \in spent :
        /\ Event[e].ledger <= s
        /\ e \in ToSet(b) \/ Event[e].ledger = s => e \in ToSet(k) /\ Youngest(k, e)
        /\ e \in ToSet(b) => \A f \in ToSet(b) : f <= e => Event[f].ledger = Event[e].ledger
        /\ Event[e].ledger = s => \A f \in ToSet(b) : Event[f].ledger = s

\* What is about to be saved is the id that entered the window last, and not spent.
SaveIsFirst(at, k, b, spent) ==
    at = "save" => /\ b # <<>> /\ k # <<>>
                   /\ k[Len(k)] = b[1]
                   /\ b[1] \notin spent

\* The invariant of one poll: where it is, the start ledger, the window, the rest of
\* the page, and the spent events.
PollInv(at, s, k, b, spent) ==
    /\ s \in Nat /\ k \in Seq(EventId) /\ b \in Seq(EventId) /\ spent \in SUBSET EventId
    /\ PageShape(at, s, b)
    /\ WindowShape(k)
    /\ SpentIsKnown(s, k, b, spent)
    /\ SaveIsFirst(at, k, b, spent)

-----------------------------------------------------------------------------
\* The contract's events: counted, typed and in the order of their ledgers.
LEMMA EventFacts ==
    /\ Len(Event) \in Nat
    /\ \A e \in EventId : Event[e].ledger \in Nat
    /\ \A e, f \in EventId : e <= f => Event[e].ledger <= Event[f].ledger
<1> DEFINE R == [topic : Topic, payment : Payment, ledger : Nat, balance : {"enough", "short"}]
<1>1. Event \in Seq(R)
  BY EventAssumption, Zenon
<1>2. Len(Event) \in Nat /\ \A e \in EventId : Event[e] \in R
  <2> HIDE DEF R
  <2> QED BY <1>1 DEF EventId
<1>3. \A e \in EventId : Event[e].ledger \in Nat
  BY <1>2
<1>4. \A e, f \in EventId : e < f => Event[e].ledger <= Event[f].ledger
  BY EventAssumption, Zenon DEF EventId
<1>5. \A e, f \in EventId : e <= f => e < f \/ e = f
  BY <1>2 DEF EventId
<1> QED
  BY <1>2, <1>3, <1>4, <1>5

\* A set of numbers has a least one.
LEMMA LeastExists ==
    ASSUME NEW S \in SUBSET Nat, S # {}
    PROVE  Min(S) \in S /\ \A y \in S : Min(S) <= y
<1> DEFINE R == {ss \in Nat \X Nat : ss[1] < ss[2]}
<1>1. IsWellFoundedOn(R, Nat)
  BY NatLessThanWellFounded, Zenon DEF OpToRel
<1>2. PICK x \in S : \A y \in S : <<y, x>> \notin R
  <2> HIDE DEF R
  <2> QED BY <1>1, WFMin
<1>3. \A y \in S : ~(y < x)
  BY <1>2
<1>4. \E z \in S : \A y \in S : z <= y
  BY <1>3
<1> QED
  BY <1>4 DEF Min

\* A set of numbers up to n has a greatest one.
LEMMA GreatestExists ==
    ASSUME NEW n \in Nat, NEW S \in SUBSET (1..n), S # {}
    PROVE  Max(S) \in S /\ \A y \in S : Max(S) >= y
<1> DEFINE T == {n - x : x \in S}
<1>1. T \in SUBSET Nat /\ T # {}
  <2>1. PICK x \in S : TRUE
    OBVIOUS
  <2>2. n - x \in T
    OBVIOUS
  <2>3. \A y \in S : n - y \in Nat
    OBVIOUS
  <2> QED BY <2>2, <2>3
<1>2. PICK t \in T : \A u \in T : t <= u
  <2> HIDE DEF T
  <2> QED BY <1>1, LeastExists
<1>3. PICK x \in S : t = n - x
  OBVIOUS
<1>4. \A y \in S : n - y \in T
  OBVIOUS
<1>5. \A y \in S : n - x <= n - y
  BY <1>2, <1>3, <1>4
<1>6. \E z \in S : \A y \in S : z >= y
  BY <1>5
<1> QED
  BY <1>6 DEF Max

\* A page (getEvents) holds, in order, public events from the start ledger on.
LEMMA PageInOrder ==
    ASSUME NEW from \in Nat, ledger \in Nat
    PROVE  /\ getEvents(from) \in Seq(EventId)
           /\ \A i, j \in DOMAIN getEvents(from) :
                i < j => getEvents(from)[i] < getEvents(from)[j]
           /\ ToSet(getEvents(from)) \subseteq PublicFrom(from)
<1> DEFINE S == PublicFrom(from)
           a == Min(S)
           b == Max(S)
           last == Min({b, a + PageLimit - 1})
           p == [i \in 1..(last - a + 1) |-> a + i - 1]
<1>1. S \in SUBSET (1..Len(Event)) /\ S \in SUBSET EventId
  BY DEF PublicFrom, EventId
<1>2. CASE S = {}
  <2>1. getEvents(from) = <<>>
    BY <1>2 DEF getEvents
  <2>2. <<>> \in Seq(EventId) /\ ToSet(<<>>) = {}
    BY DEF ToSet
  <2> QED BY <1>2, <2>1, <2>2
<1>3. CASE S # {}
  <2>1. a \in S /\ b \in S /\ \A e \in S : a <= e /\ e <= b
    <3> HIDE DEF S
    <3>1. S \in SUBSET Nat
      BY <1>1
    <3>2. a \in S /\ \A y \in S : a <= y
      BY <1>3, <3>1, LeastExists
    <3>3. b \in S /\ \A y \in S : b >= y
      BY <1>1, <1>3, EventFacts, GreatestExists
    <3> QED BY <3>1, <3>2, <3>3
  <2>2. a \in EventId /\ b \in EventId /\ a \in Nat /\ b \in Nat /\ a <= b
    BY <1>1, <2>1 DEF EventId
  <2>3. \A e \in a..b : e \in S
    <3>2. ASSUME NEW e \in a..b PROVE e \in S
      <4> HIDE DEF a, b
      <4>1. e \in EventId
        BY <2>2, EventFacts DEF EventId
      <4>2. from <= Event[a].ledger /\ Event[b].ledger <= ledger
        BY <2>1 DEF PublicFrom
      <4>3. Event[a].ledger <= Event[e].ledger /\ Event[e].ledger <= Event[b].ledger
        BY <2>2, <4>1, EventFacts
      <4>4. from <= Event[e].ledger /\ Event[e].ledger <= ledger
        BY <2>2, <4>1, <4>2, <4>3, EventFacts
      <4> QED BY <4>1, <4>4 DEF PublicFrom
    <3> QED BY <3>2
  <2> HIDE DEF a, b, S
  <2>5. last \in Nat /\ a <= last /\ last <= b
    <3>1. PageLimit \in Nat /\ PageLimit >= 1
      BY LimitAssumption
    <3>2. {b, a + PageLimit - 1} \in SUBSET Nat /\ {b, a + PageLimit - 1} # {}
      BY <2>2, <3>1
    <3>3. last \in {b, a + PageLimit - 1} /\ \A y \in {b, a + PageLimit - 1} : last <= y
      BY <3>2, LeastExists
    <3>4. a <= b /\ a <= a + PageLimit - 1
      BY <2>2, <3>1
    <3> HIDE DEF last
    <3> QED BY <2>2, <3>1, <3>3, <3>4
  <2>6. getEvents(from) = p
    BY <1>3 DEF getEvents, S, a, b
  <2> HIDE DEF last
  <2>7. last - a + 1 \in Nat
    BY <2>2, <2>5
  <2>8. /\ p \in Seq(EventId) /\ DOMAIN p = 1..(last - a + 1)
        /\ \A i \in 1..(last - a + 1) : p[i] = a + i - 1
    <3>1. \A i \in 1..(last - a + 1) : a + i - 1 \in EventId
      BY <2>2, <2>5, EventFacts DEF EventId
    <3> QED BY <2>7, <3>1
  <2>9. \A i \in 1..(last - a + 1) : p[i] \in a..b
    BY <2>2, <2>5, <2>8
  <2>10. \A i, j \in DOMAIN p : i < j => p[i] < p[j]
    BY <2>2, <2>5, <2>8
  <2> HIDE DEF p
  <2>11. ToSet(p) \subseteq S
    BY <2>3, <2>8, <2>9 DEF ToSet
  <2> QED BY <2>6, <2>8, <2>10, <2>11 DEF S
<1> QED
  BY <1>2, <1>3

-----------------------------------------------------------------------------
\* The window once id y has entered it.
Pushed(k, y) ==
    LET longer == Append(k, y) IN IF Len(longer) > Window THEN Tail(longer) ELSE longer

\* What the window is afterwards: the ids shifted by d, which is 1 when the oldest
\* has left a full window.
LEMMA PushedFacts ==
    ASSUME NEW k \in Seq(EventId), NEW y \in EventId
    PROVE  \E d \in {0, 1} :
             /\ Pushed(k, y) \in Seq(EventId)
             /\ Len(Pushed(k, y)) = Len(k) + 1 - d
             /\ \A i \in 1..(Len(k) + 1 - d) :
                  Pushed(k, y)[i] = IF i + d <= Len(k) THEN k[i + d] ELSE y
             /\ d = 1 => Len(k) >= Window
             /\ Len(k) + 1 - d >= 1
<1> DEFINE longer == Append(k, y)
<1>1. /\ longer \in Seq(EventId) /\ Len(longer) = Len(k) + 1 /\ Len(k) \in Nat
      /\ \A i \in 1..Len(k) : longer[i] = k[i]
      /\ longer[Len(k) + 1] = y
  OBVIOUS
<1>2. Window \in Nat /\ Window >= 1
  BY LimitAssumption
<1>3. CASE Len(longer) > Window
  <2>1. Pushed(k, y) = Tail(longer)
    BY <1>3 DEF Pushed
  <2> HIDE DEF longer
  <2>2. longer # <<>>
    BY <1>1
  <2>3. /\ Tail(longer) \in Seq(EventId) /\ Len(Tail(longer)) = Len(k)
        /\ \A i \in 1..Len(k) : Tail(longer)[i] = longer[i + 1]
    BY <1>1, <2>2
  <2>4. \A i \in 1..Len(k) : longer[i + 1] = IF i + 1 <= Len(k) THEN k[i + 1] ELSE y
    BY <1>1
  <2>5. Len(k) >= Window /\ Len(k) >= 1
    BY <1>1, <1>2, <1>3
  <2>6. 1 \in {0, 1}
    OBVIOUS
  <2> QED BY <1>1, <2>1, <2>3, <2>4, <2>5, <2>6
<1>4. CASE ~(Len(longer) > Window)
  <2>1. Pushed(k, y) = longer
    BY <1>4 DEF Pushed
  <2> HIDE DEF longer
  <2>2. \A i \in 1..(Len(k) + 1) : longer[i] = IF i + 0 <= Len(k) THEN k[i + 0] ELSE y
    BY <1>1
  <2> QED BY <1>1, <2>1, <2>2
<1> QED
  BY <1>3, <1>4

\* A window that holds ids of one ledger only has room for one more of that ledger.
LEMMA RoomForLedger ==
    ASSUME WindowFits, NEW k \in Seq(EventId), WindowShape(k), NEW l \in Nat,
           \A i \in DOMAIN k : Event[k[i]].ledger = l,
           NEW y \in EventId, Event[y].ledger = l, y \notin ToSet(k)
    PROVE  Len(k) < Window
<1> DEFINE n == Len(k)
           f == [i \in 1..(n + 1) |-> IF i <= n THEN k[i] ELSE y]
<1>1. n \in Nat /\ DOMAIN k = 1..n /\ \A i \in 1..n : k[i] \in EventId
  OBVIOUS
<1>2. f \in [1..(n + 1) -> OfLedger(l)]
  BY <1>1 DEF OfLedger
<1>3. \A i, j \in 1..(n + 1) : f[i] = f[j] => i = j
  <2>1. \A i \in 1..n : k[i] # y
    BY <1>1 DEF ToSet
  <2>2. \A i, j \in 1..n : k[i] = k[j] => i = j
    BY <1>1 DEF WindowShape
  <2> HIDE DEF n
  <2> QED BY <1>1, <2>1, <2>2
<1>4. f \in Injection(1..(n + 1), OfLedger(l))
  <2>1. DOMAIN f = 1..(n + 1)
    OBVIOUS
  <2> HIDE DEF f
  <2> QED BY <1>2, <1>3, <2>1 DEF Injection, IsInjective
<1>5. IsFiniteSet(OfLedger(l))
  <2>1. IsFiniteSet(1..Len(Event))
    BY EventFacts, FS_Interval
  <2>2. OfLedger(l) \in SUBSET (1..Len(Event))
    BY DEF OfLedger, EventId
  <2> QED BY <2>1, <2>2, FS_Subset
<1>6. Cardinality(1..(n + 1)) <= Cardinality(OfLedger(l))
  <2> HIDE DEF f
  <2> QED BY <1>4, <1>5, FS_Injection
<1>7. Cardinality(1..(n + 1)) = n + 1
  <2> HIDE DEF n
  <2> QED BY <1>1, FS_Interval
<1>8. Cardinality(OfLedger(l)) \in Nat /\ Cardinality(OfLedger(l)) <= Window
  BY <1>5, FS_CardinalityType DEF WindowFits
<1> HIDE DEF n
<1>9. n < Window
  BY <1>1, <1>6, <1>7, <1>8, LimitAssumption
<1> QED
  BY <1>9 DEF n

-----------------------------------------------------------------------------
\* One iteration of the loop of loadState.
AddOne(q, e) == IF e \in ToSet(q) THEN q ELSE Append(q, e)

\* A set that can be appended to keeps its ids, and none of them twice.
LEMMA AddOneFacts ==
    ASSUME NEW q \in Seq(EventId), WindowShape(q), NEW e \in EventId
    PROVE  /\ AddOne(q, e) \in Seq(EventId)
           /\ WindowShape(AddOne(q, e))
           /\ ToSet(q) \subseteq ToSet(AddOne(q, e))
<1>1. CASE e \in ToSet(q)
  BY <1>1 DEF AddOne
<1>2. CASE e \notin ToSet(q)
  <2> DEFINE r == Append(q, e)
  <2>1. /\ r \in Seq(EventId) /\ DOMAIN r = 1..(Len(q) + 1) /\ Len(q) \in Nat
        /\ DOMAIN q = 1..Len(q) /\ r[Len(q) + 1] = e
        /\ \A i \in 1..Len(q) : r[i] = q[i]
    OBVIOUS
  <2> HIDE DEF r
  <2>2. ToSet(q) \subseteq ToSet(r)
    BY <2>1 DEF ToSet
  <2>3. \A i \in 1..Len(q) : q[i] # e
    BY <1>2, <2>1 DEF ToSet
  <2>4. WindowShape(r)
    BY <2>1, <2>3 DEF WindowShape
  <2> QED BY <1>2, <2>1, <2>2, <2>4 DEF AddOne, r
<1> QED
  BY <1>1, <1>2

\* The loop of loadState, as a function of the number of its iterations.
IsLoop(g, known, read, m) ==
    /\ g \in [0..m -> Seq(EventId)]
    /\ g[0] = known
    /\ \A n \in 1..m : g[n] = AddOne(g[n - 1], read[n])

\* The loop runs to any number of iterations.
LEMMA LoopExists ==
    ASSUME NEW known \in Seq(EventId), NEW read \in Seq(EventId)
    PROVE  \A m \in 0..Len(read) : \E g : IsLoop(g, known, read, m)
<1> DEFINE Bad == {m \in 0..Len(read) : ~ \E g : IsLoop(g, known, read, m)}
<1> SUFFICES ASSUME Bad # {} PROVE FALSE
  OBVIOUS
<1>1. Bad \in SUBSET Nat
  OBVIOUS
<1>2. PICK m \in Bad : \A x \in Bad : m <= x
  <2> HIDE DEF Bad
  <2> QED BY <1>1, LeastExists
<1>3. m \in 0..Len(read) /\ Len(read) \in Nat
  OBVIOUS
<1>4. CASE m = 0
  <2> DEFINE g == [n \in 0..0 |-> known]
  <2>1. IsLoop(g, known, read, 0)
    <3>1. g \in [0..0 -> Seq(EventId)] /\ g[0] = known /\ \A n \in 1..0 : FALSE
      OBVIOUS
    <3> HIDE DEF g
    <3> QED BY <3>1 DEF IsLoop
  <2> QED BY <1>4, <2>1
<1>5. CASE m # 0
  <2>1. m - 1 \in 0..Len(read) /\ m - 1 \notin Bad
    BY <1>2, <1>3, <1>5
  <2>2. PICK h : IsLoop(h, known, read, m - 1)
    BY <2>1
  <2> DEFINE g == [n \in 0..m |-> IF n = m THEN AddOne(h[m - 1], read[m]) ELSE h[n]]
  <2>3. /\ h \in [0..(m - 1) -> Seq(EventId)] /\ h[0] = known
        /\ \A n \in 1..(m - 1) : h[n] = AddOne(h[n - 1], read[n])
    BY <2>2 DEF IsLoop
  <2>4. h[m - 1] \in Seq(EventId) /\ read[m] \in EventId
    BY <1>3, <1>5, <2>3
  <2>5. AddOne(h[m - 1], read[m]) \in Seq(EventId)
    BY <2>4 DEF AddOne
  <2>6. g \in [0..m -> Seq(EventId)]
    BY <1>3, <2>3, <2>5
  <2>7. g[0] = known
    BY <1>3, <1>5, <2>3
  <2>8. \A n \in 0..(m - 1) : g[n] = h[n]
    BY <1>3
  <2>9. g[m] = AddOne(h[m - 1], read[m])
    BY <1>3
  <2> HIDE DEF g
  <2>10. ASSUME NEW n \in 1..m PROVE g[n] = AddOne(g[n - 1], read[n])
    <3>1. n - 1 \in 0..(m - 1) /\ (n = m \/ n \in 1..(m - 1))
      BY <1>3
    <3>2. CASE n = m
      BY <2>8, <2>9, <3>1, <3>2
    <3>3. CASE n \in 1..(m - 1)
      <4>1. n \in 0..(m - 1)
        BY <3>3
      <4> QED BY <2>3, <2>8, <3>1, <3>3, <4>1
    <3> QED BY <3>1, <3>2, <3>3
  <2>11. IsLoop(g, known, read, m)
    BY <2>6, <2>7, <2>10 DEF IsLoop
  <2> QED BY <1>3, <2>11
<1> QED
  BY <1>4, <1>5

\* loadState keeps the ids of the process, in a set without duplicates.
LEMMA AddAllFacts ==
    ASSUME NEW known \in Seq(EventId), WindowShape(known), NEW read \in Seq(EventId)
    PROVE  /\ AddAll(known, read) \in Seq(EventId)
           /\ WindowShape(AddAll(known, read))
           /\ ToSet(known) \subseteq ToSet(AddAll(known, read))
<1> DEFINE N == Len(read)
           Body(f) == [n \in 0..N |-> IF n = 0 THEN known
                                      ELSE IF read[n] \in ToSet(f[n - 1]) THEN f[n - 1]
                                      ELSE Append(f[n - 1], read[n])]
           added == CHOOSE f : f = Body(f)
<1>0. N \in Nat
  OBVIOUS
<1>1. AddAll(known, read) = added[N]
  BY DEF AddAll
<1>2. \E f : f = Body(f)
  <2>1. PICK g : IsLoop(g, known, read, N)
    <3>1. N \in 0..Len(read)
      BY <1>0
    <3> QED BY <3>1, LoopExists
  <2>2. g \in [0..N -> Seq(EventId)] /\ g[0] = known
          /\ \A n \in 1..N : g[n] = AddOne(g[n - 1], read[n])
    BY <2>1 DEF IsLoop
  <2>3. \A n \in 0..N : g[n] = Body(g)[n]
    <3> TAKE n \in 0..N
    <3>1. CASE n = 0
      BY <2>2, <3>1
    <3>2. CASE n # 0
      <4>1. n \in 1..N
        BY <1>0, <3>2
      <4> QED BY <2>2, <3>2, <4>1 DEF AddOne
    <3> QED BY <3>1, <3>2
  <2>4. Body(g) = [n \in 0..N |-> Body(g)[n]]
    OBVIOUS
  <2>5. g = Body(g)
    <3> HIDE DEF Body
    <3> QED BY <2>2, <2>3, <2>4
  <2> QED BY <2>5
<1>3. added = Body(added)
  <2> HIDE DEF Body
  <2> QED BY <1>2
<1>4. added[0] = known /\ \A n \in 1..N : added[n] = AddOne(added[n - 1], read[n])
  <2> HIDE DEF added
  <2> SUFFICES ASSUME NEW h, h = Body(h)
               PROVE  h[0] = known /\ \A n \in 1..N : h[n] = AddOne(h[n - 1], read[n])
    BY <1>3
  <2>1. \A n \in 0..N : h[n] = Body(h)[n]
    OBVIOUS
  <2>2. \A n \in 0..N : h[n] = IF n = 0 THEN known
                               ELSE IF read[n] \in ToSet(h[n - 1]) THEN h[n - 1]
                               ELSE Append(h[n - 1], read[n])
    BY <2>1, Zenon
  <2>3. 0 \in 0..N /\ \A n \in 1..N : n \in 0..N /\ n # 0
    BY <1>0
  <2>4. h[0] = known
    BY <2>2, <2>3, Zenon
  <2>5. ASSUME NEW n \in 1..N PROVE h[n] = AddOne(h[n - 1], read[n])
    BY <2>2, <2>3, Zenon DEF AddOne
  <2> QED BY <2>4, <2>5
<1> HIDE DEF added, Body
<1> DEFINE Good(q) == q \in Seq(EventId) /\ WindowShape(q) /\ ToSet(known) \subseteq ToSet(q)
           Bad == {n \in 0..N : ~Good(added[n])}
<1>5. Bad = {}
  <2> SUFFICES ASSUME Bad # {} PROVE FALSE
    OBVIOUS
  <2>1. Bad \in SUBSET Nat
    BY <1>0
  <2>2. PICK n \in Bad : \A x \in Bad : n <= x
    <3> HIDE DEF Bad
    <3> QED BY <2>1, LeastExists
  <2>3. n # 0
    BY <1>4
  <2>4. n - 1 \in 0..N /\ n \in 1..N /\ n - 1 \notin Bad
    BY <1>0, <2>2, <2>3
  <2>5. Good(added[n - 1]) /\ read[n] \in EventId
    BY <2>4
  <2>6. Good(AddOne(added[n - 1], read[n]))
    BY <2>5, AddOneFacts
  <2> HIDE DEF Good
  <2> QED BY <1>4, <2>4, <2>6
<1>6. Good(added[N])
  <2> HIDE DEF Good
  <2> QED BY <1>0, <1>5
<1> QED
  BY <1>1, <1>6

-----------------------------------------------------------------------------
\* What each step does to the invariant of a poll.

\* An empty sequence has no elements.
LEMMA EmptyFacts == <<>> \in Seq(EventId) /\ ToSet(<<>>) = {} /\ DOMAIN <<>> = {}
BY DEF ToSet

\* The elements of a sequence of events are events, and an element has an index.
LEMMA ElementFacts ==
    ASSUME NEW q \in Seq(EventId)
    PROVE  /\ Len(q) \in Nat /\ DOMAIN q = 1..Len(q)
           /\ \A i \in 1..Len(q) : q[i] \in ToSet(q) /\ q[i] \in EventId
           /\ \A e \in ToSet(q) : e \in EventId /\ \E i \in 1..Len(q) : q[i] = e
           /\ q # <<>> => Len(q) >= 1 /\ q[1] \in ToSet(q)
BY DEF ToSet

\* The poll goes on, with nothing fetched or remembered, or fewer events are spent.
LEMMA MoveKeeps ==
    ASSUME NEW at, NEW to, NEW s, NEW k, NEW b, NEW spent, NEW after,
           PollInv(at, s, k, b, spent), after \in SUBSET spent, to # "save" \/ to = at,
           b # <<>> => to \in {"persist", "read", "event", "save"}
    PROVE  PollInv(to, s, k, b, after)
<1>1. after \in SUBSET EventId /\ \A e \in after : e \in spent
  BY DEF PollInv
<1>2. SpentIsKnown(s, k, b, after)
  BY <1>1 DEF PollInv, SpentIsKnown
<1>3. SaveIsFirst(to, k, b, after)
  BY <1>1 DEF PollInv, SaveIsFirst
<1> QED
  BY <1>1, <1>2, <1>3 DEF PollInv, PageShape

\* Without a page and without a spent event, any window without duplicates will do.
LEMMA NothingSpent ==
    ASSUME NEW at, at # "save", NEW s \in Nat, NEW k \in Seq(EventId), WindowShape(k)
    PROVE  PollInv(at, s, k, <<>>, {})
BY EmptyFacts DEF PollInv, PageShape, SpentIsKnown, SaveIsFirst

\* A page is fetched and the start ledger moves to the latest one.
LEMMA FetchKeeps ==
    ASSUME NEW s, NEW k, NEW b, NEW spent, NEW t \in Nat, t >= s,
           PollInv("fetch", s, k, b, spent),
           NEW p \in Seq(EventId), \A i, j \in DOMAIN p : i < j => p[i] < p[j],
           \A e \in ToSet(p) : s <= Event[e].ledger /\ Event[e].ledger <= t
    PROVE  PollInv("persist", t, k, p, spent)
<1>1. b = <<>> /\ s \in Nat /\ k \in Seq(EventId) /\ spent \in SUBSET EventId
  BY DEF PollInv, PageShape
<1>3. \A e \in EventId : Event[e].ledger \in Nat
  BY EventFacts
<1>4. \A e \in ToSet(p) : e \in EventId
  BY ElementFacts
<1>5. PageShape("persist", t, p)
  BY DEF PageShape
<1>6. \A e \in spent : Event[e].ledger <= s /\ Event[e].ledger \in Nat /\ e \in EventId
  BY <1>1, <1>3 DEF PollInv, SpentIsKnown
<1>7. \A e \in spent : e \in ToSet(p) \/ Event[e].ledger = t => Event[e].ledger = s
  BY <1>1, <1>6
<1>8. SpentIsKnown(t, k, p, spent)
  <2> SUFFICES ASSUME NEW e \in spent
               PROVE  /\ Event[e].ledger <= t
                      /\ e \in ToSet(p) \/ Event[e].ledger = t => e \in ToSet(k) /\ Youngest(k, e)
                      /\ e \in ToSet(p) => \A f \in ToSet(p) : f <= e => Event[f].ledger = Event[e].ledger
                      /\ Event[e].ledger = t => \A f \in ToSet(p) : Event[f].ledger = t
    BY DEF SpentIsKnown
  <2>1. Event[e].ledger <= t
    BY <1>1, <1>6
  <2>2. Event[e].ledger = s => e \in ToSet(k) /\ Youngest(k, e)
    BY DEF PollInv, SpentIsKnown
  <2>3. ASSUME e \in ToSet(p), NEW f \in ToSet(p), f <= e PROVE Event[f].ledger = Event[e].ledger
    <3>1. f \in EventId /\ s <= Event[f].ledger /\ Event[f].ledger \in Nat
      BY <1>3, <1>4
    <3>2. Event[f].ledger <= Event[e].ledger
      BY <1>6, <2>3, <3>1, EventFacts
    <3>3. Event[e].ledger = s
      BY <1>7, <2>3
    <3> QED BY <1>1, <3>1, <3>2, <3>3
  <2>4. ASSUME Event[e].ledger = t, NEW f \in ToSet(p) PROVE Event[f].ledger = t
    <3>1. t = s
      BY <1>7, <2>4
    <3>2. f \in EventId /\ s <= Event[f].ledger /\ Event[f].ledger <= t /\ Event[f].ledger \in Nat
      BY <1>3, <1>4
    <3> QED BY <3>1, <3>2
  <2> QED BY <1>7, <2>1, <2>2, <2>3, <2>4
<1> QED
  BY <1>1, <1>5, <1>8 DEF PollInv, SaveIsFirst

\* The tail of a page: the same events without its head.
LEMMA TailFacts ==
    ASSUME NEW b \in Seq(EventId), b # <<>>, \A i, j \in DOMAIN b : i < j => b[i] < b[j]
    PROVE  /\ Tail(b) \in Seq(EventId)
           /\ \A i, j \in DOMAIN Tail(b) : i < j => Tail(b)[i] < Tail(b)[j]
           /\ ToSet(Tail(b)) = ToSet(b) \ {b[1]}
           /\ \A e \in ToSet(Tail(b)) : e > b[1]
<1> DEFINE n == Len(b)
           r == Tail(b)
<1>1. n \in Nat /\ n >= 1 /\ DOMAIN b = 1..n /\ \A i \in 1..n : b[i] \in EventId /\ b[i] \in Int
  BY ElementFacts DEF EventId
<1>2. /\ r \in Seq(EventId) /\ Len(r) = n - 1 /\ DOMAIN r = 1..(n - 1)
      /\ \A i \in 1..(n - 1) : r[i] = b[i + 1]
  OBVIOUS
<1> HIDE DEF n, r
<1>3. \A i, j \in 1..n : i < j => b[i] < b[j]
  BY <1>1
<1>4. \A i, j \in DOMAIN r : i < j => r[i] < r[j]
  BY <1>1, <1>2, <1>3
<1>5. \A i \in 1..(n - 1) : r[i] \in ToSet(b) /\ r[i] > b[1]
  <2> TAKE i \in 1..(n - 1)
  <2>1. i + 1 \in 1..n /\ 1 \in 1..n /\ 1 < i + 1
    BY <1>1
  <2> QED BY <1>1, <1>2, <1>3, <2>1 DEF ToSet
<1>6. \A i \in 1..n : i = 1 \/ b[i] \in ToSet(r)
  <2> TAKE i \in 1..n
  <2> SUFFICES ASSUME i # 1 PROVE b[i] \in ToSet(r)
    OBVIOUS
  <2>1. i - 1 \in 1..(n - 1) /\ r[i - 1] = b[i]
    BY <1>1, <1>2
  <2> QED BY <1>2, <2>1 DEF ToSet
<1>7. \A e \in ToSet(r) : e \in ToSet(b) /\ e > b[1] /\ e # b[1]
  <2> TAKE e \in ToSet(r)
  <2>1. PICK i \in 1..(n - 1) : e = r[i]
    BY <1>2 DEF ToSet
  <2> QED BY <1>1, <1>2, <1>5, <2>1
<1>8. ToSet(r) = ToSet(b) \ {b[1]}
  <2>1. \A e \in ToSet(b) : e = b[1] \/ e \in ToSet(r)
    BY <1>1, <1>6 DEF ToSet
  <2> QED BY <1>7, <2>1
<1> QED
  BY <1>2, <1>4, <1>7, <1>8 DEF r

\* The head of the page leaves it, its id being in the window: it was skipped, or
\* saved, and then it is spent.
LEMMA TakeKeeps ==
    ASSUME NEW at \in {"event", "save"}, NEW s, NEW k, NEW b, NEW spent, NEW after,
           PollInv(at, s, k, b, spent), b # <<>>, b[1] \in ToSet(k),
           after \in SUBSET (spent \cup {b[1]}),
           at = "event" => after = spent
    PROVE  PollInv("event", s, k, Tail(b), after)
<1> DEFINE r == Tail(b)
           y == b[1]
<1>1. /\ s \in Nat /\ k \in Seq(EventId) /\ b \in Seq(EventId) /\ spent \in SUBSET EventId
      /\ \A i, j \in DOMAIN b : i < j => b[i] < b[j]
      /\ \A e \in ToSet(b) : Event[e].ledger <= s
      /\ WindowShape(k)
  BY DEF PollInv, PageShape
<1>2. /\ r \in Seq(EventId)
      /\ \A i, j \in DOMAIN r : i < j => r[i] < r[j]
      /\ ToSet(r) = ToSet(b) \ {y}
      /\ \A e \in ToSet(r) : e > y
  BY <1>1, TailFacts
<1>3. y \in ToSet(b) /\ y \in EventId /\ y \in Int /\ y \in ToSet(k) /\ Event[y].ledger <= s
  BY <1>1, ElementFacts DEF EventId
<1>4. \A e \in EventId : Event[e].ledger \in Nat /\ e \in Int
  BY EventFacts DEF EventId
<1>5. \A e \in ToSet(b) : e \in EventId
  BY <1>1, ElementFacts
<1> HIDE DEF r, y
<1>6. PageShape("event", s, r)
  BY <1>1, <1>2 DEF PageShape
<1>7. ASSUME y \in after, y \notin spent
      PROVE  Youngest(k, y) /\ (Event[y].ledger = s => \A f \in ToSet(r) : Event[f].ledger = s)
  <2>1. k # <<>> /\ k[Len(k)] = y
    BY <1>7 DEF PollInv, SaveIsFirst, y
  <2>2. \A i \in DOMAIN k : k[i] = y => i = Len(k)
    BY <1>1, <2>1, ElementFacts DEF WindowShape
  <2>3. Youngest(k, y)
    BY <1>1, <2>1, <2>2, ElementFacts DEF Youngest
  <2>4. ASSUME Event[y].ledger = s, NEW f \in ToSet(r) PROVE Event[f].ledger = s
    <3>1. f \in EventId /\ y <= f /\ Event[f].ledger <= s
      BY <1>1, <1>2, <1>3, <1>4, <1>5
    <3>2. Event[y].ledger <= Event[f].ledger
      BY <1>3, <3>1, EventFacts
    <3> QED BY <1>1, <1>4, <2>4, <3>1, <3>2
  <2> QED BY <2>3, <2>4
<1>8. SpentIsKnown(s, k, r, after)
  <2> SUFFICES ASSUME NEW e \in after
               PROVE  /\ Event[e].ledger <= s
                      /\ e \in ToSet(r) \/ Event[e].ledger = s =>
                           e \in ToSet(k) /\ Youngest(k, e)
                      /\ e \in ToSet(r) => \A f \in ToSet(r) : f <= e => Event[f].ledger = Event[e].ledger
                      /\ Event[e].ledger = s => \A f \in ToSet(r) : Event[f].ledger = s
    BY DEF SpentIsKnown
  <2>1. CASE e \in spent
    BY <1>2, <2>1 DEF PollInv, SpentIsKnown
  <2>2. CASE e \notin spent
    <3>1. e = y
      BY <2>2 DEF y
    <3> QED BY <1>2, <1>3, <1>7, <2>2, <3>1
  <2> QED BY <2>1, <2>2
<1>10. after \in SUBSET EventId
  BY <1>1, <1>3 DEF y
<1> QED
  BY <1>1, <1>2, <1>6, <1>8, <1>10 DEF PollInv, SaveIsFirst, r

\* The id of the head of the page enters the window.  Whoever is pushed out is no
\* spent event that can still be met: behind such an event there are only ids of
\* its ledger, and the window has room for those.
LEMMA PushKeeps ==
    ASSUME WindowFits, NEW s, NEW k, NEW b, NEW spent,
           PollInv("event", s, k, b, spent), b # <<>>, b[1] \notin ToSet(k)
    PROVE  PollInv("save", s, Pushed(k, b[1]), b, spent)
<1> DEFINE y == b[1]
           n == Len(k)
           r == Pushed(k, y)
<1>1. /\ s \in Nat /\ k \in Seq(EventId) /\ b \in Seq(EventId) /\ spent \in SUBSET EventId
      /\ \A i, j \in DOMAIN b : i < j => b[i] < b[j]
      /\ \A e \in ToSet(b) : Event[e].ledger <= s
      /\ PageShape("event", s, b) /\ WindowShape(k)
  BY DEF PollInv, PageShape
<1>2. /\ n \in Nat /\ DOMAIN k = 1..n
      /\ \A i \in 1..n : k[i] \in EventId /\ k[i] \in ToSet(k)
      /\ \A e \in ToSet(k) : e \in EventId /\ \E i \in 1..n : k[i] = e
  BY <1>1, ElementFacts
<1>3. /\ y \in ToSet(b) /\ y \in EventId /\ y \notin ToSet(k)
      /\ \A e \in ToSet(b) : e \in EventId
  BY <1>1, ElementFacts
<1>4. \A e \in EventId : Event[e].ledger \in Nat /\ e \in Int
  BY EventFacts DEF EventId
<1>5. \A e \in ToSet(b) : y <= e
  <2> TAKE e \in ToSet(b)
  <2>1. PICK i \in 1..Len(b) : b[i] = e
    BY <1>1, ElementFacts
  <2>2. i = 1 \/ b[1] < b[i]
    BY <1>1, ElementFacts
  <2> QED BY <1>3, <1>4, <2>1, <2>2
<1>6. PICK d \in {0, 1} :
        /\ r \in Seq(EventId)
        /\ Len(r) = n + 1 - d
        /\ \A i \in 1..(n + 1 - d) : r[i] = IF i + d <= n THEN k[i + d] ELSE y
        /\ d = 1 => n >= Window
        /\ n + 1 - d >= 1
  BY <1>1, <1>3, PushedFacts
<1> DEFINE m == n + 1 - d
<1> HIDE DEF y, n, r
<1>7. /\ m \in Nat /\ m >= 1 /\ DOMAIN r = 1..m /\ Len(r) = m
      /\ \A i \in 1..m : r[i] \in ToSet(r)
      /\ \A e \in ToSet(r) : \E i \in 1..m : r[i] = e
  BY <1>2, <1>6, ElementFacts
<1>8. /\ m \in 1..m /\ r[m] = y
      /\ \A i \in 1..m : i # m => i + d \in 1..n /\ r[i] = k[i + d]
      /\ \A i \in 1..n : i > d => i - d \in 1..m /\ i - d # m /\ r[i - d] = k[i]
  BY <1>2, <1>6, <1>7
<1> HIDE DEF m
<1>11. WindowShape(r)
  <2> SUFFICES ASSUME NEW i \in 1..m, NEW j \in 1..m, r[i] = r[j] PROVE i = j
    BY <1>7 DEF WindowShape
  <2>1. CASE i = m \/ j = m
    BY <1>2, <1>3, <1>8, <2>1
  <2>2. CASE i # m /\ j # m
    <3>1. i + d \in 1..n /\ j + d \in 1..n /\ k[i + d] = k[j + d]
      BY <1>8, <2>2
    <3>2. i + d = j + d
      BY <1>1, <1>2, <3>1 DEF WindowShape
    <3> QED BY <1>6, <1>7, <3>2
  <2> QED BY <2>1, <2>2
\* No room is needed when the window holds ids of the ledger of y only.
<1>12. ASSUME d = 1, \A i \in 1..n : Event[k[i]].ledger = Event[y].ledger PROVE FALSE
  <2>1. Len(k) < Window
    BY <1>1, <1>2, <1>3, <1>4, <1>12, RoomForLedger
  <2> QED BY <1>2, <1>6, <1>12, <2>1, LimitAssumption DEF n
<1>13. y \notin spent
  BY <1>3 DEF PollInv, SpentIsKnown, y
<1>14. ASSUME NEW e \in spent, e \in ToSet(b) \/ Event[e].ledger = s
       PROVE  e \in ToSet(r) /\ Youngest(r, e)
  <2>1. e \in EventId /\ e \in ToSet(k) /\ Youngest(k, e)
    BY <1>1, <1>14 DEF PollInv, SpentIsKnown
  <2>2. Event[y].ledger = Event[e].ledger
    <3>1. CASE e \in ToSet(b)
      BY <1>3, <1>5, <3>1 DEF PollInv, SpentIsKnown
    <3>2. CASE Event[e].ledger = s
      BY <1>3, <3>2 DEF PollInv, SpentIsKnown
    <3> QED BY <1>14, <3>1, <3>2
  <2>3. Youngest(k, e)
    BY <2>1
  <2>4. PICK i \in 1..n : k[i] = e
    BY <1>2, <2>1
  <2>5. \A j \in 1..n : i <= j => Event[k[j]].ledger = Event[e].ledger
    BY <1>2, <2>3, <2>4 DEF Youngest
  <2>6. i > d
    <3> SUFFICES ASSUME ~(i > d) PROVE FALSE
      OBVIOUS
    <3>1. d = 1 /\ i = 1
      BY <1>2, <1>6, <2>4
    <3>2. \A j \in 1..n : Event[k[j]].ledger = Event[y].ledger
      BY <1>2, <2>2, <2>5, <3>1
    <3> QED BY <1>12, <3>1, <3>2
  <2>7. e \in ToSet(r)
    BY <1>7, <1>8, <2>4, <2>6
  <2>8. ASSUME NEW g \in 1..m, NEW j \in 1..m, r[g] = e, g <= j
        PROVE  Event[r[j]].ledger = Event[e].ledger
    <3>1. CASE j = m
      BY <1>8, <2>2, <3>1
    <3>2. CASE j # m
      <4>1. g # m
        BY <1>3, <1>8, <2>1, <2>8
      <4>2. g + d \in 1..n /\ k[g + d] = e /\ j + d \in 1..n /\ r[j] = k[j + d] /\ g + d <= j + d
        BY <1>6, <1>7, <1>8, <2>8, <3>2, <4>1
      <4> QED BY <1>2, <2>3, <4>2 DEF Youngest
    <3> QED BY <3>1, <3>2
  <2> QED BY <1>7, <2>7, <2>8 DEF Youngest
<1>15. SpentIsKnown(s, r, b, spent)
  BY <1>14 DEF PollInv, SpentIsKnown
<1>16. SaveIsFirst("save", r, b, spent)
  <2>1. r # <<>>
    BY <1>7, <1>8, EmptyFacts
  <2> QED BY <1>7, <1>8, <1>13, <2>1 DEF SaveIsFirst, y
<1>18. PageShape("save", s, b)
  BY <1>1 DEF PageShape
<1>19. PollInv("save", s, r, b, spent)
  BY <1>1, <1>6, <1>11, <1>15, <1>16, <1>18 DEF PollInv
<1> QED
  BY <1>19 DEF r, y

-----------------------------------------------------------------------------
\* How often a process may have saved an event with n faults: as long as it has not
\* loaded its state, one of them is its own (it has polled after a rejected load, or
\* it has been restarted).
Limit(ld, n) == IF ld THEN n + 1 ELSE n

\* The events that were saved that often.  A process that is about to load its state
\* needs none: the load is done, or it rejects and is one fault more.
Spent(at, ld, count, n) ==
    IF ~ld /\ at = "idle" THEN {} ELSE {e \in EventId : count[e] >= Limit(ld, n)}

Place == {"idle", "fetch", "persist", "read", "event", "save", "done"}

\* The invariant of one process, which has saved each event so often: its poll knows
\* the spent events that it can meet.
ProcessInv(at, ld, s, k, b, count, n) ==
    /\ \A e \in EventId : count[e] <= Limit(ld, n)
    /\ PollInv(at, s, k, b, Spent(at, ld, count, n))

\* The inductive invariant.  Nothing is said of what the replicas have left in Redis.
ReplayInv ==
    /\ WindowFits
    /\ ledger \in Nat
    /\ redisCursor \in Nat /\ redisCursor <= ledger
    /\ redisIds \in Seq(EventId)
    /\ spc \in [Worker -> Place]
    /\ loaded \in [Worker -> BOOLEAN]
    /\ startLedger \in [Worker -> Nat]
    /\ ids \in [Worker -> Seq(EventId)]
    /\ batch \in [Worker -> Seq(EventId)]
    /\ saves \in [Worker -> [EventId -> Nat]]
    /\ faults \in Nat
    /\ \A w \in Worker : startLedger[w] <= ledger
    /\ \A w \in Worker : ProcessInv(spc[w], loaded[w], startLedger[w], ids[w], batch[w],
                                    saves[w], faults)

\* What the invariant says of the process w.
LEMMA InvFacts ==
    ASSUME ReplayInv, NEW w \in Worker
    PROVE  /\ spc[w] \in Place /\ loaded[w] \in BOOLEAN /\ startLedger[w] \in Nat
           /\ ids[w] \in Seq(EventId) /\ batch[w] \in Seq(EventId)
           /\ ledger \in Nat /\ startLedger[w] <= ledger
           /\ redisCursor \in Nat /\ redisCursor <= ledger /\ redisIds \in Seq(EventId)
           /\ saves[w] \in [EventId -> Nat] /\ faults \in Nat
           /\ \A e \in EventId : saves[w][e] <= Limit(loaded[w], faults)
           /\ PollInv(spc[w], startLedger[w], ids[w], batch[w],
                      Spent(spc[w], loaded[w], saves[w], faults))
           /\ WindowShape(ids[w])
           /\ WindowFits
BY DEF ReplayInv, ProcessInv, PollInv

\* A fault of another process only takes events from the spent ones.
LEMMA MoreFaults ==
    ASSUME NEW at, NEW ld, NEW s, NEW k, NEW b, NEW count \in [EventId -> Nat],
           NEW n \in Nat, NEW m \in Nat, m >= n, ProcessInv(at, ld, s, k, b, count, n)
    PROVE  ProcessInv(at, ld, s, k, b, count, m)
<1>1. Limit(ld, n) \in Nat /\ Limit(ld, m) \in Nat /\ Limit(ld, n) <= Limit(ld, m)
  BY DEF Limit
<1>2. \A e \in EventId : count[e] <= Limit(ld, m)
  BY <1>1 DEF ProcessInv
<1>3. Spent(at, ld, count, m) \in SUBSET Spent(at, ld, count, n)
  BY <1>1 DEF Spent
<1>4. PollInv(at, s, k, b, Spent(at, ld, count, n))
  BY DEF ProcessInv
<1>5. b # <<>> => at \in {"persist", "read", "event", "save"}
  BY <1>4 DEF PollInv, PageShape
<1>6. PollInv(at, s, k, b, Spent(at, ld, count, m))
  BY <1>3, <1>4, <1>5, MoveKeeps
<1> QED
  BY <1>2, <1>6 DEF ProcessInv

\* A step of the process w: what it must leave behind.
LEMMA ProcessStep ==
    ASSUME ReplayInv, NEW w \in Worker,
           NEW at \in Place, NEW ld \in BOOLEAN, NEW s \in Nat, s <= ledger,
           NEW k \in Seq(EventId), NEW b \in Seq(EventId), NEW count \in [EventId -> Nat],
           spc' = [spc EXCEPT ![w] = at], loaded' = [loaded EXCEPT ![w] = ld],
           startLedger' = [startLedger EXCEPT ![w] = s], ids' = [ids EXCEPT ![w] = k],
           batch' = [batch EXCEPT ![w] = b], saves' = [saves EXCEPT ![w] = count],
           ledger' = ledger, redisCursor' \in Nat, redisCursor' <= ledger,
           redisIds' \in Seq(EventId), faults' \in Nat, faults' >= faults,
           ProcessInv(at, ld, s, k, b, count, faults')
    PROVE  ReplayInv'
<1>1. /\ spc' \in [Worker -> Place] /\ loaded' \in [Worker -> BOOLEAN]
      /\ startLedger' \in [Worker -> Nat] /\ ids' \in [Worker -> Seq(EventId)]
      /\ batch' \in [Worker -> Seq(EventId)] /\ saves' \in [Worker -> [EventId -> Nat]]
  BY DEF ReplayInv
<1>2. /\ spc'[w] = at /\ loaded'[w] = ld /\ startLedger'[w] = s /\ ids'[w] = k
      /\ batch'[w] = b /\ saves'[w] = count
  BY DEF ReplayInv
<1>3. ASSUME NEW v \in Worker
      PROVE  /\ startLedger'[v] <= ledger'
             /\ ProcessInv(spc'[v], loaded'[v], startLedger'[v], ids'[v], batch'[v],
                           saves'[v], faults')
  <2>1. CASE v = w
    BY <1>2, <2>1
  <2>2. CASE v # w
    <3>1. /\ spc'[v] = spc[v] /\ loaded'[v] = loaded[v] /\ startLedger'[v] = startLedger[v]
          /\ ids'[v] = ids[v] /\ batch'[v] = batch[v] /\ saves'[v] = saves[v]
      BY <2>2 DEF ReplayInv
    <3>2. /\ startLedger[v] <= ledger /\ saves[v] \in [EventId -> Nat] /\ faults \in Nat
          /\ ProcessInv(spc[v], loaded[v], startLedger[v], ids[v], batch[v], saves[v], faults)
      BY DEF ReplayInv
    <3>3. ProcessInv(spc[v], loaded[v], startLedger[v], ids[v], batch[v], saves[v], faults')
      BY <3>2, MoreFaults
    <3> QED BY <3>1, <3>2, <3>3
  <2> QED BY <2>1, <2>2
<1>4. WindowFits' /\ ledger' \in Nat
  BY DEF ReplayInv, WindowFits
<1> QED
  BY <1>1, <1>3, <1>4 DEF ReplayInv

\* What a step leaves alone has the form that ProcessStep asks for.
LEMMA Unmoved ==
    ASSUME ReplayInv, NEW w \in Worker
    PROVE  /\ spc = [spc EXCEPT ![w] = spc[w]]
           /\ loaded = [loaded EXCEPT ![w] = loaded[w]]
           /\ startLedger = [startLedger EXCEPT ![w] = startLedger[w]]
           /\ ids = [ids EXCEPT ![w] = ids[w]]
           /\ batch = [batch EXCEPT ![w] = batch[w]]
           /\ saves = [saves EXCEPT ![w] = saves[w]]
BY DEF ReplayInv

\* Saved once less often than allowed, no event is spent.
LEMMA NoneSpent ==
    ASSUME NEW at, NEW ld \in BOOLEAN, NEW count \in [EventId -> Nat], NEW n \in Nat,
           \A e \in EventId : count[e] + 1 <= Limit(ld, n)
    PROVE  /\ \A e \in EventId : count[e] <= Limit(ld, n)
           /\ Spent(at, ld, count, n) = {}
<1>1. Limit(ld, n) \in Nat
  BY DEF Limit
<1>2. \A e \in EventId : count[e] <= Limit(ld, n) /\ ~(count[e] >= Limit(ld, n))
  BY <1>1
<1> QED
  BY <1>2 DEF Spent

\* A process without a page and without a spent event.
LEMMA CleanProcess ==
    ASSUME NEW at, at # "save", NEW ld \in BOOLEAN, NEW s \in Nat,
           NEW k \in Seq(EventId), WindowShape(k),
           NEW count \in [EventId -> Nat], NEW n \in Nat,
           \A e \in EventId : count[e] + 1 <= Limit(ld, n)
    PROVE  ProcessInv(at, ld, s, k, <<>>, count, n)
BY NoneSpent, NothingSpent DEF ProcessInv

\* loadState, also when it rejects.
LEMMA LoadStep ==
    ASSUME ReplayInv, NEW w \in Worker, LoadState(w) \/ LoadFails(w) PROVE ReplayInv'
<1> DEFINE t == IF redisCursor > startLedger[w] THEN redisCursor ELSE startLedger[w]
           s == startLedger[w]
           k == ids[w]
           n == faults
<1>1. /\ spc[w] = "idle" /\ spc' = [spc EXCEPT ![w] = "fetch"]
      /\ batch' = batch /\ ledger' = ledger /\ redisCursor' = redisCursor
      /\ redisIds' = redisIds /\ saves' = saves
  BY DEF LoadState, LoadFails, Goto, redis
<1>2. "fetch" \in Place /\ t \in Nat /\ t <= ledger /\ s \in Nat /\ s <= ledger
  BY InvFacts DEF Place
<1>3. /\ k \in Seq(EventId) /\ WindowShape(k) /\ redisIds \in Seq(EventId)
      /\ PollInv("idle", s, k, batch[w], Spent("idle", loaded[w], saves[w], n))
      /\ saves[w] \in [EventId -> Nat] /\ n \in Nat /\ loaded[w] \in BOOLEAN
      /\ \A e \in EventId : saves[w][e] <= Limit(loaded[w], n)
  BY <1>1, InvFacts
<1>4. batch[w] = <<>> /\ <<>> \in Seq(EventId)
  BY <1>3, EmptyFacts DEF PollInv, PageShape
<1>5. CASE loaded[w] /\ faults' = faults /\ UNCHANGED <<loaded, startLedger, ids>>
  <2>1. Spent("fetch", loaded[w], saves[w], n) = Spent("idle", loaded[w], saves[w], n)
    BY <1>5 DEF Spent
  <2>2. PollInv("fetch", s, k, batch[w], Spent("fetch", loaded[w], saves[w], n))
    <3> DEFINE sp == Spent("idle", loaded[w], saves[w], n)
    <3>1. sp \in SUBSET sp /\ "fetch" # "save"
      OBVIOUS
    <3> HIDE DEF sp
    <3> QED BY <1>3, <1>4, <2>1, <3>1, MoveKeeps DEF sp
  <2>3. ProcessInv("fetch", loaded[w], s, k, batch[w], saves[w], faults)
    BY <1>3, <2>2 DEF ProcessInv
  <2>4. faults >= faults
    BY <1>3
  <2> QED
    <3>1. /\ spc' = [spc EXCEPT ![w] = "fetch"] /\ loaded' = [loaded EXCEPT ![w] = loaded[w]]
          /\ startLedger' = [startLedger EXCEPT ![w] = startLedger[w]] /\ ids' = [ids EXCEPT ![w] = ids[w]]
          /\ batch' = [batch EXCEPT ![w] = batch[w]] /\ saves' = [saves EXCEPT ![w] = saves[w]]
      BY <1>1, <1>2, <1>5, <2>3, <2>4, Unmoved
    <3>2. /\ "fetch" \in Place /\ loaded[w] \in BOOLEAN /\ startLedger[w] \in Nat /\ startLedger[w] <= ledger
          /\ ids[w] \in Seq(EventId) /\ batch[w] \in Seq(EventId) /\ saves[w] \in [EventId -> Nat]
          /\ ledger' = ledger /\ redisCursor' \in Nat /\ redisCursor' <= ledger
          /\ redisIds' \in Seq(EventId) /\ faults' \in Nat /\ faults' >= faults
      BY <1>1, <1>2, <1>5, <2>3, <2>4, InvFacts
    <3>3. ProcessInv("fetch", loaded[w], startLedger[w], ids[w], batch[w], saves[w], faults')
      BY <1>1, <1>2, <1>5, <2>3, <2>4
    <3> QED BY <3>1, <3>2, <3>3, ProcessStep
<1>6. CASE /\ ~loaded[w] /\ faults' = faults
           /\ startLedger' = [startLedger EXCEPT ![w] = t]
           /\ loaded' = [loaded EXCEPT ![w] = TRUE]
           /\ ids' = [ids EXCEPT ![w] = AddAll(k, redisIds)]
  <2> DEFINE q == AddAll(k, redisIds)
  <2>1. q \in Seq(EventId) /\ WindowShape(q)
    BY <1>3, AddAllFacts
  <2>2. ids' = [ids EXCEPT ![w] = q]
    BY <1>6
  <2> HIDE DEF q, t
  <2>3. \A e \in EventId : saves[w][e] + 1 <= Limit(TRUE, n)
    BY <1>3, <1>6 DEF Limit
  <2>4. ProcessInv("fetch", TRUE, t, q, <<>>, saves[w], faults)
    <3>1. "fetch" # "save" /\ TRUE \in BOOLEAN
      OBVIOUS
    <3> QED BY <1>2, <1>3, <2>1, <2>3, <3>1, CleanProcess
  <2>5. faults >= faults /\ TRUE \in BOOLEAN
    BY <1>3
  <2>6. batch' = [batch EXCEPT ![w] = <<>>] /\ saves' = [saves EXCEPT ![w] = saves[w]]
    BY <1>1, <1>4, Unmoved
  <2> QED BY <1>1, <1>2, <1>3, <1>4, <1>6, <2>1, <2>2, <2>4, <2>5, <2>6, InvFacts, ProcessStep
<1>7. ASSUME ~loaded[w], faults' = faults + 1, UNCHANGED <<loaded, ids>>,
             NEW x \in {s, t}, startLedger' = [startLedger EXCEPT ![w] = x]
      PROVE  ReplayInv'
  <2>1. x \in Nat /\ x <= ledger
    BY <1>2
  <2> HIDE DEF t
  <2>2. \A e \in EventId : saves[w][e] + 1 <= Limit(loaded[w], faults')
    BY <1>3, <1>7 DEF Limit
  <2>3. faults' \in Nat /\ faults' >= faults
    BY <1>3, <1>7
  <2>4. ProcessInv("fetch", loaded[w], x, k, <<>>, saves[w], faults')
    <3>1. "fetch" # "save"
      OBVIOUS
    <3> QED BY <1>3, <2>1, <2>2, <2>3, <3>1, CleanProcess
  <2>5. /\ batch' = [batch EXCEPT ![w] = <<>>] /\ saves' = [saves EXCEPT ![w] = saves[w]]
        /\ loaded' = [loaded EXCEPT ![w] = loaded[w]] /\ ids' = [ids EXCEPT ![w] = k]
    BY <1>1, <1>4, <1>7, Unmoved
  <2> QED
    <3>1. /\ spc' = [spc EXCEPT ![w] = "fetch"] /\ loaded' = [loaded EXCEPT ![w] = loaded[w]]
          /\ startLedger' = [startLedger EXCEPT ![w] = x] /\ ids' = [ids EXCEPT ![w] = ids[w]]
          /\ batch' = [batch EXCEPT ![w] = <<>>] /\ saves' = [saves EXCEPT ![w] = saves[w]]
      BY <1>1, <1>2, <1>3, <1>4, <1>7, <2>1, <2>3, <2>4, <2>5, Unmoved
    <3>2. /\ "fetch" \in Place /\ loaded[w] \in BOOLEAN /\ x \in Nat /\ x <= ledger
          /\ ids[w] \in Seq(EventId) /\ <<>> \in Seq(EventId) /\ saves[w] \in [EventId -> Nat]
          /\ ledger' = ledger /\ redisCursor' \in Nat /\ redisCursor' <= ledger
          /\ redisIds' \in Seq(EventId) /\ faults' \in Nat /\ faults' >= faults
      BY <1>1, <1>2, <1>3, <1>4, <1>7, <2>1, <2>3, <2>4, <2>5, InvFacts
    <3>3. ProcessInv("fetch", loaded[w], x, ids[w], <<>>, saves[w], faults')
      BY <1>1, <1>2, <1>3, <1>4, <1>7, <2>1, <2>3, <2>4, <2>5
    <3> QED BY <3>1, <3>2, <3>3, ProcessStep
<1>8. CASE LoadState(w)
  BY <1>5, <1>6, <1>8 DEF LoadState
<1>9. CASE LoadFails(w)
  <2>1. /\ ~loaded[w] /\ faults' = faults + 1 /\ UNCHANGED <<loaded, ids>>
        /\ startLedger' = startLedger \/ startLedger' = [startLedger EXCEPT ![w] = t]
    BY <1>9 DEF LoadFails, Fault
  <2>2. startLedger = [startLedger EXCEPT ![w] = s]
    BY Unmoved
  <2> HIDE DEF t
  <2> QED BY <1>7, <2>1, <2>2
<1> QED
  BY <1>8, <1>9

\* A page is fetched.
LEMMA FetchStep ==
    ASSUME ReplayInv, NEW w \in Worker, FetchEvents(w) PROVE ReplayInv'
<1> DEFINE s == startLedger[w]
           p == getEvents(startLedger[w])
           spent == Spent("fetch", loaded[w], saves[w], faults)
<1>1. /\ spc[w] = "fetch" /\ spc' = [spc EXCEPT ![w] = "persist"]
      /\ batch' = [batch EXCEPT ![w] = p] /\ startLedger' = [startLedger EXCEPT ![w] = ledger]
      /\ loaded' = loaded /\ ids' = ids /\ ledger' = ledger /\ redisCursor' = redisCursor
      /\ redisIds' = redisIds /\ saves' = saves /\ faults' = faults
  BY DEF FetchEvents, Goto, redis
<1>2. s \in Nat /\ ledger \in Nat /\ ledger >= s /\ ledger <= ledger /\ "persist" \in Place
  BY InvFacts DEF Place
<1>4. /\ p \in Seq(EventId) /\ \A i, j \in DOMAIN p : i < j => p[i] < p[j]
      /\ ToSet(p) \subseteq PublicFrom(s)
  <2> HIDE DEF s
  <2> QED BY <1>2, PageInOrder DEF s
<1>5. \A e \in ToSet(p) : s <= Event[e].ledger /\ Event[e].ledger <= ledger
  BY <1>4 DEF PublicFrom
<1>6. PollInv("fetch", s, ids[w], batch[w], spent)
  BY <1>1, InvFacts
<1> HIDE DEF p
<1>7. PollInv("persist", ledger, ids[w], p, spent)
  <2> HIDE DEF s, spent
  <2> QED BY <1>1, <1>2, <1>4, <1>5, <1>6, FetchKeeps
<1>8. spent = Spent("persist", loaded[w], saves[w], faults)
  BY DEF Spent
<1>9. ProcessInv("persist", loaded[w], ledger, ids[w], p, saves[w], faults)
  BY <1>7, <1>8, InvFacts DEF ProcessInv
<1>10. faults >= faults
  BY InvFacts
<1> QED
  <2>1. /\ spc' = [spc EXCEPT ![w] = "persist"] /\ loaded' = [loaded EXCEPT ![w] = loaded[w]]
        /\ startLedger' = [startLedger EXCEPT ![w] = ledger] /\ ids' = [ids EXCEPT ![w] = ids[w]]
        /\ batch' = [batch EXCEPT ![w] = p] /\ saves' = [saves EXCEPT ![w] = saves[w]]
    BY <1>1, <1>2, <1>4, <1>9, <1>10, Unmoved
  <2>2. /\ "persist" \in Place /\ loaded[w] \in BOOLEAN /\ ledger \in Nat /\ ledger <= ledger
        /\ ids[w] \in Seq(EventId) /\ p \in Seq(EventId) /\ saves[w] \in [EventId -> Nat]
        /\ ledger' = ledger /\ redisCursor' \in Nat /\ redisCursor' <= ledger
        /\ redisIds' \in Seq(EventId) /\ faults' \in Nat /\ faults' >= faults
    BY <1>1, <1>2, <1>4, <1>9, <1>10, InvFacts
  <2>3. ProcessInv("persist", loaded[w], ledger, ids[w], p, saves[w], faults')
    BY <1>1, <1>2, <1>4, <1>9, <1>10
  <2> QED BY <2>1, <2>2, <2>3, ProcessStep

\* The steps that touch neither the page nor the window: getEvents without a page,
\* the two writes to Redis, also when they reject, the read of the payments and the
\* end of the poll.
LEMMA MoveStep ==
    ASSUME ReplayInv, NEW w \in Worker,
           FetchNothing(w) \/ PersistCursor(w) \/ ReadPayments(w) \/ PersistIds(w)
             \/ PersistFails(w) \/ PollReturns(w)
    PROVE  ReplayInv'
<1>1. PICK to \in Place :
        /\ spc' = [spc EXCEPT ![w] = to] /\ to # "save" /\ spc[w] # "idle"
        /\ batch[w] # <<>> /\ spc[w] \in {"persist", "read", "event", "save"} =>
             to \in {"persist", "read", "event", "save"}
  <2>1. CASE FetchNothing(w)
    BY <2>1 DEF FetchNothing, Goto, Place
  <2>2. CASE PersistCursor(w)
    BY <2>2 DEF PersistCursor, Goto, Place
  <2>3. CASE ReadPayments(w)
    BY <2>3 DEF ReadPayments, Goto, Place
  <2>4. CASE PersistIds(w)
    BY <2>4 DEF PersistIds, Goto, Place
  <2>5. CASE PollReturns(w)
    BY <2>5 DEF PollReturns, Goto, Place
  <2>6. CASE PersistFails(w)
    BY <2>6 DEF PersistFails, Goto, Place
  <2> QED BY <2>1, <2>2, <2>3, <2>4, <2>5, <2>6
<1>2. /\ loaded' = loaded /\ startLedger' = startLedger /\ ids' = ids /\ batch' = batch
      /\ ledger' = ledger /\ saves' = saves /\ faults' \in {faults, faults + 1}
  BY DEF FetchNothing, PersistCursor, ReadPayments, PersistIds, PollReturns, PersistFails,
         Fault, redis
<1>3. redisCursor' \in {redisCursor, startLedger[w]} /\ redisIds' \in {redisIds, ids[w]}
  BY DEF FetchNothing, PersistCursor, ReadPayments, PersistIds, PollReturns, PersistFails, redis
<1>4. /\ redisCursor' \in Nat /\ redisCursor' <= ledger /\ redisIds' \in Seq(EventId)
      /\ faults' \in Nat /\ faults' >= faults
  BY <1>2, <1>3, InvFacts
<1>5. ProcessInv(spc[w], loaded[w], startLedger[w], ids[w], batch[w], saves[w], faults')
  <2>1. ProcessInv(spc[w], loaded[w], startLedger[w], ids[w], batch[w], saves[w], faults)
    BY DEF ReplayInv
  <2> QED BY <1>4, <2>1, InvFacts, MoreFaults
<1>6. ProcessInv(to, loaded[w], startLedger[w], ids[w], batch[w], saves[w], faults')
  <2>1. PollInv(spc[w], startLedger[w], ids[w], batch[w], Spent(spc[w], loaded[w], saves[w], faults'))
    BY <1>5 DEF ProcessInv
  <2>2. batch[w] # <<>> => spc[w] \in {"persist", "read", "event", "save"}
    BY <2>1 DEF PollInv, PageShape
  <2>3. Spent(to, loaded[w], saves[w], faults') \in SUBSET Spent(spc[w], loaded[w], saves[w], faults')
    BY <1>1 DEF Spent
  <2>4. PollInv(to, startLedger[w], ids[w], batch[w], Spent(to, loaded[w], saves[w], faults'))
    BY <1>1, <2>1, <2>2, <2>3, MoveKeeps
  <2> QED BY <1>5, <2>4 DEF ProcessInv
<1> QED
  <2>1. /\ spc' = [spc EXCEPT ![w] = to] /\ loaded' = [loaded EXCEPT ![w] = loaded[w]]
        /\ startLedger' = [startLedger EXCEPT ![w] = startLedger[w]] /\ ids' = [ids EXCEPT ![w] = ids[w]]
        /\ batch' = [batch EXCEPT ![w] = batch[w]] /\ saves' = [saves EXCEPT ![w] = saves[w]]
    BY <1>1, <1>2, <1>4, <1>6, Unmoved
  <2>2. /\ to \in Place /\ loaded[w] \in BOOLEAN /\ startLedger[w] \in Nat /\ startLedger[w] <= ledger
        /\ ids[w] \in Seq(EventId) /\ batch[w] \in Seq(EventId) /\ saves[w] \in [EventId -> Nat]
        /\ ledger' = ledger /\ redisCursor' \in Nat /\ redisCursor' <= ledger
        /\ redisIds' \in Seq(EventId) /\ faults' \in Nat /\ faults' >= faults
    BY <1>1, <1>2, <1>4, <1>6, InvFacts
  <2>3. ProcessInv(to, loaded[w], startLedger[w], ids[w], batch[w], saves[w], faults')
    BY <1>1, <1>2, <1>4, <1>6
  <2> QED BY <2>1, <2>2, <2>3, ProcessStep

\* An event is skipped: known, or remembered and ignored.
LEMMA SkipStep ==
    ASSUME ReplayInv, NEW w \in Worker, SkipEvent(w) PROVE ReplayInv'
<1> DEFINE b == batch[w]
           r == Tail(b)
           spent == Spent("event", loaded[w], saves[w], faults)
<1>1. /\ spc[w] = "event" /\ spc' = spc /\ b # <<>>
      /\ batch' = [batch EXCEPT ![w] = r]
      /\ startLedger' = startLedger
      /\ loaded' = loaded /\ ledger' = ledger /\ redisCursor' = redisCursor
      /\ redisIds' = redisIds /\ saves' = saves /\ faults' = faults
  BY DEF SkipEvent, redis
<1>2. /\ PollInv("event", startLedger[w], ids[w], b, spent)
      /\ WindowFits /\ b \in Seq(EventId) /\ ids[w] \in Seq(EventId) /\ "event" \in Place
      /\ faults >= faults
  BY <1>1, InvFacts DEF Place
<1>3. Head(b) = b[1] /\ r \in Seq(EventId) /\ b[1] \in EventId
  BY <1>1, <1>2
<1>4. spc' = [spc EXCEPT ![w] = "event"]
  BY <1>1, Unmoved
<1>5. ASSUME NEW k \in Seq(EventId), ids' = [ids EXCEPT ![w] = k],
             PollInv("event", startLedger[w], k, r, spent)
      PROVE  ReplayInv'
  <2>1. ProcessInv("event", loaded[w], startLedger[w], k, r, saves[w], faults)
    BY <1>5, InvFacts DEF ProcessInv
  <2> HIDE DEF r
  <2> QED
    <3>1. /\ spc' = [spc EXCEPT ![w] = "event"] /\ loaded' = [loaded EXCEPT ![w] = loaded[w]]
          /\ startLedger' = [startLedger EXCEPT ![w] = startLedger[w]] /\ ids' = [ids EXCEPT ![w] = k]
          /\ batch' = [batch EXCEPT ![w] = r] /\ saves' = [saves EXCEPT ![w] = saves[w]]
      BY <1>1, <1>2, <1>3, <1>4, <1>5, <2>1, Unmoved
    <3>2. /\ "event" \in Place /\ loaded[w] \in BOOLEAN /\ startLedger[w] \in Nat /\ startLedger[w] <= ledger
          /\ k \in Seq(EventId) /\ r \in Seq(EventId) /\ saves[w] \in [EventId -> Nat]
          /\ ledger' = ledger /\ redisCursor' \in Nat /\ redisCursor' <= ledger
          /\ redisIds' \in Seq(EventId) /\ faults' \in Nat /\ faults' >= faults
      BY <1>1, <1>2, <1>3, <1>4, <1>5, <2>1, InvFacts
    <3>3. ProcessInv("event", loaded[w], startLedger[w], k, r, saves[w], faults')
      BY <1>1, <1>2, <1>3, <1>4, <1>5, <2>1
    <3> QED BY <3>1, <3>2, <3>3, ProcessStep
<1>6. ASSUME b[1] \in ToSet(ids[w]), ids' = ids PROVE ReplayInv'
  <2>1. PollInv("event", startLedger[w], ids[w], r, spent)
    <3>1. spent \in SUBSET (spent \cup {b[1]}) /\ "event" \in {"event", "save"}
      OBVIOUS
    <3> HIDE DEF b, spent
    <3> QED BY <1>1, <1>2, <1>6, <3>1, TakeKeeps
  <2> HIDE DEF r
  <2> QED BY <1>2, <1>5, <1>6, <2>1, Unmoved
<1>7. ASSUME b[1] \notin ToSet(ids[w]), ids' = [ids EXCEPT ![w] = Pushed(ids[w], b[1])]
      PROVE  ReplayInv'
  <2> DEFINE k == Pushed(ids[w], b[1])
  <2>1. PollInv("save", startLedger[w], k, b, spent)
    <3> HIDE DEF b, spent
    <3> QED BY <1>1, <1>2, <1>7, PushKeeps
  <2> HIDE DEF k
  <2>2. b[1] \in ToSet(k) /\ k \in Seq(EventId)
    BY <2>1, ElementFacts DEF PollInv, SaveIsFirst
  <2>3. PollInv("event", startLedger[w], k, r, spent)
    <3>1. spent \in SUBSET (spent \cup {b[1]}) /\ "save" \in {"event", "save"} /\ "save" # "event"
      OBVIOUS
    <3> HIDE DEF b, spent
    <3> QED BY <1>1, <2>1, <2>2, <3>1, TakeKeeps
  <2>4. ids' = [ids EXCEPT ![w] = k]
    BY <1>7 DEF k
  <2> HIDE DEF r
  <2> QED BY <1>5, <2>2, <2>3, <2>4
<1>8. \/ Head(b) \in ToSet(ids[w]) /\ ids' = ids
      \/ /\ Head(b) \notin ToSet(ids[w])
         /\ ids' = [ids EXCEPT ![w] = Pushed(ids[w], Head(b))]
  BY DEF SkipEvent, Remember, Pushed
<1> QED
  BY <1>3, <1>6, <1>7, <1>8

\* An event is matched with a payment: its id enters the window.
LEMMA MatchStep ==
    ASSUME ReplayInv, NEW w \in Worker, MatchEvent(w) PROVE ReplayInv'
<1> DEFINE b == batch[w]
           k == Pushed(ids[w], b[1])
           spent == Spent("event", loaded[w], saves[w], faults)
<1>1. /\ spc[w] = "event" /\ spc' = [spc EXCEPT ![w] = "save"] /\ b # <<>>
      /\ batch' = batch /\ startLedger' = startLedger
      /\ loaded' = loaded /\ ledger' = ledger /\ redisCursor' = redisCursor
      /\ redisIds' = redisIds /\ saves' = saves /\ faults' = faults
      /\ Head(b) \notin ToSet(ids[w])
      /\ ids' = [ids EXCEPT ![w] = Pushed(ids[w], Head(b))]
  BY DEF MatchEvent, Goto, redis, Remember, Pushed
<1>2. /\ PollInv("event", startLedger[w], ids[w], b, spent)
      /\ WindowFits /\ b \in Seq(EventId) /\ "save" \in Place /\ faults >= faults
  BY <1>1, InvFacts DEF Place
<1>3. Head(b) = b[1]
  BY <1>1, <1>2
<1>4. PollInv("save", startLedger[w], k, b, spent)
  <2>1. b[1] \notin ToSet(ids[w])
    BY <1>1, <1>3
  <2> HIDE DEF b, spent
  <2> QED BY <1>1, <1>2, <2>1, PushKeeps
<1>5. ids' = [ids EXCEPT ![w] = k]
  BY <1>1, <1>3
<1> HIDE DEF k
<1>6. k \in Seq(EventId)
  BY <1>4 DEF PollInv
<1>7. spent = Spent("save", loaded[w], saves[w], faults)
  BY DEF Spent
<1>8. ProcessInv("save", loaded[w], startLedger[w], k, b, saves[w], faults)
  BY <1>4, <1>7, InvFacts DEF ProcessInv
<1> QED
  <2>1. /\ spc' = [spc EXCEPT ![w] = "save"] /\ loaded' = [loaded EXCEPT ![w] = loaded[w]]
        /\ startLedger' = [startLedger EXCEPT ![w] = startLedger[w]] /\ ids' = [ids EXCEPT ![w] = k]
        /\ batch' = [batch EXCEPT ![w] = batch[w]] /\ saves' = [saves EXCEPT ![w] = saves[w]]
    BY <1>1, <1>2, <1>5, <1>6, <1>8, Unmoved
  <2>2. /\ "save" \in Place /\ loaded[w] \in BOOLEAN /\ startLedger[w] \in Nat /\ startLedger[w] <= ledger
        /\ k \in Seq(EventId) /\ batch[w] \in Seq(EventId) /\ saves[w] \in [EventId -> Nat]
        /\ ledger' = ledger /\ redisCursor' \in Nat /\ redisCursor' <= ledger
        /\ redisIds' \in Seq(EventId) /\ faults' \in Nat /\ faults' >= faults
    BY <1>1, <1>2, <1>5, <1>6, <1>8, InvFacts
  <2>3. ProcessInv("save", loaded[w], startLedger[w], k, batch[w], saves[w], faults')
    BY <1>1, <1>2, <1>5, <1>6, <1>8
  <2> QED BY <2>1, <2>2, <2>3, ProcessStep

\* A save that takes effect, of an event that is not spent: it was saved less often
\* than allowed, and now it may be spent.
LEMMA WriteFacts ==
    ASSUME ReplayInv, NEW w \in Worker, spc[w] = "save", WriteRow(w)
    PROVE  \E count \in [EventId -> Nat] :
             /\ saves' = [saves EXCEPT ![w] = count]
             /\ \A e \in EventId : count[e] <= Limit(loaded[w], faults)
             /\ Spent("event", loaded[w], count, faults) \in
                  SUBSET (Spent("save", loaded[w], saves[w], faults) \cup {batch[w][1]})
             /\ batch[w] # <<>> /\ batch[w][1] \in ToSet(ids[w])
<1> DEFINE b == batch[w]
           y == b[1]
           c == saves[w]
           n == Limit(loaded[w], faults)
           spent == Spent("save", loaded[w], c, faults)
           count == [c EXCEPT ![y] = c[y] + 1]
<1>1. /\ PollInv("save", startLedger[w], ids[w], b, spent) /\ ids[w] \in Seq(EventId)
      /\ b \in Seq(EventId) /\ c \in [EventId -> Nat] /\ faults \in Nat /\ loaded[w] \in BOOLEAN
      /\ \A e \in EventId : c[e] <= n
  BY InvFacts
<1>2. b # <<>> /\ ids[w] # <<>> /\ ids[w][Len(ids[w])] = y /\ y \notin spent
  BY <1>1 DEF PollInv, SaveIsFirst
<1>3. Head(b) = y /\ y \in EventId
  BY <1>1, <1>2
<1>4. saves' = [saves EXCEPT ![w][Head(b)] = saves[w][Head(b)] + 1]
  BY DEF WriteRow
<1>5. saves \in [Worker -> [EventId -> Nat]]
  BY DEF ReplayInv
<1>6. saves' = [saves EXCEPT ![w] = count]
  <2> HIDE DEF y, b
  <2> QED BY <1>3, <1>4, <1>5
<1>7. y \in ToSet(ids[w])
  <2> HIDE DEF y
  <2> QED BY <1>1, <1>2, ElementFacts
<1> HIDE DEF y, c
<1>8. /\ count \in [EventId -> Nat] /\ count[y] = c[y] + 1
      /\ \A e \in EventId : e # y => count[e] = c[e]
  BY <1>1, <1>3
<1> HIDE DEF count
<1>9. n \in Nat /\ c[y] < n
  <2>1. ~(c[y] >= n)
    BY <1>2, <1>3 DEF Spent
  <2>2. n \in Nat
    BY <1>1 DEF Limit
  <2> QED BY <1>1, <1>3, <2>1, <2>2
<1>10. \A e \in EventId : count[e] <= n
  <2> TAKE e \in EventId
  <2>1. CASE e = y
    <3>1. c[y] \in Nat /\ count[e] = c[y] + 1
      BY <1>1, <1>3, <1>8, <2>1
    <3> HIDE DEF n
    <3> QED BY <1>9, <3>1
  <2>2. CASE e # y
    BY <1>1, <1>8, <2>2
  <2> QED BY <2>1, <2>2
<1>11. Spent("event", loaded[w], count, faults) \in SUBSET (spent \cup {y})
  BY <1>8 DEF Spent
<1> QED
  BY <1>2, <1>6, <1>7, <1>8, <1>10, <1>11 DEF y, c

\* The matched payment is saved.
LEMMA SaveStep ==
    ASSUME ReplayInv, NEW w \in Worker, SaveEvent(w) PROVE ReplayInv'
<1> DEFINE b == batch[w]
           r == Tail(b)
           spent == Spent("save", loaded[w], saves[w], faults)
<1>1. /\ spc[w] = "save" /\ spc' = [spc EXCEPT ![w] = "event"] /\ WriteRow(w)
      /\ batch' = [batch EXCEPT ![w] = r]
      /\ startLedger' = startLedger /\ ids' = ids
      /\ loaded' = loaded /\ ledger' = ledger /\ redisCursor' = redisCursor
      /\ redisIds' = redisIds /\ faults' = faults
  BY DEF SaveEvent, Goto, redis
<1>2. /\ PollInv("save", startLedger[w], ids[w], b, spent)
      /\ b \in Seq(EventId) /\ "event" \in Place /\ faults >= faults
  BY <1>1, InvFacts DEF Place
<1>3. PICK count \in [EventId -> Nat] :
        /\ saves' = [saves EXCEPT ![w] = count]
        /\ \A e \in EventId : count[e] <= Limit(loaded[w], faults)
        /\ Spent("event", loaded[w], count, faults) \in SUBSET (spent \cup {b[1]})
        /\ b # <<>> /\ b[1] \in ToSet(ids[w])
  BY <1>1, WriteFacts
<1> DEFINE after == Spent("event", loaded[w], count, faults)
<1>4. PollInv("event", startLedger[w], ids[w], r, after)
  <2>1. "save" \in {"event", "save"} /\ "save" # "event"
    OBVIOUS
  <2>2. after \in SUBSET (spent \cup {b[1]})
    BY <1>3
  <2> HIDE DEF b, spent, after
  <2> QED BY <1>2, <1>3, <2>1, <2>2, TakeKeeps
<1>5. r \in Seq(EventId)
  BY <1>2, <1>3
<1> HIDE DEF r
<1>6. ProcessInv("event", loaded[w], startLedger[w], ids[w], r, count, faults)
  BY <1>3, <1>4 DEF ProcessInv
<1> QED
  <2>1. /\ spc' = [spc EXCEPT ![w] = "event"] /\ loaded' = [loaded EXCEPT ![w] = loaded[w]]
        /\ startLedger' = [startLedger EXCEPT ![w] = startLedger[w]] /\ ids' = [ids EXCEPT ![w] = ids[w]]
        /\ batch' = [batch EXCEPT ![w] = r] /\ saves' = [saves EXCEPT ![w] = count]
    BY <1>1, <1>2, <1>3, <1>5, <1>6, Unmoved
  <2>2. /\ "event" \in Place /\ loaded[w] \in BOOLEAN /\ startLedger[w] \in Nat /\ startLedger[w] <= ledger
        /\ ids[w] \in Seq(EventId) /\ r \in Seq(EventId) /\ count \in [EventId -> Nat]
        /\ ledger' = ledger /\ redisCursor' \in Nat /\ redisCursor' <= ledger
        /\ redisIds' \in Seq(EventId) /\ faults' \in Nat /\ faults' >= faults
    BY <1>1, <1>2, <1>3, <1>5, <1>6, InvFacts
  <2>3. ProcessInv("event", loaded[w], startLedger[w], ids[w], r, count, faults')
    BY <1>1, <1>2, <1>3, <1>5, <1>6
  <2> QED BY <2>1, <2>2, <2>3, ProcessStep

\* A rejected call that drops the page: after the fault no event is spent.
LEMMA DropStep ==
    ASSUME ReplayInv, NEW w \in Worker, FindFails(w) \/ AlertFails(w) \/ SaveFails(w)
    PROVE  ReplayInv'
<1> DEFINE n == Limit(loaded[w], faults)
<1>1. /\ spc' = [spc EXCEPT ![w] = "done"] /\ batch' = [batch EXCEPT ![w] = <<>>]
      /\ startLedger' = startLedger /\ faults' = faults + 1
      /\ loaded' = loaded /\ ledger' = ledger /\ redisCursor' = redisCursor
      /\ redisIds' = redisIds
  BY DEF FindFails, AlertFails, SaveFails, Fault, Goto, redis
<1>2. /\ "done" \in Place /\ <<>> \in Seq(EventId) /\ "done" # "save"
      /\ faults \in Nat /\ faults' \in Nat /\ faults' >= faults /\ loaded[w] \in BOOLEAN
      /\ startLedger[w] \in Nat /\ startLedger[w] <= ledger
  BY <1>1, EmptyFacts, InvFacts DEF Place
<1>3. \E k \in Seq(EventId) : WindowShape(k) /\ ids' = [ids EXCEPT ![w] = k]
  <2>1. CASE ids' = ids
    BY <2>1, Unmoved, InvFacts
  <2>2. CASE AlertFails(w)
    <3> DEFINE b == batch[w]
               spent == Spent("event", loaded[w], saves[w], faults)
    <3>1. /\ spc[w] = "event" /\ b # <<>> /\ Head(b) \notin ToSet(ids[w])
          /\ ids' = [ids EXCEPT ![w] = Pushed(ids[w], Head(b))]
      BY <2>2 DEF AlertFails, Goto, Remember, Pushed
    <3>2. PollInv("event", startLedger[w], ids[w], b, spent) /\ WindowFits /\ Head(b) = b[1]
      BY <3>1, InvFacts
    <3>3. PollInv("save", startLedger[w], Pushed(ids[w], b[1]), b, spent)
      <4> HIDE DEF b, spent
      <4> QED BY <3>1, <3>2, PushKeeps
    <3>4. Pushed(ids[w], b[1]) \in Seq(EventId) /\ WindowShape(Pushed(ids[w], b[1]))
      BY <3>3 DEF PollInv
    <3> QED BY <3>1, <3>2, <3>4
  <2> QED BY <2>1, <2>2 DEF FindFails, SaveFails
<1>4. \E count \in [EventId -> Nat] :
        saves' = [saves EXCEPT ![w] = count] /\ \A e \in EventId : count[e] <= n
  <2>1. CASE saves' = saves
    BY <2>1, Unmoved, InvFacts
  <2>2. CASE SaveFails(w) /\ WriteRow(w)
    <3>1. spc[w] = "save"
      BY <2>2 DEF SaveFails, Goto
    <3> QED BY <2>2, <3>1, WriteFacts
  <2> QED BY <2>1, <2>2 DEF FindFails, AlertFails, SaveFails
<1>5. PICK k \in Seq(EventId) : WindowShape(k) /\ ids' = [ids EXCEPT ![w] = k]
  BY <1>3
<1>6. PICK count \in [EventId -> Nat] :
        saves' = [saves EXCEPT ![w] = count] /\ \A e \in EventId : count[e] <= n
  BY <1>4
<1>7. \A e \in EventId : count[e] + 1 <= Limit(loaded[w], faults')
  <2>1. n \in Nat /\ Limit(loaded[w], faults') = n + 1
    BY <1>1, <1>2 DEF Limit
  <2> HIDE DEF n
  <2> QED BY <1>6, <2>1
<1>8. ProcessInv("done", loaded[w], startLedger[w], k, <<>>, count, faults')
  BY <1>2, <1>5, <1>7, CleanProcess
<1> QED
  <2>1. /\ spc' = [spc EXCEPT ![w] = "done"] /\ loaded' = [loaded EXCEPT ![w] = loaded[w]]
        /\ startLedger' = [startLedger EXCEPT ![w] = startLedger[w]] /\ ids' = [ids EXCEPT ![w] = k]
        /\ batch' = [batch EXCEPT ![w] = <<>>] /\ saves' = [saves EXCEPT ![w] = count]
    BY <1>1, <1>2, <1>5, <1>6, <1>8, Unmoved
  <2>2. /\ "done" \in Place /\ loaded[w] \in BOOLEAN /\ startLedger[w] \in Nat /\ startLedger[w] <= ledger
        /\ k \in Seq(EventId) /\ <<>> \in Seq(EventId) /\ count \in [EventId -> Nat]
        /\ ledger' = ledger /\ redisCursor' \in Nat /\ redisCursor' <= ledger
        /\ redisIds' \in Seq(EventId) /\ faults' \in Nat /\ faults' >= faults
    BY <1>1, <1>2, <1>5, <1>6, <1>8, InvFacts
  <2>3. ProcessInv("done", loaded[w], startLedger[w], k, <<>>, count, faults')
    BY <1>1, <1>2, <1>5, <1>6, <1>8
  <2> QED BY <2>1, <2>2, <2>3, ProcessStep

\* The process restarts: what it saved may be saved once more.
LEMMA RestartStep ==
    ASSUME ReplayInv, NEW w \in Worker, Restart(w) PROVE ReplayInv'
<1>1. /\ spc' = [spc EXCEPT ![w] = "idle"] /\ batch' = [batch EXCEPT ![w] = <<>>]
      /\ startLedger' = [startLedger EXCEPT ![w] = 0] /\ ids' = [ids EXCEPT ![w] = <<>>]
      /\ loaded' = [loaded EXCEPT ![w] = FALSE] /\ ledger' = ledger
      /\ redisCursor' = redisCursor
      /\ redisIds' = redisIds /\ faults' = faults + 1 /\ saves' = saves
  BY DEF Restart, Fault, redis
<1>2. "idle" \in Place /\ <<>> \in Seq(EventId) /\ FALSE \in BOOLEAN /\ 0 \in Nat
  BY EmptyFacts DEF Place
<1>3. /\ 0 <= ledger /\ faults \in Nat /\ faults' \in Nat /\ faults' >= faults
      /\ saves[w] \in [EventId -> Nat] /\ loaded[w] \in BOOLEAN
      /\ \A e \in EventId : saves[w][e] <= Limit(loaded[w], faults)
  BY <1>1, InvFacts
<1>4. Limit(loaded[w], faults) <= faults + 1 /\ Limit(loaded[w], faults) \in Nat
  BY <1>3 DEF Limit
<1>5. \A e \in EventId : saves[w][e] <= Limit(FALSE, faults')
  BY <1>1, <1>3, <1>4 DEF Limit
<1>6. PollInv("idle", 0, <<>>, <<>>, {}) /\ Spent("idle", FALSE, saves[w], faults') = {}
  <2>1. WindowShape(<<>>) /\ "idle" # "save"
    BY EmptyFacts DEF WindowShape
  <2> QED BY <1>2, <2>1, NothingSpent DEF Spent
<1>7. ProcessInv("idle", FALSE, 0, <<>>, <<>>, saves[w], faults')
  BY <1>5, <1>6 DEF ProcessInv
<1> QED
  BY <1>1, <1>2, <1>3, <1>7, InvFacts, Unmoved, ProcessStep

\* A ledger closes.
LEMMA CloseStep ==
    ASSUME ReplayInv, CloseLedger PROVE ReplayInv'
<1>1. /\ ledger' = ledger + 1 /\ redisCursor' = redisCursor /\ redisIds' = redisIds
      /\ spc' = spc /\ loaded' = loaded /\ startLedger' = startLedger /\ ids' = ids
      /\ batch' = batch /\ saves' = saves /\ faults' = faults
  BY DEF CloseLedger, redis
<1>2. /\ ledger' \in Nat /\ redisCursor' <= ledger'
      /\ \A w \in Worker : startLedger'[w] <= ledger'
  BY <1>1 DEF ReplayInv
<1> QED
  BY <1>1, <1>2 DEF ReplayInv, WindowFits

\* Every step keeps the invariant.
LEMMA ReplayInductive ==
    ReplayInv /\ [Next]_vars => ReplayInv'
<1> SUFFICES ASSUME ReplayInv, [Next]_vars PROVE ReplayInv'
  OBVIOUS
<1>1. ASSUME NEW w \in Worker, PollStep(w) PROVE ReplayInv'
  BY <1>1, FetchStep, MoveStep, SkipStep, MatchStep, SaveStep DEF PollStep
<1>2. ASSUME NEW w \in Worker, LoadState(w) \/ PollReturns(w) \/ PollRejects(w) \/ Restart(w)
      PROVE ReplayInv'
  BY <1>2, LoadStep, MoveStep, DropStep, RestartStep DEF PollRejects
<1>3. CASE UNCHANGED vars
  BY <1>3 DEF vars, redis, ReplayInv, WindowFits
<1> QED
  BY <1>1, <1>2, <1>3, CloseStep DEF Next

\* The first states.
LEMMA ReplayFirst == Init /\ WindowFits => ReplayInv
<1> SUFFICES ASSUME Init, WindowFits PROVE ReplayInv
  OBVIOUS
<1>1. <<>> \in Seq(EventId) /\ "idle" \in Place /\ WindowShape(<<>>) /\ "idle" # "save"
  BY EmptyFacts DEF Place, WindowShape
<1>2. /\ ledger = 0 /\ redisCursor = 0 /\ redisIds = <<>> /\ faults = 0
      /\ spc = [w \in Worker |-> "idle"] /\ loaded = [w \in Worker |-> FALSE]
      /\ startLedger = [w \in Worker |-> 0]
      /\ saves = [w \in Worker |-> [e \in EventId |-> 0]]
      /\ ids = [w \in Worker |-> <<>>] /\ batch = [w \in Worker |-> <<>>]
  BY DEF Init, InitMonitor
<1>3. /\ ids \in [Worker -> Seq(EventId)] /\ batch \in [Worker -> Seq(EventId)]
      /\ redisIds \in Seq(EventId)
  BY <1>1, <1>2
<1>4. /\ spc \in [Worker -> Place] /\ loaded \in [Worker -> BOOLEAN]
      /\ startLedger \in [Worker -> Nat] /\ saves \in [Worker -> [EventId -> Nat]]
  BY <1>1, <1>2
<1>5. ASSUME NEW w \in Worker
      PROVE  ProcessInv(spc[w], loaded[w], startLedger[w], ids[w], batch[w], saves[w], faults)
  <2>1. PollInv("idle", 0, <<>>, <<>>, {}) /\ Spent("idle", FALSE, saves[w], faults) = {}
    BY <1>1, NothingSpent DEF Spent
  <2>2. \A e \in EventId : saves[w][e] <= Limit(FALSE, 0)
    BY <1>2 DEF Limit
  <2>3. /\ spc[w] = "idle" /\ loaded[w] = FALSE /\ startLedger[w] = 0 /\ ids[w] = <<>>
        /\ batch[w] = <<>> /\ faults = 0
    BY <1>2
  <2> QED BY <2>1, <2>2, <2>3 DEF ProcessInv
<1>6. /\ ledger \in Nat /\ redisCursor \in Nat /\ redisCursor <= ledger /\ faults \in Nat
      /\ \A w \in Worker : startLedger[w] <= ledger
  BY <1>2
<1> QED
  BY <1>3, <1>4, <1>5, <1>6 DEF ReplayInv

\* docs/soroban-integration.md, "Persisted cursors and transaction/event IDs prevent
\* replay", of pollEscrowEvents in each process: however often it polls, however many
\* replicas overwrite the Redis copies, a process saves an escrow event at most once
\* more than there were restarts and rejected calls.  The window of ids must have room
\* for the events of one ledger; without that TLC finds an event saved twice.
THEOREM ReplaysBounded ==
    WindowFits /\ Spec => []ReplaysAreAccounted
<1>1. Init /\ WindowFits => ReplayInv
  BY ReplayFirst
<1>2. ReplayInv /\ [Next]_vars => ReplayInv'
  BY ReplayInductive
<1>3. ReplayInv => ReplaysAreAccounted
  <2> SUFFICES ASSUME ReplayInv, NEW w \in Worker, NEW e \in EventId
               PROVE  saves[w][e] <= 1 + faults
    BY DEF ReplaysAreAccounted
  <2>1. /\ saves[w][e] \in Nat /\ faults \in Nat /\ loaded[w] \in BOOLEAN
        /\ saves[w][e] <= Limit(loaded[w], faults)
    BY InvFacts
  <2> QED BY <2>1 DEF Limit
<1> QED
  BY <1>1, <1>2, <1>3, PTL DEF Spec
=============================================================================
